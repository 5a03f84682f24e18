--------------------------- MODULE Targets_proofs ---------------------------
(***************************************************************************)
(* Proofs about the fetch and follow commands: the counters of a source    *)
(* add up, for any number of commands, and a command works through the     *)
(* targets on stdin in their order, whatever stdin holds.                  *)
(***************************************************************************)
EXTENDS TargetCommands, FiniteSetTheorems, SequenceTheorems, TLAPS

-----------------------------------------------------------------------------
\* The targets on stdin.  The operators take their state as parameters: the lines, what is
\* not read of them, the channel, the reader and the command.

LineSet(ls) == {ls[i] : i \in 1..Len(ls)}

Items(ls) == LineSet(ls) \cup {[type |-> "bad"]}

DoneTargets(ls) == [target : LineSet(ls), outcome : {"whole", "partial", "failed"}]

IsStdin(ls) ==
  /\ ls \in Seq(LineSet(ls))
  /\ \A i \in 1..Len(ls) : ls[i].type \in {"target", "blank", "bad"}

BadOf(ls) == {i \in 1..Len(ls) : ls[i].type = "bad"}

TargetsOf(ls) == {i \in 1..Len(ls) : ls[i].type = "target" /\ \A j \in BadOf(ls) : i < j}

\* The targets among the first n lines, and the place of one.
UpTo(ls, n) == {i \in TargetsOf(ls) : i <= n}

PlaceOf(ls, i) == Cardinality(UpTo(ls, i))

\* There are finitely many targets.
LEMMA TargetsFinite ==
  ASSUME NEW ls, IsStdin(ls)
  PROVE  /\ Len(ls) \in Nat
         /\ IsFiniteSet(TargetsOf(ls)) /\ Cardinality(TargetsOf(ls)) \in Nat
         /\ \A n : /\ IsFiniteSet(UpTo(ls, n)) /\ Cardinality(UpTo(ls, n)) \in Nat
                   /\ Cardinality(UpTo(ls, n)) <= Cardinality(TargetsOf(ls))
<1>1. Len(ls) \in Nat
  BY DEF IsStdin
<1>2. IsFiniteSet(1..Len(ls))
  BY <1>1, FS_Interval
<1>3. IsFiniteSet(TargetsOf(ls))
  <2>1. TargetsOf(ls) \subseteq 1..Len(ls)
    BY DEF TargetsOf
  <2> QED
    BY <1>2, <2>1, FS_Subset
<1>4. ASSUME NEW n
      PROVE  /\ IsFiniteSet(UpTo(ls, n)) /\ Cardinality(UpTo(ls, n)) \in Nat
             /\ Cardinality(UpTo(ls, n)) <= Cardinality(TargetsOf(ls))
  <2>1. UpTo(ls, n) \subseteq TargetsOf(ls)
    BY DEF UpTo
  <2>2. IsFiniteSet(UpTo(ls, n)) /\ Cardinality(UpTo(ls, n)) <= Cardinality(TargetsOf(ls))
    BY <1>3, <2>1, FS_Subset
  <2> QED
    BY <2>2, FS_CardinalityType
<1> QED
  BY <1>1, <1>3, <1>4, FS_CardinalityType

\* One more line is a target more or not.
LEMMA NextLine ==
  ASSUME NEW ls, IsStdin(ls), NEW n \in Nat
  PROVE  /\ n + 1 \notin TargetsOf(ls) => UpTo(ls, n + 1) = UpTo(ls, n)
         /\ n + 1 \in TargetsOf(ls)
              => /\ UpTo(ls, n + 1) = UpTo(ls, n) \cup {n + 1}
                 /\ Cardinality(UpTo(ls, n + 1)) = Cardinality(UpTo(ls, n)) + 1
<1>1. TargetsOf(ls) \subseteq Nat
  BY TargetsFinite DEF TargetsOf
<1>2. n + 1 \notin TargetsOf(ls) => UpTo(ls, n + 1) = UpTo(ls, n)
  BY <1>1 DEF UpTo
<1>3. ASSUME n + 1 \in TargetsOf(ls)
      PROVE  /\ UpTo(ls, n + 1) = UpTo(ls, n) \cup {n + 1}
             /\ Cardinality(UpTo(ls, n + 1)) = Cardinality(UpTo(ls, n)) + 1
  <2>1. UpTo(ls, n + 1) = UpTo(ls, n) \cup {n + 1} /\ n + 1 \notin UpTo(ls, n)
    BY <1>1, <1>3 DEF UpTo
  <2> QED
    BY <2>1, TargetsFinite, FS_AddElement
<1> QED
  BY <1>2, <1>3

\* The places of the targets among the first n lines, and of the others.
LEMMA PlacesOf ==
  ASSUME NEW ls, IsStdin(ls), NEW n \in Nat
  PROVE  /\ \A i \in UpTo(ls, n) : /\ PlaceOf(ls, i) \in Nat /\ 1 <= PlaceOf(ls, i)
                                   /\ PlaceOf(ls, i) <= Cardinality(UpTo(ls, n))
         /\ \A i \in TargetsOf(ls) : i \notin UpTo(ls, n)
              => PlaceOf(ls, i) \in Nat /\ PlaceOf(ls, i) > Cardinality(UpTo(ls, n))
<1>1. TargetsOf(ls) \subseteq Nat
  BY TargetsFinite DEF TargetsOf
<1>2. ASSUME NEW i \in UpTo(ls, n)
      PROVE  /\ PlaceOf(ls, i) \in Nat /\ 1 <= PlaceOf(ls, i)
             /\ PlaceOf(ls, i) <= Cardinality(UpTo(ls, n))
  <2> DEFINE U == UpTo(ls, i)
  <2>1. U \subseteq UpTo(ls, n) /\ U # {}
    BY <1>1, <1>2 DEF UpTo
  <2>2. IsFiniteSet(U) /\ Cardinality(U) \in Nat /\ IsFiniteSet(UpTo(ls, n))
    BY TargetsFinite
  <2> HIDE DEF U
  <2>3. Cardinality(U) <= Cardinality(UpTo(ls, n))
    BY <2>1, <2>2, FS_Subset
  <2>4. Cardinality(U) # 0
    BY <2>1, <2>2, FS_EmptySet
  <2> QED
    BY <2>2, <2>3, <2>4 DEF U, PlaceOf
<1>3. ASSUME NEW i \in TargetsOf(ls), i \notin UpTo(ls, n)
      PROVE  PlaceOf(ls, i) \in Nat /\ PlaceOf(ls, i) > Cardinality(UpTo(ls, n))
  <2> DEFINE U == UpTo(ls, n)
             V == UpTo(ls, i)
  <2>1. U \subseteq V /\ i \in V /\ i \notin U
    BY <1>1, <1>3 DEF UpTo
  <2>2. IsFiniteSet(U) /\ Cardinality(U) \in Nat /\ IsFiniteSet(V) /\ Cardinality(V) \in Nat
    BY TargetsFinite
  <2> HIDE DEF U, V
  <2>3. Cardinality(U) <= Cardinality(V) /\ (Cardinality(V) = Cardinality(U) => V = U)
    BY <2>1, <2>2, FS_Subset
  <2>4. Cardinality(V) > Cardinality(U)
    BY <2>1, <2>2, <2>3
  <2> QED
    BY <2>2, <2>4 DEF U, V, PlaceOf
<1> QED
  BY <1>2, <1>3

LastBad(q) == q # <<>> /\ q[Len(q)].type = "bad"

\* The targets the reader is ahead of the command.
Ahead(q) == IF LastBad(q) THEN Len(q) - 1 ELSE Len(q)

Waits(k) == k.st \in {"calling", "streaming"}

\* The targets the command took.
Taken(k) == IF Waits(k) THEN Len(k.done) + 1 ELSE Len(k.done)

\* How many lines are read.
NRead(ls, in) == Len(ls) - Len(in)

Input(ls, in) ==
  /\ in \in Seq(LineSet(ls)) /\ Len(in) <= Len(ls)
  /\ \A i \in 1..Len(in) : in[i] = ls[NRead(ls, in) + i]

IsReader(r) == r = [st |-> r.st, emitted |-> r.emitted, failed |-> r.failed]

\* What the reader sent: a bad item is the last, and all is well before it.
Channel(ls, n, q, r) ==
  /\ IsReader(r)
  /\ r.st \in {"reading", "blocked", "blocked-last", "ended"}
  /\ q \in Seq(Items(ls))
  /\ r.st \in {"reading", "ended"} => Len(q) <= 1
  /\ r.st \in {"blocked", "blocked-last"} => Len(q) = 2
  /\ \A i \in 1..Len(q) : q[i].type = "bad"
       => i = Len(q) /\ r.st \in {"ended", "blocked-last"}
  /\ r.st \in {"reading", "blocked"} =>
       /\ r.failed = FALSE /\ r.emitted \in BOOLEAN /\ (r.emitted = TRUE <=> UpTo(ls, n) # {})
       /\ \A i \in BadOf(ls) : i > n
  /\ r.st \in {"ended", "blocked-last"} =>
       /\ UpTo(ls, n) = TargetsOf(ls)
       /\ LastBad(q) => TargetsOf(ls) = {} \/ BadOf(ls) # {}
       /\ ~LastBad(q) => TargetsOf(ls) # {} /\ BadOf(ls) = {}

\* The targets up to line n are done, at work or in the channel, in their order.
Ordered(ls, n, q, k) ==
  /\ Cardinality(UpTo(ls, n)) = Taken(k) + Ahead(q)
  /\ \A i \in UpTo(ls, n) :
       /\ PlaceOf(ls, i) <= Len(k.done) => k.done[PlaceOf(ls, i)].target = ls[i]
       /\ Waits(k) /\ PlaceOf(ls, i) = Len(k.done) + 1 => k.target = ls[i]
       /\ PlaceOf(ls, i) > Taken(k) => q[PlaceOf(ls, i) - Taken(k)] = ls[i]

\* No target failed so far.
Works(ls, k) ==
  /\ k.done \in Seq(DoneTargets(ls)) /\ k.exit = None
  /\ \A i \in 1..Len(k.done) : k.done[i].outcome # "failed"
  /\ Waits(k) => k.target \in LineSet(ls)

\* What a command did and how it exits: StdinInOrder without the channel.
Fine(ls, done, exit) ==
  /\ done \in Seq(DoneTargets(ls))
  /\ Len(done) <= Cardinality(TargetsOf(ls))
  /\ \A i \in TargetsOf(ls) : PlaceOf(ls, i) <= Len(done) => done[PlaceOf(ls, i)].target = ls[i]
  /\ {i \in 1..Len(done) : done[i].outcome = "failed"} \subseteq {Len(done)}
  /\ {i \in 1..Len(done) : done[i].outcome = "failed"} # {} <=> exit \in {1, 3}
  /\ exit \in {0, 2} => Len(done) = Cardinality(TargetsOf(ls))
  /\ exit = 0 => TargetsOf(ls) # {} /\ BadOf(ls) = {}
  /\ exit = 2 => TargetsOf(ls) = {} \/ BadOf(ls) # {}

\* While it works, what it did is fine.
LEMMA WorksIsFine ==
  ASSUME TargetsAssumption, NEW ls, IsStdin(ls), NEW n \in Nat, NEW q \in Seq(Items(ls)), NEW k,
         Ordered(ls, n, q, k), Works(ls, k)
  PROVE  Fine(ls, k.done, k.exit)
<1>1. Len(k.done) \in Nat /\ Ahead(q) \in Int /\ Ahead(q) >= 0
  <2>1. Len(q) \in Nat /\ (q # <<>> => Len(q) # 0) /\ Len(k.done) \in Nat
    BY EmptySeq, LenProperties DEF Works
  <2> QED
    BY <2>1 DEF Ahead, LastBad
<1>2. Cardinality(UpTo(ls, n)) \in Nat /\ Cardinality(UpTo(ls, n)) <= Cardinality(TargetsOf(ls))
      /\ Cardinality(TargetsOf(ls)) \in Nat
  BY TargetsFinite
<1>3. Len(k.done) <= Cardinality(UpTo(ls, n))
  BY <1>1, <1>2 DEF Ordered, Taken
<1>4. \A i \in TargetsOf(ls) : PlaceOf(ls, i) <= Len(k.done) => k.done[PlaceOf(ls, i)].target = ls[i]
  <2>1. ASSUME NEW i \in TargetsOf(ls), PlaceOf(ls, i) <= Len(k.done)
        PROVE  i \in UpTo(ls, n)
    BY <1>1, <1>2, <1>3, <2>1, PlacesOf
  <2> QED
    BY <2>1 DEF Ordered
<1>5. k.exit \notin {0, 1, 2, 3}
  BY DEF Works, TargetsAssumption
<1>6. {i \in 1..Len(k.done) : k.done[i].outcome = "failed"} = {}
  BY DEF Works
<1>7. k.done \in Seq(DoneTargets(ls))
  BY DEF Works
<1> QED
  BY <1>1, <1>2, <1>3, <1>4, <1>5, <1>6, <1>7 DEF Fine

\* One more line is read.
LEMMA InputStep ==
  ASSUME NEW ls, IsStdin(ls), NEW in, Input(ls, in)
  PROVE  /\ NRead(ls, in) \in Nat
         /\ in = <<>> => NRead(ls, in) = Len(ls)
         /\ in # <<>> => /\ Input(ls, Tail(in)) /\ NRead(ls, Tail(in)) = NRead(ls, in) + 1
                         /\ NRead(ls, in) + 1 \in 1..Len(ls)
                         /\ Head(in) = ls[NRead(ls, in) + 1]
<1>1. Len(ls) \in Nat /\ Len(in) \in Nat /\ Len(in) <= Len(ls) /\ in \in Seq(LineSet(ls))
  BY DEF IsStdin, Input
<1>2. NRead(ls, in) \in Nat
  BY <1>1 DEF NRead
<1>3. in = <<>> => NRead(ls, in) = Len(ls)
  BY <1>1, EmptySeq DEF NRead
<1>4. ASSUME in # <<>>
      PROVE  /\ Input(ls, Tail(in)) /\ NRead(ls, Tail(in)) = NRead(ls, in) + 1
             /\ NRead(ls, in) + 1 \in 1..Len(ls) /\ Head(in) = ls[NRead(ls, in) + 1]
  <2>1. Tail(in) \in Seq(LineSet(ls)) /\ Len(Tail(in)) = Len(in) - 1 /\ Len(in) >= 1
        /\ \A i \in 1..Len(Tail(in)) : Tail(in)[i] = in[i + 1]
    BY <1>1, <1>4, HeadTailProperties, EmptySeq
  <2>2. NRead(ls, Tail(in)) = NRead(ls, in) + 1
    BY <1>1, <2>1 DEF NRead
  <2>3. NRead(ls, in) + 1 \in 1..Len(ls)
    BY <1>1, <2>1 DEF NRead
  <2>4. Head(in) = ls[NRead(ls, in) + 1]
    <3>1. Head(in) = in[1]
      OBVIOUS
    <3> QED
      BY <1>1, <2>1, <3>1 DEF Input
  <2>5. ASSUME NEW i \in 1..Len(Tail(in))
        PROVE  Tail(in)[i] = ls[NRead(ls, Tail(in)) + i]
    <3>1. Tail(in)[i] = in[i + 1] /\ i + 1 \in 1..Len(in)
      BY <1>1, <2>1
    <3>2. in[i + 1] = ls[NRead(ls, in) + (i + 1)]
      BY <3>1 DEF Input
    <3>3. NRead(ls, in) + (i + 1) = NRead(ls, Tail(in)) + i
      BY <1>1, <1>2, <2>1, <2>2
    <3> QED
      BY <3>1, <3>2, <3>3
  <2> QED
    BY <1>1, <2>1, <2>2, <2>3, <2>4, <2>5 DEF Input
<1> QED
  BY <1>2, <1>3, <1>4

\* What is in the channel while the reader reads.
LEMMA ReadingChannel ==
  ASSUME NEW ls, IsStdin(ls), NEW n \in Nat, NEW q, NEW r, Channel(ls, n, q, r),
         r.st = "reading"
  PROVE  /\ q \in Seq(Items(ls)) /\ Len(q) \in Nat /\ Len(q) <= 1 /\ (q = <<>> <=> Len(q) = 0)
         /\ \A i \in 1..Len(q) : q[i].type # "bad"
         /\ ~LastBad(q) /\ Ahead(q) = Len(q)
         /\ r.failed = FALSE /\ (r.emitted = TRUE <=> UpTo(ls, n) # {})
         /\ \A i \in BadOf(ls) : i > n
<1>1. q \in Seq(Items(ls)) /\ Len(q) <= 1
  BY DEF Channel
<1>2. Len(q) \in Nat /\ (q = <<>> <=> Len(q) = 0)
  BY <1>1, EmptySeq
<1>3. \A i \in 1..Len(q) : q[i].type # "bad"
  BY DEF Channel
<1>4. ~LastBad(q)
  BY <1>2, <1>3 DEF LastBad
<1>5. r.failed = FALSE /\ (r.emitted = TRUE <=> UpTo(ls, n) # {}) /\ \A i \in BadOf(ls) : i > n
  BY DEF Channel
<1> QED
  BY <1>1, <1>2, <1>3, <1>4, <1>5 DEF Ahead

\* A blank line changes nothing.
LEMMA BlankLine ==
  ASSUME NEW ls, IsStdin(ls), NEW n \in Nat, NEW q, NEW r, NEW k, Channel(ls, n, q, r),
         Ordered(ls, n, q, k), r.st = "reading", n + 1 \in 1..Len(ls), ls[n + 1].type = "blank"
  PROVE  Channel(ls, n + 1, q, r) /\ Ordered(ls, n + 1, q, k)
<1>1. UpTo(ls, n + 1) = UpTo(ls, n)
  <2>1. n + 1 \notin TargetsOf(ls)
    BY DEF TargetsOf
  <2> QED
    BY <2>1, NextLine
<1>2. \A i \in BadOf(ls) : i > n + 1
  <2>1. \A i \in BadOf(ls) : i > n
    BY ReadingChannel
  <2> QED
    BY <2>1 DEF BadOf
<1>3. Ordered(ls, n + 1, q, k)
  BY <1>1 DEF Ordered
<1> QED
  BY <1>1, <1>2, <1>3 DEF Channel

\* A line with a target goes to the end of the channel.
LEMMA TargetLine ==
  ASSUME NEW ls, IsStdin(ls), NEW n \in Nat, NEW q, NEW r, NEW k, NEW r2, Channel(ls, n, q, r),
         Ordered(ls, n, q, k), Works(ls, k),
         r.st = "reading", n + 1 \in 1..Len(ls), ls[n + 1].type = "target",
         IsReader(r2),
         r2.emitted = TRUE, r2.failed = FALSE,
         r2.st = IF q = <<>> THEN "reading" ELSE "blocked"
  PROVE  Channel(ls, n + 1, Append(q, ls[n + 1]), r2)
         /\ Ordered(ls, n + 1, Append(q, ls[n + 1]), k)
<1> DEFINE line == ls[n + 1]
           q2 == Append(q, line)
<1>1. /\ q \in Seq(Items(ls)) /\ Len(q) \in Nat /\ Len(q) <= 1 /\ (q = <<>> <=> Len(q) = 0)
      /\ \A i \in 1..Len(q) : q[i].type # "bad"
      /\ ~LastBad(q) /\ Ahead(q) = Len(q) /\ \A i \in BadOf(ls) : i > n
  BY ReadingChannel
<1>2. line \in Items(ls) /\ line.type # "bad"
  BY DEF Items, LineSet
<1> HIDE DEF line
<1>3. /\ q2 \in Seq(Items(ls)) /\ Len(q2) = Len(q) + 1 /\ q2[Len(q) + 1] = line
      /\ \A i \in 1..Len(q) : q2[i] = q[i]
  BY <1>1, <1>2, AppendProperties
<1> HIDE DEF q2
<1>4. \A i \in 1..Len(q2) : q2[i].type # "bad"
  BY <1>1, <1>2, <1>3
<1>5. ~LastBad(q2) /\ Ahead(q2) = Len(q) + 1
  <2>1. Len(q2) \in 1..Len(q2)
    BY <1>1, <1>3
  <2> QED
    BY <1>3, <1>4, <2>1 DEF LastBad, Ahead
<1>6. n + 1 \in TargetsOf(ls) /\ \A i \in BadOf(ls) : i > n + 1
  <2>1. \A i \in BadOf(ls) : i > n + 1
    BY <1>1 DEF BadOf
  <2> QED
    BY <2>1 DEF TargetsOf
<1>7. UpTo(ls, n + 1) = UpTo(ls, n) \cup {n + 1}
      /\ Cardinality(UpTo(ls, n + 1)) = Cardinality(UpTo(ls, n)) + 1
  BY <1>6, NextLine
<1>8. Channel(ls, n + 1, q2, r2)
  <2>1. r2.st \in {"reading", "blocked"}
    OBVIOUS
  <2>2. (r2.st = "reading" => Len(q2) <= 1) /\ (r2.st = "blocked" => Len(q2) = 2)
    BY <1>1, <1>3
  <2>3. UpTo(ls, n + 1) # {}
    BY <1>7
  <2> QED
    BY <1>3, <1>4, <1>6, <2>1, <2>2, <2>3 DEF Channel
<1>9. Ordered(ls, n + 1, q2, k)
  <2> DEFINE t == Taken(k)
             p(i) == PlaceOf(ls, i)
  <2>1. Len(k.done) \in Nat /\ t \in Nat /\ Len(k.done) <= t
    <3>1. Len(k.done) \in Nat
      BY LenProperties DEF Works
    <3> QED
      BY <3>1 DEF Taken
  <2> HIDE DEF t
  <2>2. Cardinality(UpTo(ls, n)) = t + Len(q)
    BY <1>1 DEF Ordered, t
  <2>3. Cardinality(UpTo(ls, n + 1)) = t + Ahead(q2)
    BY <1>1, <1>5, <1>7, <2>1, <2>2
  <2>4. PlaceOf(ls, n + 1) = t + Len(q) + 1
    BY <1>7, <2>2 DEF PlaceOf
  <2>5. ASSUME NEW i \in UpTo(ls, n)
        PROVE  /\ PlaceOf(ls, i) <= Len(k.done) => k.done[PlaceOf(ls, i)].target = ls[i]
               /\ Waits(k) /\ PlaceOf(ls, i) = Len(k.done) + 1 => k.target = ls[i]
               /\ PlaceOf(ls, i) > t => q2[PlaceOf(ls, i) - t] = ls[i]
    <3>1. PlaceOf(ls, i) \in Nat /\ PlaceOf(ls, i) <= t + Len(q)
      BY <2>2, PlacesOf
    <3>2. PlaceOf(ls, i) > t => PlaceOf(ls, i) - t \in 1..Len(q) /\ q[PlaceOf(ls, i) - t] = ls[i]
      BY <1>1, <2>1, <3>1 DEF Ordered, t
    <3>3. PlaceOf(ls, i) > t => q2[PlaceOf(ls, i) - t] = ls[i]
      BY <1>3, <3>2
    <3> QED
      BY <3>3 DEF Ordered
  <2>6. /\ ~(PlaceOf(ls, n + 1) <= Len(k.done))
        /\ ~(Waits(k) /\ PlaceOf(ls, n + 1) = Len(k.done) + 1)
        /\ q2[PlaceOf(ls, n + 1) - t] = ls[n + 1]
    <3>1. Waits(k) => t = Len(k.done) + 1
      BY DEF Taken, t
    <3>2. PlaceOf(ls, n + 1) - t = Len(q) + 1
      BY <1>1, <2>1, <2>4
    <3> QED
      BY <1>1, <1>3, <2>1, <2>4, <3>1, <3>2 DEF line
  <2> QED
    BY <1>7, <2>3, <2>5, <2>6 DEF Ordered, t
<1> QED
  BY <1>8, <1>9 DEF q2, line

\* What ends the stream goes behind the targets: a bad line, or nothing at all.
LEMMA LastItem ==
  ASSUME NEW ls, IsStdin(ls), NEW n \in Nat, NEW n2, NEW q, NEW r, NEW k, NEW r2, NEW item \in Items(ls),
         Channel(ls, n, q, r), Ordered(ls, n, q, k), Works(ls, k), r.st = "reading",
         item.type = "bad",
         IsReader(r2),
         r2.st = IF q = <<>> THEN "ended" ELSE "blocked-last",
         UpTo(ls, n2) = UpTo(ls, n), UpTo(ls, n) = TargetsOf(ls),
         TargetsOf(ls) = {} \/ BadOf(ls) # {}
  PROVE  Channel(ls, n2, Append(q, item), r2) /\ Ordered(ls, n2, Append(q, item), k)
<1> DEFINE q2 == Append(q, item)
<1>1. /\ q \in Seq(Items(ls)) /\ Len(q) \in Nat /\ Len(q) <= 1 /\ (q = <<>> <=> Len(q) = 0)
      /\ \A i \in 1..Len(q) : q[i].type # "bad"
      /\ ~LastBad(q) /\ Ahead(q) = Len(q)
  BY ReadingChannel
<1>2. /\ q2 \in Seq(Items(ls)) /\ Len(q2) = Len(q) + 1 /\ q2[Len(q) + 1] = item /\ q2 # <<>>
      /\ \A i \in 1..Len(q) : q2[i] = q[i]
  BY <1>1, AppendProperties
<1> HIDE DEF q2
<1>3. LastBad(q2) /\ Ahead(q2) = Len(q)
  BY <1>1, <1>2 DEF LastBad, Ahead
<1>4. \A i \in 1..Len(q2) : q2[i].type = "bad" => i = Len(q2)
  BY <1>1, <1>2
<1>5. Channel(ls, n2, q2, r2)
  <2>1. r2.st \in {"ended", "blocked-last"}
    OBVIOUS
  <2>2. (r2.st = "ended" => Len(q2) <= 1) /\ (r2.st = "blocked-last" => Len(q2) = 2)
    BY <1>1, <1>2
  <2> QED
    BY <1>2, <1>3, <1>4, <2>1, <2>2 DEF Channel
<1>6. Ordered(ls, n2, q2, k)
  <2>1. Cardinality(UpTo(ls, n)) = Taken(k) + Len(q)
    BY <1>1 DEF Ordered
  <2>2. ASSUME NEW i \in UpTo(ls, n), PlaceOf(ls, i) > Taken(k)
        PROVE  q2[PlaceOf(ls, i) - Taken(k)] = ls[i]
    <3>1. PlaceOf(ls, i) \in Nat /\ PlaceOf(ls, i) <= Taken(k) + Len(q)
      BY <2>1, PlacesOf
    <3>2. Cardinality(UpTo(ls, n)) \in Nat
      BY TargetsFinite
    <3>3. Taken(k) \in Nat
      BY LenProperties DEF Works, Taken
    <3>4. PlaceOf(ls, i) - Taken(k) \in 1..Len(q)
      BY <1>1, <2>2, <3>1, <3>3
    <3> QED
      BY <1>2, <2>2, <3>4 DEF Ordered
  <2> QED
    BY <1>3, <2>1, <2>2 DEF Ordered
<1> QED
  BY <1>5, <1>6 DEF q2

\* The end of stdin: nothing more goes into the channel when there was a target.
LEMMA EndOfInput ==
  ASSUME NEW ls, IsStdin(ls), NEW n \in Nat, n = Len(ls), NEW q, NEW r, NEW k, NEW r2,
         Channel(ls, n, q, r), Ordered(ls, n, q, k), Works(ls, k), r.st = "reading",
         IsReader(r2)
  PROVE  /\ r.failed = FALSE
         /\ r.emitted = TRUE /\ r2.st = "ended" => Channel(ls, n, q, r2) /\ Ordered(ls, n, q, k)
         /\ r.emitted # TRUE /\ r2.st = (IF q = <<>> THEN "ended" ELSE "blocked-last")
              => /\ Channel(ls, n, Append(q, [type |-> "bad"]), r2)
                 /\ Ordered(ls, n, Append(q, [type |-> "bad"]), k)
<1>1. /\ q \in Seq(Items(ls)) /\ Len(q) \in Nat /\ Len(q) <= 1 /\ (q = <<>> <=> Len(q) = 0)
      /\ \A i \in 1..Len(q) : q[i].type # "bad"
      /\ ~LastBad(q) /\ r.failed = FALSE /\ (r.emitted = TRUE <=> UpTo(ls, n) # {})
      /\ \A i \in BadOf(ls) : i > n
  BY ReadingChannel
<1>2. UpTo(ls, n) = TargetsOf(ls)
  BY TargetsFinite DEF UpTo, TargetsOf
<1>3. BadOf(ls) = {}
  BY <1>1, TargetsFinite DEF BadOf
<1>4. ASSUME r.emitted = TRUE, r2.st = "ended"
      PROVE  Channel(ls, n, q, r2)
  BY <1>1, <1>2, <1>3, <1>4 DEF Channel
<1>5. ASSUME r.emitted # TRUE, r2.st = IF q = <<>> THEN "ended" ELSE "blocked-last"
      PROVE  /\ Channel(ls, n, Append(q, [type |-> "bad"]), r2)
             /\ Ordered(ls, n, Append(q, [type |-> "bad"]), k)
  <2> DEFINE item == [type |-> "bad"]
  <2>1. item \in Items(ls) /\ item.type = "bad"
    BY DEF Items
  <2>2. TargetsOf(ls) = {}
    BY <1>1, <1>2, <1>5
  <2> HIDE DEF item
  <2>3. Channel(ls, n, Append(q, item), r2) /\ Ordered(ls, n, Append(q, item), k)
    BY <1>2, <1>5, <2>1, <2>2, LastItem
  <2> QED
    BY <2>3 DEF item
<1> QED
  BY <1>1, <1>4, <1>5

\* A target that fails as a whole is the last that is done.
LEMMA FailedTarget ==
  ASSUME NEW ls, IsStdin(ls), NEW n \in Nat, NEW q, NEW k, NEW t \in LineSet(ls), NEW exit \in {1, 3},
         NEW done, done = Append(k.done, [target |-> t, outcome |-> "failed"]),
         Works(ls, k), Ordered(ls, n, q, k), Len(k.done) + 1 <= Cardinality(UpTo(ls, n)),
         \A i \in UpTo(ls, n) : PlaceOf(ls, i) = Len(k.done) + 1 => t = ls[i]
  PROVE  Fine(ls, done, exit)
<1> DEFINE one == [target |-> t, outcome |-> "failed"]
           m == Len(k.done)
<1>1. k.done \in Seq(DoneTargets(ls)) /\ m \in Nat
  BY LenProperties DEF Works
<1>2. one \in DoneTargets(ls) /\ one.target = t /\ one.outcome = "failed"
  BY DEF DoneTargets
<1> HIDE DEF one
<1>3. /\ done \in Seq(DoneTargets(ls)) /\ Len(done) = m + 1 /\ done[m + 1] = one
      /\ \A i \in 1..m : done[i] = k.done[i]
  <2>1. done = Append(k.done, one)
    BY DEF one
  <2> QED
    BY <1>1, <1>2, <2>1, AppendProperties
<1>4. Cardinality(UpTo(ls, n)) \in Nat /\ Cardinality(UpTo(ls, n)) <= Cardinality(TargetsOf(ls))
      /\ Cardinality(TargetsOf(ls)) \in Nat
  BY TargetsFinite
<1>5. {i \in 1..Len(done) : done[i].outcome = "failed"} = {Len(done)}
  <2>1. \A i \in 1..m : done[i].outcome # "failed"
    BY <1>3 DEF Works
  <2>2. done[Len(done)].outcome = "failed"
    BY <1>2, <1>3
  <2> QED
    BY <1>1, <1>3, <2>1, <2>2
<1>6. ASSUME NEW i \in TargetsOf(ls), PlaceOf(ls, i) <= Len(done)
      PROVE  done[PlaceOf(ls, i)].target = ls[i]
  <2>1. i \in UpTo(ls, n)
    BY <1>1, <1>3, <1>4, <1>6, PlacesOf
  <2>2. PlaceOf(ls, i) \in Nat /\ 1 <= PlaceOf(ls, i)
    BY <2>1, PlacesOf
  <2>3. CASE PlaceOf(ls, i) = m + 1
    BY <1>2, <1>3, <2>1, <2>3
  <2>4. CASE PlaceOf(ls, i) # m + 1
    <3>1. PlaceOf(ls, i) \in 1..m
      BY <1>1, <1>3, <1>6, <2>2, <2>4
    <3> QED
      BY <1>1, <1>3, <2>1, <3>1 DEF Ordered
  <2> QED
    BY <2>3, <2>4
<1>7. Len(done) <= Cardinality(TargetsOf(ls))
  BY <1>1, <1>3, <1>4
<1> DEFINE failures == {i \in 1..Len(done) : done[i].outcome = "failed"}
<1>8. failures \subseteq {Len(done)} /\ failures # {} /\ exit \notin {0, 2}
  BY <1>5
<1> HIDE DEF failures
<1>9. failures # {} <=> exit \in {1, 3}
  BY <1>8
<1> QED
  BY <1>3, <1>6, <1>7, <1>8, <1>9 DEF Fine, failures

\* The command takes a target from the channel, which goes on or fails at once.
LEMMA TakesTarget ==
  ASSUME NEW ls, IsStdin(ls), NEW n \in Nat, NEW q, NEW r, NEW k, NEW r2, NEW k2,
         Channel(ls, n, q, r), Ordered(ls, n, q, k), Works(ls, k), k.st = "next",
         q # <<>>, Head(q).type # "bad",
         IsReader(r2), r2.st = Unblocked(r.st), r2.emitted = r.emitted, r2.failed = r.failed
  PROVE  /\ Waits(k2) /\ k2.done = k.done /\ k2.exit = k.exit /\ k2.target = Head(q)
              => Channel(ls, n, Tail(q), r2) /\ Ordered(ls, n, Tail(q), k2) /\ Works(ls, k2)
         /\ k2.done = Append(k.done, [target |-> Head(q), outcome |-> "failed"])
            /\ k2.exit \in {1, 3} => Fine(ls, k2.done, k2.exit)
<1> DEFINE t == Head(q)
           q2 == Tail(q)
           m == Len(k.done)
<1>1. q \in Seq(Items(ls)) /\ Len(q) \in Nat /\ Len(q) >= 1 /\ Len(q) <= 2
      /\ (Len(q) = 1 \/ Len(q) = 2)
  <2> DEFINE l == Len(q)
  <2>1. q \in Seq(Items(ls)) /\ (Len(q) <= 1 \/ Len(q) = 2)
    BY DEF Channel
  <2>2. Len(q) \in Nat /\ Len(q) # 0
    BY <2>1, EmptySeq, LenProperties
  <2> HIDE DEF l
  <2>3. l \in Nat /\ l # 0 /\ (l <= 1 \/ l = 2)
    BY <2>1, <2>2 DEF l
  <2>4. (l = 1 \/ l = 2) /\ l >= 1 /\ l <= 2
    BY <2>3
  <2> QED
    BY <2>1, <2>3, <2>4 DEF l
<1>2. /\ q2 \in Seq(Items(ls)) /\ Len(q2) = Len(q) - 1 /\ t \in Items(ls) /\ t = q[1]
      /\ \A i \in 1..Len(q2) : q2[i] = q[i + 1]
  BY <1>1, HeadTailProperties
<1>3. t \in LineSet(ls)
  BY <1>2 DEF Items
<1>4. m \in Nat /\ Taken(k) = m
  BY LenProperties DEF Works, Taken, Waits
<1> HIDE DEF q2, t
<1>5. (q2 = <<>> <=> Len(q2) = 0) /\ Len(q2) \in Nat
  BY <1>2, EmptySeq, LenProperties
<1>6. (LastBad(q) <=> LastBad(q2)) /\ Ahead(q2) = Ahead(q) - 1 /\ Ahead(q) >= 1 /\ Ahead(q) \in Nat
  <2>1. CASE Len(q) = 1
    <3>1. ~LastBad(q)
      BY <1>2, <2>1 DEF LastBad, t
    <3>2. ~LastBad(q2)
      BY <1>2, <1>5, <2>1 DEF LastBad
    <3> QED
      BY <1>2, <2>1, <3>1, <3>2 DEF Ahead
  <2>2. CASE Len(q) = 2
    <3>1. Len(q2) = 1 /\ q2[1] = q[2] /\ q2 # <<>>
      BY <1>2, <1>5, <2>2
    <3>2. LastBad(q) <=> LastBad(q2)
      BY <2>2, <3>1 DEF LastBad
    <3> QED
      BY <1>2, <2>2, <3>2 DEF Ahead
  <2> QED
    BY <1>1, <2>1, <2>2
<1>7. Cardinality(UpTo(ls, n)) = m + Ahead(q)
  BY <1>4 DEF Ordered
<1>8. \A i \in UpTo(ls, n) : PlaceOf(ls, i) = m + 1 => t = ls[i]
  <2>1. ASSUME NEW i \in UpTo(ls, n), PlaceOf(ls, i) = m + 1
        PROVE  t = ls[i]
    <3>1. q[PlaceOf(ls, i) - m] = ls[i] /\ PlaceOf(ls, i) - m = 1
      BY <1>4, <2>1 DEF Ordered
    <3> QED
      BY <1>2, <3>1
  <2> QED
    BY <2>1
<1>9. ASSUME k2.done = Append(k.done, [target |-> t, outcome |-> "failed"]), k2.exit \in {1, 3}
      PROVE  Fine(ls, k2.done, k2.exit)
  <2>1. m + 1 <= Cardinality(UpTo(ls, n))
    BY <1>4, <1>6, <1>7
  <2> QED
    BY <1>3, <1>8, <1>9, <2>1, FailedTarget
<1>10. Channel(ls, n, q2, r2)
  <2>1. r2.st = Unblocked(r.st) /\ r2.emitted = r.emitted /\ r2.failed = r.failed
    OBVIOUS
  <2>2. CASE r.st \in {"reading", "ended"}
    <3>1. r2.st = r.st /\ Len(q2) <= 1
      BY <1>1, <1>2, <2>1, <2>2 DEF Unblocked
    <3>2. \A i \in 1..Len(q2) : q2[i].type = "bad" => i = Len(q2) /\ r.st = "ended"
      BY <1>1, <1>2, <2>2 DEF Channel
    <3> QED
      BY <1>2, <1>6, <2>1, <2>2, <3>1, <3>2 DEF Channel
  <2>3. CASE r.st = "blocked"
    <3>1. r2.st = "reading" /\ Len(q2) <= 1
      BY <1>1, <1>2, <2>1, <2>3 DEF Unblocked
    <3>2. \A i \in 1..Len(q2) : q2[i].type # "bad"
      BY <1>1, <1>2, <2>3 DEF Channel
    <3> QED
      BY <1>2, <1>6, <2>1, <2>3, <3>1, <3>2 DEF Channel
  <2>4. CASE r.st = "blocked-last"
    <3>1. r2.st = "ended" /\ Len(q2) <= 1
      BY <1>1, <1>2, <2>1, <2>4 DEF Unblocked
    <3>2. \A i \in 1..Len(q2) : q2[i].type = "bad" => i = Len(q2)
      BY <1>1, <1>2, <2>4 DEF Channel
    <3> QED
      BY <1>2, <1>6, <2>1, <2>4, <3>1, <3>2 DEF Channel
  <2> QED
    BY <2>2, <2>3, <2>4 DEF Channel
<1>11. ASSUME Waits(k2), k2.done = k.done, k2.exit = k.exit, k2.target = t
       PROVE  Ordered(ls, n, q2, k2) /\ Works(ls, k2)
  <2>1. Works(ls, k2)
    BY <1>3, <1>11 DEF Works
  <2>2. Taken(k2) = m + 1 /\ Len(k2.done) = m
    BY <1>11 DEF Taken
  <2>3. Cardinality(UpTo(ls, n)) = Taken(k2) + Ahead(q2)
    BY <1>4, <1>6, <1>7, <2>2
  <2>4. ASSUME NEW i \in UpTo(ls, n)
        PROVE  /\ PlaceOf(ls, i) <= m => k.done[PlaceOf(ls, i)].target = ls[i]
               /\ PlaceOf(ls, i) = m + 1 => t = ls[i]
               /\ PlaceOf(ls, i) > m + 1 => q2[PlaceOf(ls, i) - (m + 1)] = ls[i]
    <3>1. PlaceOf(ls, i) \in Nat /\ PlaceOf(ls, i) <= m + Ahead(q)
      BY <1>7, PlacesOf
    <3>2. Ahead(q) <= Len(q)
      BY <1>1 DEF Ahead
    <3>3. ASSUME PlaceOf(ls, i) > m + 1
          PROVE  q2[PlaceOf(ls, i) - (m + 1)] = ls[i]
      <4>1. q[PlaceOf(ls, i) - m] = ls[i]
        BY <1>4, <3>1, <3>3 DEF Ordered
      <4> DEFINE j == PlaceOf(ls, i) - (m + 1)
      <4>2. j \in 1..Len(q2) /\ j + 1 = PlaceOf(ls, i) - m
        BY <1>1, <1>2, <1>4, <1>6, <3>1, <3>2, <3>3
      <4> HIDE DEF j
      <4>3. q2[j] = q[j + 1]
        BY <1>2, <4>2
      <4> QED
        BY <4>1, <4>2, <4>3 DEF j
    <3> QED
      BY <1>8, <3>3 DEF Ordered
  <2> QED
    BY <1>11, <2>1, <2>2, <2>3, <2>4 DEF Ordered
<1> QED
  BY <1>9, <1>10, <1>11 DEF q2, t

\* The command takes what ends the stream.
LEMMA TakesEnd ==
  ASSUME TargetsAssumption, NEW ls, IsStdin(ls), NEW n \in Nat, NEW q, NEW r, NEW k,
         Channel(ls, n, q, r), Ordered(ls, n, q, k), Works(ls, k), k.st = "next"
  PROVE  /\ q # <<>> /\ Head(q).type = "bad" => Fine(ls, k.done, 2)
         /\ q = <<>> /\ r.st = "ended" => Fine(ls, k.done, 0)
<1>1. q \in Seq(Items(ls)) /\ Len(q) \in Nat /\ (q = <<>> <=> Len(q) = 0)
  <2>1. q \in Seq(Items(ls))
    BY DEF Channel
  <2> QED
    BY <2>1, EmptySeq
<1>2. Taken(k) = Len(k.done) /\ Len(k.done) \in Nat
  BY LenProperties DEF Works, Taken, Waits
<1>3. Fine(ls, k.done, k.exit)
  BY <1>1, WorksIsFine
<1>4. {i \in 1..Len(k.done) : k.done[i].outcome = "failed"} = {}
  BY DEF Works
<1>5. ASSUME q # <<>>, Head(q).type = "bad"
      PROVE  Fine(ls, k.done, 2)
  <2>1. Head(q) = q[1] /\ 1 \in 1..Len(q)
    BY <1>1, <1>5
  <2>2. Len(q) = 1 /\ r.st \in {"ended", "blocked-last"}
    BY <1>5, <2>1 DEF Channel
  <2>3. LastBad(q) /\ Ahead(q) = 0
    BY <1>5, <2>1, <2>2 DEF LastBad, Ahead
  <2>4. Len(k.done) = Cardinality(TargetsOf(ls)) /\ (TargetsOf(ls) = {} \/ BadOf(ls) # {})
    BY <1>2, <2>2, <2>3 DEF Channel, Ordered
  <2> QED
    BY <1>3, <1>4, <2>4 DEF Fine
<1>6. ASSUME q = <<>>, r.st = "ended"
      PROVE  Fine(ls, k.done, 0)
  <2>1. ~LastBad(q) /\ Ahead(q) = 0
    BY <1>1, <1>6 DEF LastBad, Ahead
  <2>2. Len(k.done) = Cardinality(TargetsOf(ls)) /\ TargetsOf(ls) # {} /\ BadOf(ls) = {}
    BY <1>2, <1>6, <2>1 DEF Channel, Ordered
  <2> QED
    BY <1>3, <1>4, <2>2 DEF Fine
<1> QED
  BY <1>5, <1>6

\* The call of the command answers: it goes on, or it fails.
LEMMA CallAnswered ==
  ASSUME NEW ls, IsStdin(ls), NEW n \in Nat, NEW q \in Seq(Items(ls)), NEW k, NEW k2,
         Ordered(ls, n, q, k), Works(ls, k), Waits(k)
  PROVE  /\ k2.st = "next" /\ k2.exit = k.exit
            /\ (\E o \in {"whole", "partial"} :
                  k2.done = Append(k.done, [target |-> k.target, outcome |-> o]))
              => Ordered(ls, n, q, k2) /\ Works(ls, k2)
         /\ k2.done = Append(k.done, [target |-> k.target, outcome |-> "failed"])
            /\ k2.exit \in {1, 3} => Fine(ls, k2.done, k2.exit)
<1> DEFINE m == Len(k.done)
<1>1. k.done \in Seq(DoneTargets(ls)) /\ m \in Nat /\ k.target \in LineSet(ls) /\ Taken(k) = m + 1
  BY LenProperties DEF Works, Taken
<1>2. Ahead(q) \in Int /\ Ahead(q) >= 0
  <2>1. Len(q) \in Nat /\ (q # <<>> => Len(q) # 0)
    BY EmptySeq, LenProperties
  <2> QED
    BY <2>1 DEF Ahead, LastBad
<1>3. \A i \in UpTo(ls, n) : PlaceOf(ls, i) = m + 1 => k.target = ls[i]
  BY DEF Ordered
<1>4. Cardinality(UpTo(ls, n)) = m + 1 + Ahead(q)
  BY <1>1 DEF Ordered
<1>5. ASSUME k2.done = Append(k.done, [target |-> k.target, outcome |-> "failed"]), k2.exit \in {1, 3}
      PROVE  Fine(ls, k2.done, k2.exit)
  <2>1. m + 1 <= Cardinality(UpTo(ls, n))
    BY <1>1, <1>2, <1>4
  <2> QED
    BY <1>1, <1>3, <1>5, <2>1, FailedTarget
<1>6. ASSUME k2.st = "next", k2.exit = k.exit, NEW o \in {"whole", "partial"},
             k2.done = Append(k.done, [target |-> k.target, outcome |-> o])
      PROVE  Ordered(ls, n, q, k2) /\ Works(ls, k2)
  <2> DEFINE one == [target |-> k.target, outcome |-> o]
             done == k2.done
  <2>1. one \in DoneTargets(ls) /\ one.target = k.target /\ one.outcome # "failed"
    BY <1>1 DEF DoneTargets
  <2>2. done = Append(k.done, one)
    BY <1>6
  <2> HIDE DEF one, done
  <2>3. /\ done \in Seq(DoneTargets(ls)) /\ Len(done) = m + 1 /\ done[m + 1] = one
        /\ \A i \in 1..m : done[i] = k.done[i]
    BY <1>1, <2>1, <2>2, AppendProperties
  <2>4. \A i \in 1..Len(done) : done[i].outcome # "failed"
    BY <1>1, <2>1, <2>3 DEF Works
  <2>5. Taken(k2) = m + 1 /\ ~Waits(k2)
    BY <1>6, <2>3 DEF Taken, Waits, done
  <2>6. Works(ls, k2)
    BY <1>6, <2>3, <2>4, <2>5 DEF Works, done
  <2>7. ASSUME NEW i \in UpTo(ls, n)
        PROVE  /\ PlaceOf(ls, i) <= m + 1 => done[PlaceOf(ls, i)].target = ls[i]
               /\ PlaceOf(ls, i) > m + 1 => q[PlaceOf(ls, i) - (m + 1)] = ls[i]
    <3>1. PlaceOf(ls, i) \in Nat /\ 1 <= PlaceOf(ls, i)
      BY PlacesOf
    <3>2. CASE PlaceOf(ls, i) = m + 1
      BY <1>1, <1>3, <2>1, <2>3, <3>2
    <3>3. CASE PlaceOf(ls, i) <= m
      <4>1. PlaceOf(ls, i) \in 1..m
        BY <1>1, <3>1, <3>3
      <4>2. k.done[PlaceOf(ls, i)].target = ls[i]
        BY <3>3 DEF Ordered
      <4> QED
        BY <1>1, <2>3, <3>1, <3>3, <4>1, <4>2
    <3>4. CASE PlaceOf(ls, i) > m + 1
      BY <1>1, <3>1, <3>4 DEF Ordered
    <3> QED
      BY <1>1, <3>1, <3>2, <3>3, <3>4
  <2> QED
    BY <1>1, <1>4, <2>3, <2>5, <2>6, <2>7 DEF Ordered, done
<1> QED
  BY <1>5, <1>6

-----------------------------------------------------------------------------
\* The commands and their meters.

Ops == {"fetch", "follow"}

Meter == [requests : Nat, successes : Nat, failures : Nat, rate_limits : Nat, cancelled : Nat]

Meters == [DOMAIN Registered -> [Ops -> Meter]]

\* The fields of a command.
Shaped(k) ==
  k = [st |-> k.st, op |-> k.op, from |-> k.from, strict |-> k.strict, target |-> k.target,
       saw |-> k.saw, events |-> k.events, done |-> k.done, exit |-> k.exit]

\* The call a command waits for.
Busy(k, s, op) == k.st \in {"calling", "streaming"} /\ k.op = op /\ k.target.source = s

\* A command that waits for a call waits for one of a registered source, of its own
\* operation.
Sensible(k) ==
  /\ Shaped(k)
  /\ k.st \in {"next", "calling", "streaming"} => k.op \in Ops
  /\ k.st = "calling" => k.op = "fetch" /\ k.target.source \in DOMAIN Registered
  /\ k.st = "streaming" => k.op = "follow" /\ k.target.source \in DOMAIN Registered

Waiting(cs, s, op) == {d \in Clients : Busy(cs[d], s, op)}

Pending(cs, s, op) == Cardinality(Waiting(cs, s, op))

\* The balance of a meter while n calls wait.
Balanced(m, n) ==
  /\ m.requests = m.successes + m.failures + m.cancelled + n
  /\ m.rate_limits <= m.failures

MetersInv ==
  /\ cmd = [c \in Clients |-> cmd[c]]
  /\ \A c \in Clients : Sensible(cmd[c])
  /\ meters \in Meters
  /\ MetersBalance

\* How much the fields of a meter y are above those of x.
Above(x, y, requests, successes, failures, rate_limits, cancelled) ==
  /\ y.requests = x.requests + requests
  /\ y.successes = x.successes + successes
  /\ y.failures = x.failures + failures
  /\ y.rate_limits = x.rate_limits + rate_limits
  /\ y.cancelled = x.cancelled + cancelled

AddedTo(x, y, field) ==
  CASE field = "requests" -> Above(x, y, 1, 0, 0, 0, 0)
    [] field = "successes" -> Above(x, y, 0, 1, 0, 0, 0)
    [] field = "failures" -> Above(x, y, 0, 0, 1, 0, 0)
    [] field = "rate_limits" -> Above(x, y, 0, 0, 0, 1, 0)
    [] field = "cancelled" -> Above(x, y, 0, 0, 0, 0, 1)

Fields == {"requests", "successes", "failures", "rate_limits", "cancelled"}

\* Counting in a meter adds one to a field of it and to nothing else.
LEMMA CountingOne ==
  ASSUME NEW x \in Meter, NEW field \in Fields
  PROVE  /\ [x EXCEPT ![field] = @ + 1] \in Meter
         /\ AddedTo(x, [x EXCEPT ![field] = @ + 1], field)
<1>1. CASE field = "requests"
  BY <1>1 DEF Meter, AddedTo, Above
<1>2. CASE field = "successes"
  BY <1>2 DEF Meter, AddedTo, Above
<1>3. CASE field = "failures"
  BY <1>3 DEF Meter, AddedTo, Above
<1>4. CASE field = "rate_limits"
  BY <1>4 DEF Meter, AddedTo, Above
<1>5. CASE field = "cancelled"
  BY <1>5 DEF Meter, AddedTo, Above
<1> QED
  BY <1>1, <1>2, <1>3, <1>4, <1>5 DEF Fields

Natural(m) ==
  /\ m.requests \in Nat /\ m.successes \in Nat /\ m.failures \in Nat
  /\ m.rate_limits \in Nat /\ m.cancelled \in Nat

\* What happens to a meter as a call starts, ends or fails at once keeps the balance.
LEMMA CallKeepsBalance ==
  ASSUME NEW m, NEW m2, NEW n, NEW n2, Natural(m), n \in Nat, Balanced(m, n),
         \/ n2 = n + 1 /\ Above(m, m2, 1, 0, 0, 0, 0)
         \/ n2 = n /\ Above(m, m2, 1, 0, 1, 0, 0)
         \/ n2 = n - 1 /\ Above(m, m2, 0, 1, 0, 0, 0)
         \/ n2 = n - 1 /\ Above(m, m2, 0, 0, 1, 0, 0)
         \/ n2 = n - 1 /\ Above(m, m2, 0, 0, 0, 0, 1)
         \/ n2 = n - 1 /\ Above(m, m2, 0, 0, 1, 1, 0)
  PROVE  Balanced(m2, n2)
<1>1. CASE n2 = n + 1 /\ Above(m, m2, 1, 0, 0, 0, 0)
  BY <1>1 DEF Natural, Above, Balanced
<1>2. CASE n2 = n /\ Above(m, m2, 1, 0, 1, 0, 0)
  BY <1>2 DEF Natural, Above, Balanced
<1>3. CASE n2 = n - 1 /\ Above(m, m2, 0, 1, 0, 0, 0)
  BY <1>3 DEF Natural, Above, Balanced
<1>4. CASE n2 = n - 1 /\ Above(m, m2, 0, 0, 1, 0, 0)
  BY <1>4 DEF Natural, Above, Balanced
<1>5. CASE n2 = n - 1 /\ Above(m, m2, 0, 0, 0, 0, 1)
  BY <1>5 DEF Natural, Above, Balanced
<1>6. CASE n2 = n - 1 /\ Above(m, m2, 0, 0, 1, 1, 0)
  <2>1. m2.requests = m.requests /\ m2.successes = m.successes /\ m2.cancelled = m.cancelled
    BY <1>6 DEF Natural, Above
  <2>2. m2.failures = m.failures + 1 /\ m2.rate_limits = m.rate_limits + 1
    BY <1>6 DEF Natural, Above
  <2>3. m2.requests = m2.successes + m2.failures + m2.cancelled + n2
    BY <1>6, <2>1, <2>2 DEF Natural, Balanced
  <2>4. m2.rate_limits <= m2.failures
    BY <2>2 DEF Natural, Balanced
  <2> QED
    BY <2>3, <2>4 DEF Balanced
<1> QED
  BY <1>1, <1>2, <1>3, <1>4, <1>5, <1>6

\* The failure of a call that starts, and one of a rate limit, are two increments.
LEMMA TwoIncrements ==
  ASSUME NEW m, NEW x, NEW m2, Natural(m), Natural(x)
  PROVE  /\ Above(m, x, 1, 0, 0, 0, 0) /\ Above(x, m2, 0, 0, 1, 0, 0)
              => Above(m, m2, 1, 0, 1, 0, 0)
         /\ Above(m, x, 0, 0, 1, 0, 0) /\ Above(x, m2, 0, 0, 0, 1, 0)
              => Above(m, m2, 0, 0, 1, 1, 0)
<1>1. ASSUME Above(m, x, 1, 0, 0, 0, 0), Above(x, m2, 0, 0, 1, 0, 0)
      PROVE  Above(m, m2, 1, 0, 1, 0, 0)
  <2>1. m2.requests = m.requests + 1
    BY <1>1 DEF Natural, Above
  <2>2. m2.successes = m.successes + 0
    BY <1>1 DEF Natural, Above
  <2>3. m2.failures = m.failures + 1
    BY <1>1 DEF Natural, Above
  <2>4. m2.rate_limits = m.rate_limits + 0
    BY <1>1 DEF Natural, Above
  <2>5. m2.cancelled = m.cancelled + 0
    BY <1>1 DEF Natural, Above
  <2> QED
    BY <2>1, <2>2, <2>3, <2>4, <2>5 DEF Above
<1>2. ASSUME Above(m, x, 0, 0, 1, 0, 0), Above(x, m2, 0, 0, 0, 1, 0)
      PROVE  Above(m, m2, 0, 0, 1, 1, 0)
  <2>1. m2.requests = m.requests + 0
    BY <1>2 DEF Natural, Above
  <2>2. m2.successes = m.successes + 0
    BY <1>2 DEF Natural, Above
  <2>3. m2.failures = m.failures + 1
    BY <1>2 DEF Natural, Above
  <2>4. m2.rate_limits = m.rate_limits + 1
    BY <1>2 DEF Natural, Above
  <2>5. m2.cancelled = m.cancelled + 0
    BY <1>2 DEF Natural, Above
  <2> QED
    BY <2>1, <2>2, <2>3, <2>4, <2>5 DEF Above
<1> QED
  BY <1>1, <1>2

\* One count raises one field of one counter by one.
LEMMA Counting ==
  ASSUME NEW m \in Meters, NEW s \in DOMAIN Registered, NEW op \in Ops, NEW field \in Fields
  PROVE  /\ Count(m, s, op, field) \in Meters
         /\ AddedTo(m[s][op], Count(m, s, op, field)[s][op], field)
         /\ \A s2 \in DOMAIN Registered, op2 \in Ops :
              (s2 # s \/ op2 # op) => Count(m, s, op, field)[s2][op2] = m[s2][op2]
<1>1. m[s] \in [Ops -> Meter] /\ m[s][op] \in Meter
  BY DEF Meters
<1> DEFINE x == m[s][op]
           one == [x EXCEPT ![field] = @ + 1]
<1>2. one \in Meter /\ AddedTo(x, one, field)
  <2> HIDE DEF x
  <2> QED
    BY <1>1, CountingOne DEF x
<1> DEFINE ops == [m[s] EXCEPT ![op] = one]
<1>3. ops \in [Ops -> Meter] /\ ops[op] = one /\ \A op2 \in Ops \ {op} : ops[op2] = m[s][op2]
  BY <1>1, <1>2
<1>4. Count(m, s, op, field) = [m EXCEPT ![s] = ops]
  BY DEF Count
<1> HIDE DEF ops, one
<1>5. /\ [m EXCEPT ![s] = ops] \in Meters /\ [m EXCEPT ![s] = ops][s] = ops
      /\ \A s2 \in DOMAIN Registered \ {s} : [m EXCEPT ![s] = ops][s2] = m[s2]
  BY <1>3 DEF Meters
<1> QED
  BY <1>2, <1>3, <1>4, <1>5

\* How the number of the calls in flight follows one command that becomes k.
Follows(c, k, s, op) ==
  /\ Pending(cmd, s, op) \in Nat
  /\ (Busy(k, s, op) <=> Busy(cmd[c], s, op)) => Pending(cmd', s, op) = Pending(cmd, s, op)
  /\ ~Busy(cmd[c], s, op) /\ Busy(k, s, op) => Pending(cmd', s, op) = Pending(cmd, s, op) + 1
  /\ Busy(cmd[c], s, op) /\ ~Busy(k, s, op) => Pending(cmd', s, op) = Pending(cmd, s, op) - 1

\* One command moves: the commands that wait for a call change by it alone.
LEMMA LiveChanges ==
  ASSUME TargetsAssumption, cmd = [d \in Clients |-> cmd[d]],
         NEW c \in Clients, NEW k, cmd' = [cmd EXCEPT ![c] = k],
         NEW s \in DOMAIN Registered, NEW op \in Ops
  PROVE  Follows(c, k, s, op)
<1> DEFINE L == Waiting(cmd, s, op)
           M == Waiting(cmd', s, op)
<1>3. IsFiniteSet(L)
  <2>1. L \subseteq Clients
    BY DEF Waiting
  <2> QED
    BY <2>1, FS_Subset DEF TargetsAssumption
<1>4. cmd'[c] = k /\ \A d \in Clients \ {c} : cmd'[d] = cmd[d]
  OBVIOUS
<1>5. (Busy(k, s, op) <=> Busy(cmd[c], s, op)) => M = L
  BY <1>4 DEF Waiting
<1>6. ~Busy(cmd[c], s, op) /\ Busy(k, s, op) => c \notin L /\ M = L \cup {c}
  BY <1>4 DEF Waiting
<1>7. Busy(cmd[c], s, op) /\ ~Busy(k, s, op) => c \in L /\ M = L \ {c}
  BY <1>4 DEF Waiting
<1> HIDE DEF L, M
<1>8. Cardinality(L) \in Nat
  BY <1>3, FS_CardinalityType
<1>9. c \notin L => Cardinality(L \cup {c}) = Cardinality(L) + 1
  BY <1>3, FS_AddElement
<1>10. c \in L => Cardinality(L \ {c}) = Cardinality(L) - 1
  BY <1>3, FS_RemoveElement
<1> QED
  BY <1>5, <1>6, <1>7, <1>8, <1>9, <1>10 DEF L, M, Pending, Follows

\* What a command and the meters do in one step, k being the command and m the meters
\* after it: no call starts or ends, one starts, one starts and fails, or one ends.
NoCall(c, k, m) ==
  m = meters /\ \A s \in DOMAIN Registered, op \in Ops : Busy(k, s, op) <=> Busy(cmd[c], s, op)

CallStarts(c, k, m, s, op) ==
  /\ m = Count(meters, s, op, "requests")
  /\ \A s2 \in DOMAIN Registered, op2 \in Ops : ~Busy(cmd[c], s2, op2) /\ (Busy(k, s2, op2) <=> s2 = s /\ op2 = op)

CallFails(c, k, m, s, op) ==
  /\ m = Count(Count(meters, s, op, "requests"), s, op, "failures")
  /\ \A s2 \in DOMAIN Registered, op2 \in Ops : ~Busy(cmd[c], s2, op2) /\ ~Busy(k, s2, op2)

CallEnds(c, k, m, s, op) ==
  /\ \/ \E f \in {"successes", "failures", "cancelled"} : m = Count(meters, s, op, f)
     \/ m = Count(Count(meters, s, op, "failures"), s, op, "rate_limits")
  /\ \A s2 \in DOMAIN Registered, op2 \in Ops : ~Busy(k, s2, op2) /\ (Busy(cmd[c], s2, op2) <=> s2 = s /\ op2 = op)

Fits(c, k, m) ==
  \/ NoCall(c, k, m)
  \/ \E s \in DOMAIN Registered, op \in Ops :
       CallStarts(c, k, m, s, op) \/ CallFails(c, k, m, s, op) \/ CallEnds(c, k, m, s, op)

\* Each of these keeps the balance.
LEMMA FitsKeeps ==
  ASSUME TargetsAssumption, MetersInv, NEW c \in Clients, NEW k, Sensible(k),
         cmd' = [cmd EXCEPT ![c] = k], Fits(c, k, meters')
  PROVE  MetersInv'
<1>0. cmd = [d \in Clients |-> cmd[d]] /\ meters \in Meters /\ \A d \in Clients : Sensible(cmd[d])
  BY DEF MetersInv
<1>1. cmd' = [d \in Clients |-> cmd'[d]] /\ \A d \in Clients : Sensible(cmd'[d])
  BY <1>0
<1>2. \A s \in DOMAIN Registered, op \in Ops : Follows(c, k, s, op)
  <2>1. cmd = [d \in Clients |-> cmd[d]]
    BY <1>0
  <2> QED
    BY <2>1, LiveChanges
<1>3. \A s \in DOMAIN Registered, op \in Ops :
        meters[s][op] \in Meter /\ Balanced(meters[s][op], Pending(cmd, s, op))
  <2>1. \A s, op : Live(s, op) = Waiting(cmd, s, op)
    BY DEF Live, Waiting, Busy
  <2> QED
    BY <2>1 DEF MetersInv, MetersBalance, Ops, Meters, Balanced, Pending
<1>4. SUFFICES meters' \in Meters
               /\ \A s \in DOMAIN Registered, op \in Ops : Balanced(meters'[s][op], Pending(cmd', s, op))
  <2>1. \A s, op : Live(s, op)' = Waiting(cmd', s, op)
    BY DEF Live, Waiting, Busy
  <2>2. MetersBalance'
    BY <1>4, <2>1 DEF MetersBalance, Ops, Balanced, Pending
  <2> QED
    BY <1>1, <1>4, <2>2 DEF MetersInv
<1>5. CASE NoCall(c, k, meters')
  <2>1. meters' = meters
    BY <1>5 DEF NoCall
  <2>2. \A s \in DOMAIN Registered, op \in Ops : Busy(k, s, op) <=> Busy(cmd[c], s, op)
    BY <1>5 DEF NoCall
  <2>3. \A s \in DOMAIN Registered, op \in Ops : Pending(cmd', s, op) = Pending(cmd, s, op)
    BY <1>2, <2>2 DEF Follows
  <2>4. ASSUME NEW s \in DOMAIN Registered, NEW op \in Ops
        PROVE  Balanced(meters'[s][op], Pending(cmd', s, op))
    <3>1. Balanced(meters[s][op], Pending(cmd, s, op))
      BY <1>3
    <3> QED
      BY <3>1, <2>1, <2>3
  <2> QED
    BY <1>0, <2>1, <2>4
<1>6. ASSUME NEW s \in DOMAIN Registered, NEW op \in Ops,
             CallStarts(c, k, meters', s, op) \/ CallFails(c, k, meters', s, op)
               \/ CallEnds(c, k, meters', s, op)
      PROVE  meters' \in Meters
             /\ \A s2 \in DOMAIN Registered, op2 \in Ops :
                  Balanced(meters'[s2][op2], Pending(cmd', s2, op2))
  <2> DEFINE n == Pending(cmd, s, op)
             n2 == Pending(cmd', s, op)
             m == meters[s][op]
             m2 == meters'[s][op]
             rest(w) == \A s2 \in DOMAIN Registered, op2 \in Ops :
                          (s2 # s \/ op2 # op) => w[s2][op2] = meters[s2][op2]
  <2>1. n \in Nat /\ m \in Meter /\ Balanced(m, n)
    BY <1>2, <1>3 DEF Follows
  <2>2. \A s2 \in DOMAIN Registered, op2 \in Ops :
          (s2 # s \/ op2 # op) => Pending(cmd', s2, op2) = Pending(cmd, s2, op2)
    BY <1>2, <1>6 DEF Follows, CallStarts, CallFails, CallEnds
  <2>3. SUFFICES meters' \in Meters /\ Balanced(m2, n2) /\ rest(meters')
    <3>1. ASSUME NEW s2 \in DOMAIN Registered, NEW op2 \in Ops
          PROVE  Balanced(meters'[s2][op2], Pending(cmd', s2, op2))
      BY <1>3, <2>2, <2>3
    <3> QED
      BY <2>3, <3>1
  <2>4. \A field \in Fields : meters' = Count(meters, s, op, field)
          => meters' \in Meters /\ AddedTo(m, m2, field) /\ rest(meters')
    BY <1>0, Counting
  <2>5. ASSUME NEW first \in Fields, NEW second \in Fields,
               meters' = Count(Count(meters, s, op, first), s, op, second)
        PROVE  /\ meters' \in Meters /\ rest(meters')
               /\ \E x \in Meter : AddedTo(m, x, first) /\ AddedTo(x, m2, second)
    <3> DEFINE w == Count(meters, s, op, first)
    <3>1. w \in Meters /\ AddedTo(m, w[s][op], first) /\ rest(w)
      BY <1>0, Counting
    <3>2. meters' = Count(w, s, op, second)
      BY <2>5
    <3> HIDE DEF w
    <3>3. meters' \in Meters /\ AddedTo(w[s][op], m2, second)
          /\ \A s2 \in DOMAIN Registered, op2 \in Ops :
               (s2 # s \/ op2 # op) => meters'[s2][op2] = w[s2][op2]
      BY <3>1, <3>2, Counting
    <3>4. w[s][op] \in Meter
      BY <3>1 DEF Meters
    <3> QED
      BY <3>1, <3>3, <3>4
  <2>7. Natural(m)
    BY <2>1 DEF Meter, Natural
  <2>12. \A x \in Meter : Natural(x)
    BY DEF Meter, Natural
  <2> HIDE DEF n, n2, m, m2
  <2>8. CASE CallStarts(c, k, meters', s, op)
    <3>1. n2 = n + 1
      BY <1>2, <2>8 DEF Follows, CallStarts, n, n2
    <3>2. meters' \in Meters /\ AddedTo(m, m2, "requests") /\ rest(meters')
      BY <2>4, <2>8 DEF CallStarts, Fields
    <3>3. Above(m, m2, 1, 0, 0, 0, 0)
      BY <3>2 DEF AddedTo
    <3>4. Balanced(m2, n2)
      BY <2>1, <2>7, <3>1, <3>3, <2>12, TwoIncrements, CallKeepsBalance
    <3> QED
      BY <3>2, <3>4
  <2>9. CASE CallFails(c, k, meters', s, op)
    <3>1. n2 = n
      BY <1>2, <2>9 DEF Follows, CallFails, n, n2
    <3>2. meters' \in Meters /\ rest(meters')
          /\ \E x \in Meter : AddedTo(m, x, "requests") /\ AddedTo(x, m2, "failures")
      BY <2>5, <2>9 DEF CallFails, Fields
    <3>3. PICK x \in Meter : Above(m, x, 1, 0, 0, 0, 0) /\ Above(x, m2, 0, 0, 1, 0, 0)
      BY <3>2 DEF AddedTo
    <3>4. Balanced(m2, n2)
      BY <2>1, <2>7, <3>1, <3>3, <2>12, TwoIncrements, CallKeepsBalance
    <3> QED
      BY <3>2, <3>4
  <2>10. CASE CallEnds(c, k, meters', s, op)
    <3>1. n2 = n - 1
      BY <1>2, <2>10 DEF Follows, CallEnds, n, n2
    <3>2. CASE \E f \in {"successes", "failures", "cancelled"} : meters' = Count(meters, s, op, f)
      <4>1. PICK f \in {"successes", "failures", "cancelled"} : meters' = Count(meters, s, op, f)
        BY <3>2
      <4>2. meters' \in Meters /\ AddedTo(m, m2, f) /\ rest(meters')
        BY <2>4, <4>1 DEF Fields
      <4>3. \/ Above(m, m2, 0, 1, 0, 0, 0) \/ Above(m, m2, 0, 0, 1, 0, 0)
            \/ Above(m, m2, 0, 0, 0, 0, 1)
        BY <4>1, <4>2 DEF AddedTo
      <4>4. Balanced(m2, n2)
        BY <2>1, <2>7, <3>1, <4>3, CallKeepsBalance
      <4> QED
        BY <4>2, <4>4
    <3>3. CASE meters' = Count(Count(meters, s, op, "failures"), s, op, "rate_limits")
      <4>1. meters' \in Meters /\ rest(meters')
            /\ \E x \in Meter : AddedTo(m, x, "failures") /\ AddedTo(x, m2, "rate_limits")
        BY <2>5, <3>3 DEF Fields
      <4>2. PICK x \in Meter : Above(m, x, 0, 0, 1, 0, 0) /\ Above(x, m2, 0, 0, 0, 1, 0)
        BY <4>1 DEF AddedTo
      <4>3. Balanced(m2, n2)
        BY <2>1, <2>7, <3>1, <4>2, <2>12, TwoIncrements, CallKeepsBalance
      <4> QED
        BY <4>1, <4>3
    <3> QED
      BY <2>10, <3>2, <3>3 DEF CallEnds
  <2> QED
    BY <1>6, <2>8, <2>9, <2>10
<1> QED
  BY <1>5, <1>6 DEF Fits

Made(st, op, from, strict, target, saw, events, done, exit) ==
  [st |-> st, op |-> op, from |-> from, strict |-> strict, target |-> target, saw |-> saw,
   events |-> events, done |-> done, exit |-> exit]

\* Exits sets the state and the exit code.
LEMMA ExitParts ==
  ASSUME NEW k, Shaped(k), NEW v
  PROVE  /\ Shaped(Exits(k, v)) /\ Exits(k, v).st = "ended" /\ Exits(k, v).exit = v
         /\ Exits(k, v).op = k.op /\ Exits(k, v).from = k.from /\ Exits(k, v).done = k.done
<1> DEFINE o == k.op
           f == k.from
           r == k.strict
           t == k.target
           w == k.saw
           e == k.events
           d == k.done
           k1 == [k EXCEPT !.st = "ended"]
<1>1. k = Made(k.st, o, f, r, t, w, e, d, k.exit)
  BY DEF Shaped, Made
<1>2. Exits(k, v) = [k1 EXCEPT !.exit = v]
  BY DEF Exits
<1> HIDE DEF o, f, r, t, w, e, d
<1>3. k1 = Made("ended", o, f, r, t, w, e, d, k.exit)
  BY <1>1 DEF Made
<1> HIDE DEF k1
<1>4. Exits(k, v) = Made("ended", o, f, r, t, w, e, d, v)
  BY <1>2, <1>3 DEF Made
<1> QED
  BY <1>1, <1>4 DEF Made, Shaped

\* Does appends to what is done and forgets the target.
LEMMA DoesParts ==
  ASSUME NEW k, Shaped(k), NEW v
  PROVE  /\ Shaped(Does(k, v)) /\ Does(k, v).st = k.st /\ Does(k, v).op = k.op
         /\ Does(k, v).done = Append(k.done, [target |-> k.target, outcome |-> v])
         /\ Does(k, v).from = k.from /\ Does(k, v).exit = k.exit
<1> DEFINE s == k.st
           o == k.op
           f == k.from
           r == k.strict
           t == k.target
           w == k.saw
           e == k.events
           d == k.done
           x == k.exit
           no == FALSE
           next == Append(d, [target |-> t, outcome |-> v])
           k1 == [k EXCEPT !.done = next]
           k2 == [k1 EXCEPT !.target = None]
           k3 == [k2 EXCEPT !.saw = no]
<1>1. k = Made(s, o, f, r, t, w, e, d, x)
  BY DEF Shaped, Made
<1>2. Does(k, v) = [k3 EXCEPT !.events = 0]
  BY DEF Does
<1> HIDE DEF s, o, f, r, t, w, e, d, x, next, no
<1>3. k1 = Made(s, o, f, r, t, w, e, next, x)
  BY <1>1 DEF Made
<1> HIDE DEF k1
<1>4. k2 = Made(s, o, f, r, None, w, e, next, x)
  BY <1>3 DEF Made
<1> HIDE DEF k2
<1>5. k3 = Made(s, o, f, r, None, no, e, next, x)
  BY <1>4 DEF Made
<1> HIDE DEF k3
<1>6. Does(k, v) = Made(s, o, f, r, None, no, 0, next, x)
  BY <1>2, <1>5 DEF Made
<1> QED
  BY <1>1, <1>6 DEF Made, Shaped, next, d, t

Put(k, state) == [k EXCEPT !.st = state]

\* A state that is set leaves the rest of the command.
LEMMA StateParts ==
  ASSUME NEW k, Shaped(k), NEW v
  PROVE  /\ Shaped(Put(k, v)) /\ Put(k, v).st = v
         /\ Put(k, v).op = k.op /\ Put(k, v).from = k.from
         /\ Put(k, v).done = k.done /\ Put(k, v).exit = k.exit
         /\ Put(k, v).target = k.target
<1> DEFINE s == k.st
           o == k.op
           f == k.from
           r == k.strict
           t == k.target
           w == k.saw
           e == k.events
           d == k.done
           x == k.exit
<1>1. k = Made(s, o, f, r, t, w, e, d, x)
  BY DEF Shaped, Made
<1> HIDE DEF s, o, f, r, t, w, e, d, x
<1> QED
  BY <1>1 DEF Put, Shaped, Made

\* So does a target.
LEMMA TargetParts ==
  ASSUME NEW k, Shaped(k), NEW v
  PROVE  /\ Shaped([k EXCEPT !.target = v]) /\ [k EXCEPT !.target = v].target = v
         /\ [k EXCEPT !.target = v].op = k.op /\ [k EXCEPT !.target = v].from = k.from
         /\ [k EXCEPT !.target = v].done = k.done /\ [k EXCEPT !.target = v].exit = k.exit
         /\ [k EXCEPT !.target = v].st = k.st /\ [k EXCEPT !.target = v].strict = k.strict
<1> DEFINE s == k.st
           o == k.op
           f == k.from
           r == k.strict
           t == k.target
           w == k.saw
           e == k.events
           d == k.done
           x == k.exit
<1>1. k = Made(s, o, f, r, t, w, e, d, x)
  BY DEF Shaped, Made
<1> HIDE DEF s, o, f, r, t, w, e, d, x
<1> QED
  BY <1>1 DEF Shaped, Made

\* A record that was seen is counted.
LEMMA SeenParts ==
  ASSUME NEW k, Shaped(k)
  PROVE  LET seen == [k EXCEPT !.saw = TRUE, !.events = @ + 1]
         IN /\ Shaped(seen) /\ seen.st = k.st /\ seen.op = k.op /\ seen.target = k.target
            /\ seen.from = k.from /\ seen.done = k.done /\ seen.exit = k.exit
<1> DEFINE s == k.st
           o == k.op
           f == k.from
           r == k.strict
           t == k.target
           w == k.saw
           e == k.events
           d == k.done
           x == k.exit
           yes == TRUE
           more == e + 1
           k1 == [k EXCEPT !.saw = yes]
           seen == [k1 EXCEPT !.events = more]
<1>1. k = Made(s, o, f, r, t, w, e, d, x)
  BY DEF Shaped, Made
<1>2. [k EXCEPT !.saw = TRUE, !.events = @ + 1] = seen
  <2>1. [k EXCEPT !.saw = TRUE].events = e
    BY <1>1 DEF Made
  <2> QED
    BY <2>1
<1> HIDE DEF s, o, f, r, t, w, e, d, x, yes, more
<1>3. k1 = Made(s, o, f, r, t, yes, e, d, x)
  BY <1>1 DEF Made
<1> HIDE DEF k1
<1>4. seen = Made(s, o, f, r, t, yes, more, d, x)
  BY <1>3 DEF Made
<1> DEFINE both == [k EXCEPT !.saw = TRUE, !.events = @ + 1]
<1>5. both = Made(s, o, f, r, t, yes, more, d, x)
  BY <1>2, <1>4
<1> HIDE DEF both
<1>6. /\ Shaped(both) /\ both.st = k.st /\ both.op = k.op /\ both.target = k.target
      /\ both.from = k.from /\ both.done = k.done /\ both.exit = k.exit
  BY <1>1, <1>5 DEF Made, Shaped
<1> QED
  BY <1>6 DEF both

\* A command that goes on waits for the next target or ends without an error.
LEMMA GoesOnParts ==
  ASSUME NEW k, Shaped(k)
  PROVE  /\ Shaped(GoesOn(k)) /\ GoesOn(k).op = k.op /\ GoesOn(k).from = k.from
         /\ GoesOn(k).done = k.done
         /\ k.from = "stdin" => GoesOn(k).st = "next" /\ GoesOn(k).exit = k.exit
         /\ k.from # "stdin" => GoesOn(k).st = "ended" /\ GoesOn(k).exit = 0
<1>1. CASE k.from = "stdin"
  <2>1. GoesOn(k) = Put(k, "next")
    BY <1>1 DEF GoesOn, Put
  <2> QED
    BY <1>1, <2>1, StateParts
<1>2. CASE k.from # "stdin"
  <2>1. GoesOn(k) = Exits(k, 0)
    BY <1>2 DEF GoesOn
  <2> QED
    BY <1>2, <2>1, ExitParts
<1> QED
  BY <1>1, <1>2

\* A command k takes the target t: it waits for a call, or it ends with a failure, which
\* counts as one when there is a source that cannot be asked.
Begun(k, t, step) ==
  /\ Sensible(step.command)
  /\ step.command.op = k.op /\ step.command.from = k.from
  /\ \/ /\ step.command.st = "ended" /\ step.command.exit \in {1, 3}
        /\ step.command.done = Append(k.done, [target |-> t, outcome |-> "failed"])
        /\ \/ step.meters = meters
           \/ /\ t.source \in DOMAIN Registered
              /\ step.meters = Count(Count(meters, t.source, k.op, "requests"),
                                     t.source, k.op, "failures")
     \/ /\ step.command.st \in {"calling", "streaming"} /\ step.command.exit = k.exit
        /\ step.command.done = k.done /\ step.command.target = t
        /\ t.source \in DOMAIN Registered
        /\ step.meters = Count(meters, t.source, k.op, "requests")

\* A command that begins with a target waits for its call, or has failed.
LEMMA Begins ==
  ASSUME NEW k, Shaped(k), k.op \in Ops, k.st \notin {"calling", "streaming"}, NEW t
  PROVE  Begun(k, t, BeginTarget(k, t))
<1> DEFINE asked == [k EXCEPT !.target = t]
           failed == Does(asked, "failed")
           code == IF k.strict THEN 3 ELSE 1
<1>1. /\ Shaped(asked) /\ asked.target = t /\ asked.op = k.op /\ asked.from = k.from
      /\ asked.done = k.done /\ asked.exit = k.exit /\ asked.st = k.st
  BY TargetParts
<1> HIDE DEF asked
<1>2. /\ Shaped(failed) /\ failed.op = k.op /\ failed.from = k.from
      /\ failed.done = Append(k.done, [target |-> t, outcome |-> "failed"])
  BY <1>1, DoesParts
<1> HIDE DEF failed, code
<1>3. \A v : /\ Shaped(Exits(failed, v)) /\ Exits(failed, v).st = "ended"
            /\ Exits(failed, v).exit = v /\ Exits(failed, v).op = k.op
            /\ Exits(failed, v).from = k.from
            /\ Exits(failed, v).done = Append(k.done, [target |-> t, outcome |-> "failed"])
  BY <1>2, ExitParts
<1>4. \A v : /\ Shaped(Put(asked, v)) /\ Put(asked, v).st = v
            /\ Put(asked, v).op = k.op /\ Put(asked, v).from = k.from
            /\ Put(asked, v).done = k.done /\ Put(asked, v).exit = k.exit
            /\ Put(asked, v).target = t
  BY <1>1, StateParts
<1>5. CASE k.op = "fetch"
  <2> DEFINE started == Count(meters, t.source, "fetch", "requests")
  <2>1. BeginTarget(k, t) =
          IF t.source \notin DOMAIN Registered THEN CommandStep(Exits(failed, 1), meters)
          ELSE IF "fetch" \notin Registered[t.source]
            THEN CommandStep(Exits(failed, 1), Count(started, t.source, "fetch", "failures"))
            ELSE CommandStep(Put(asked, "calling"), started)
    BY <1>5 DEF BeginTarget, BeginFetch, Put, asked, failed
  <2> HIDE DEF started
  <2>2. CASE t.source \notin DOMAIN Registered
    <3>1. BeginTarget(k, t).command = Exits(failed, 1) /\ BeginTarget(k, t).meters = meters
      BY <2>1, <2>2 DEF CommandStep
    <3> QED
      BY <3>1, <1>3 DEF Begun, Sensible
  <2>3. CASE t.source \in DOMAIN Registered /\ "fetch" \notin Registered[t.source]
    <3>1. BeginTarget(k, t).command = Exits(failed, 1)
          /\ BeginTarget(k, t).meters = Count(started, t.source, "fetch", "failures")
      BY <2>1, <2>3 DEF CommandStep
    <3> QED
      BY <3>1, <1>3, <1>5, <2>3 DEF Begun, Sensible, started
  <2>4. CASE t.source \in DOMAIN Registered /\ "fetch" \in Registered[t.source]
    <3>1. BeginTarget(k, t).command = Put(asked, "calling")
          /\ BeginTarget(k, t).meters = started
      BY <2>1, <2>4 DEF CommandStep
    <3> QED
      BY <3>1, <1>4, <1>5, <2>4 DEF Begun, Sensible, started, Ops
  <2> QED
    BY <2>2, <2>3, <2>4
<1>6. CASE k.op = "follow"
  <2>1. BeginTarget(k, t) =
          IF t.source \in DOMAIN Registered /\ "follow" \in Registered[t.source]
            THEN CommandStep(Put(asked, "streaming"),
                             Count(meters, t.source, "follow", "requests"))
            ELSE CommandStep(Exits(failed, code), meters)
    BY <1>6 DEF BeginTarget, BeginFollow, FailureExit, Put, asked, failed, code
  <2>2. CASE t.source \in DOMAIN Registered /\ "follow" \in Registered[t.source]
    <3>1. BeginTarget(k, t).command = Put(asked, "streaming")
          /\ BeginTarget(k, t).meters = Count(meters, t.source, "follow", "requests")
      BY <2>1, <2>2 DEF CommandStep
    <3> QED
      BY <3>1, <1>4, <1>6, <2>2 DEF Begun, Sensible, Ops
  <2>3. CASE ~(t.source \in DOMAIN Registered /\ "follow" \in Registered[t.source])
    <3>1. BeginTarget(k, t).command = Exits(failed, code) /\ BeginTarget(k, t).meters = meters
      BY <2>1, <2>3 DEF CommandStep
    <3>2. code \in {1, 3}
      BY DEF code
    <3> QED
      BY <3>1, <3>2, <1>3 DEF Begun, Sensible
  <2> QED
    BY <2>2, <2>3
<1> QED
  BY <1>5, <1>6 DEF Ops

\* A command that begins a target fits, and one that neither waits before nor after.
LEMMA BegunFits ==
  ASSUME NEW c \in Clients, cmd[c].st \notin {"calling", "streaming"},
         NEW k, k.op \in Ops, NEW t, NEW step, Begun(k, t, step)
  PROVE  Fits(c, step.command, step.meters)
<1> DEFINE new == step.command
           m == step.meters
           s == t.source
<1>1. \A s2, op2 : ~Busy(cmd[c], s2, op2)
  BY DEF Busy
<1>2. CASE new.st = "ended"
  <2>1. \A s2, op2 : ~Busy(new, s2, op2)
    BY <1>2 DEF Busy
  <2>2. m = meters \/ (s \in DOMAIN Registered
                       /\ m = Count(Count(meters, s, k.op, "requests"), s, k.op, "failures"))
    BY <1>2 DEF Begun
  <2> HIDE DEF new, m, s
  <2>3. NoCall(c, new, m) \/ (s \in DOMAIN Registered /\ CallFails(c, new, m, s, k.op))
    BY <1>1, <2>1, <2>2 DEF NoCall, CallFails
  <2> QED
    BY <2>3 DEF Fits, new, m
<1>3. CASE new.st # "ended"
  <2>1. /\ new.st \in {"calling", "streaming"} /\ new.op = k.op /\ new.target = t
        /\ s \in DOMAIN Registered /\ m = Count(meters, s, k.op, "requests")
    BY <1>3 DEF Begun
  <2>2. \A s2, op2 : Busy(new, s2, op2) <=> s2 = s /\ op2 = k.op
    BY <2>1 DEF Busy
  <2> HIDE DEF new, m, s
  <2>3. CallStarts(c, new, m, s, k.op)
    BY <1>1, <2>1, <2>2 DEF CallStarts
  <2> QED
    BY <2>1, <2>3 DEF Fits, new, m
<1> QED
  BY <1>2, <1>3

\* A command without a call moves on without one.
LEMMA IdleFits ==
  ASSUME NEW c \in Clients, cmd[c].st \notin {"calling", "streaming"},
         NEW k, k.st \notin {"calling", "streaming"}
  PROVE  Fits(c, k, meters)
BY DEF Fits, NoCall, Busy

\* So does one that waits no more and counts how its call ended.
LEMMA EndFits ==
  ASSUME NEW c \in Clients, Sensible(cmd[c]), cmd[c].st \in {"calling", "streaming"},
         NEW k, k.st \notin {"calling", "streaming"}, NEW m,
         LET s == cmd[c].target.source
         IN \/ \E f \in {"successes", "failures", "cancelled"} : m = Count(meters, s, cmd[c].op, f)
            \/ m = Count(Count(meters, s, cmd[c].op, "failures"), s, cmd[c].op, "rate_limits")
  PROVE  Fits(c, k, m)
<1> DEFINE s == cmd[c].target.source
           op == cmd[c].op
<1>1. \A s2, op2 : ~Busy(k, s2, op2)
  BY DEF Busy
<1>2. \A s2, op2 : Busy(cmd[c], s2, op2) <=> s2 = s /\ op2 = op
  BY DEF Busy
<1>3. s \in DOMAIN Registered /\ op \in Ops
  BY DEF Sensible
<1>4. \/ \E f \in {"successes", "failures", "cancelled"} : m = Count(meters, s, op, f)
      \/ m = Count(Count(meters, s, op, "failures"), s, op, "rate_limits")
  OBVIOUS
<1> HIDE DEF s, op
<1>5. CallEnds(c, k, m, s, op)
  BY <1>1, <1>2, <1>4 DEF CallEnds
<1> QED
  BY <1>3, <1>5 DEF Fits

\* A failure is counted once, and a rate limit as one besides.
LEMMA FailureCounts ==
  ASSUME NEW m, NEW s, NEW op, NEW class
  PROVE  \/ \E f \in {"successes", "failures", "cancelled"} : CountFailure(m, s, op, class) = Count(m, s, op, f)
         \/ CountFailure(m, s, op, class) = Count(Count(m, s, op, "failures"), s, op, "rate_limits")
BY DEF CountFailure

\* The step of a command: what it becomes, and that it fits.
Moves(c, k) == cmd' = [cmd EXCEPT ![c] = k] /\ Sensible(k) /\ Fits(c, k, meters')

NewCmd(op, from, strict) == [NoCommand EXCEPT !.op = op, !.from = from, !.strict = strict]

\* A command as its options give it.
LEMMA NewCommand ==
  ASSUME NEW op, NEW from, NEW strict
  PROVE  LET k == NewCmd(op, from, strict)
         IN /\ Shaped(k) /\ k.st = "none" /\ k.op = op /\ k.from = from
            /\ k.done = <<>> /\ k.exit = None
<1> DEFINE no == FALSE
           nil == <<>>
           k1 == [NoCommand EXCEPT !.op = op]
           k2 == [k1 EXCEPT !.from = from]
           k == [k2 EXCEPT !.strict = strict]
<1>1. NewCmd(op, from, strict) = k
  BY Zenon DEF NewCmd
<1>2. NoCommand = Made("none", None, None, no, None, no, 0, nil, None)
  BY DEF NoCommand, Made
<1> HIDE DEF no, nil
<1>3. k1 = Made("none", op, None, no, None, no, 0, nil, None)
  BY <1>2 DEF Made
<1> HIDE DEF k1
<1>4. k2 = Made("none", op, from, no, None, no, 0, nil, None)
  BY <1>3 DEF Made
<1> HIDE DEF k2
<1>5. k = Made("none", op, from, strict, None, no, 0, nil, None)
  BY <1>4 DEF Made
<1> DEFINE all == NewCmd(op, from, strict)
<1>6. all = Made("none", op, from, strict, None, no, 0, nil, None)
  BY <1>1, <1>5
<1> HIDE DEF all
<1>7. Shaped(all) /\ all.st = "none" /\ all.op = op /\ all.from = from
      /\ all.done = nil /\ all.exit = None
  BY <1>6 DEF Shaped, Made
<1> QED
  BY <1>7 DEF all, nil

\* A command starts.
LEMMA StartMoves ==
  ASSUME MetersInv, NEW c \in Clients, NEW op \in Ops, NEW options \in Given,
         StartCommand(c, op, options)
  PROVE  \E k : Moves(c, k)
<1> DEFINE native == options.type = "none" /\ ~serving
           from == IF native THEN "stdin" ELSE "options"
           strict == options.strict
           k == NewCmd(op, from, strict)
           step == IF native THEN CommandStep(Put(k, "next"), meters)
                   ELSE IF options.type = "target" THEN BeginTarget(k, options)
                   ELSE CommandStep(Exits(k, 2), meters)
<1>1. cmd[c].st = "none" /\ cmd' = [cmd EXCEPT ![c] = step.command] /\ meters' = step.meters
  BY DEF StartCommand, Becomes, Put, NewCmd
<1>2. Shaped(k) /\ k.op = op /\ k.st = "none"
  <2> HIDE DEF from, strict
  <2> QED
    BY NewCommand
<1> HIDE DEF k
<1>3. CASE native
  <2>1. step.command = Put(k, "next") /\ step.meters = meters
    BY <1>3 DEF CommandStep
  <2>2. Sensible(step.command) /\ step.command.st = "next"
    <3>1. Shaped(step.command) /\ step.command.st = "next" /\ step.command.op = op
      BY <1>2, <2>1, StateParts
    <3> QED
      BY <3>1 DEF Sensible
  <2> HIDE DEF step
  <2> QED
    BY <1>1, <2>1, <2>2, IdleFits DEF Moves
<1>4. CASE ~native /\ options.type = "target"
  <2>1. Begun(k, options, step)
    BY <1>2, <1>4, Begins
  <2>2. Sensible(step.command)
    BY <2>1 DEF Begun
  <2> HIDE DEF step
  <2> QED
    BY <1>1, <1>2, <2>1, <2>2, BegunFits DEF Moves
<1>5. CASE ~native /\ options.type # "target"
  <2>1. step.command = Exits(k, 2) /\ step.meters = meters
    BY <1>5 DEF CommandStep
  <2>2. Sensible(step.command) /\ step.command.st = "ended"
    BY <1>2, <2>1, ExitParts DEF Sensible
  <2> HIDE DEF step
  <2> QED
    BY <1>1, <2>1, <2>2, IdleFits DEF Moves
<1> QED
  BY <1>3, <1>4, <1>5

\* A command takes its next target, or learns that there is none.
LEMMA TakeMoves ==
  ASSUME MetersInv, NEW c \in Clients, TakeTarget(c) \/ NoMoreTargets(c)
  PROVE  \E k : Moves(c, k)
<1> DEFINE k == cmd[c]
<1>1. Sensible(k) /\ k.st = "next"
  BY DEF MetersInv, TakeTarget, NoMoreTargets
<1>2. Shaped(k) /\ k.op \in Ops
  BY <1>1 DEF Sensible
<1>3. CASE \/ TakeTarget(c) /\ Head(queue).type # "bad"
  <2> DEFINE step == BeginTarget(k, Head(queue))
  <2>1. cmd' = [cmd EXCEPT ![c] = step.command] /\ meters' = step.meters
    BY <1>3 DEF TakeTarget, Becomes
  <2>2. Begun(k, Head(queue), step)
    BY <1>1, <1>2, Begins
  <2>3. Sensible(step.command)
    BY <2>2 DEF Begun
  <2> HIDE DEF step
  <2> QED
    BY <1>1, <1>2, <2>1, <2>2, <2>3, BegunFits DEF Moves
<1>4. CASE ~(TakeTarget(c) /\ Head(queue).type # "bad")
  <2>1. PICK code \in {0, 2} : cmd' = [cmd EXCEPT ![c] = Exits(k, code)] /\ meters' = meters
    BY <1>4 DEF TakeTarget, NoMoreTargets, Becomes, CommandStep
  <2>2. Sensible(Exits(k, code)) /\ Exits(k, code).st = "ended"
    BY <1>2, ExitParts DEF Sensible
  <2> QED
    BY <1>1, <2>1, <2>2, IdleFits DEF Moves
<1> QED
  BY <1>3, <1>4

\* How a command that works goes on: it is dropped, sees a record, or is done with a target.
Proceeds(k, k2) ==
  /\ k.st \in {"next", "calling", "streaming"} /\ k2.from = k.from
  /\ \/ k2.st = "dropped" /\ k2.done = k.done /\ k2.exit = k.exit
     \/ /\ Waits(k) /\ k2.st = k.st
        /\ k2.done = k.done /\ k2.exit = k.exit /\ k2.target = k.target
     \/ /\ Waits(k) /\ k2.st \in {"next", "ended"} /\ (k2.st = "next" => k.from = "stdin")
        /\ k.from = "stdin" =>
             \/ /\ k2.st = "next" /\ k2.exit = k.exit
                /\ \E o \in {"whole", "partial"} :
                     k2.done = Append(k.done, [target |-> k.target, outcome |-> o])
             \/ /\ k2.st = "ended" /\ k2.exit \in {1, 3}
                /\ k2.done = Append(k.done, [target |-> k.target, outcome |-> "failed"])

\* An answered call lets its command go on, or fails its target.
LEMMA AnswerProceeds ==
  ASSUME NEW k, Waits(k), NEW k1, Shaped(k1), k1.done = k.done, k1.target = k.target,
         k1.from = k.from, k1.exit = k.exit, NEW o \in {"whole", "partial"}, NEW code \in {1, 3}
  PROVE  Proceeds(k, GoesOn(Does(k1, o))) /\ Proceeds(k, Exits(Does(k1, "failed"), code))
<1> DEFINE well == Does(k1, o)
           ill == Does(k1, "failed")
<1>1. /\ Shaped(well) /\ well.from = k.from /\ well.exit = k.exit
      /\ well.done = Append(k.done, [target |-> k.target, outcome |-> o])
  BY DoesParts
<1>2. /\ Shaped(ill) /\ ill.from = k.from
      /\ ill.done = Append(k.done, [target |-> k.target, outcome |-> "failed"])
  BY DoesParts
<1> HIDE DEF well, ill
<1>3. /\ GoesOn(well).from = k.from /\ GoesOn(well).done = well.done
      /\ k.from = "stdin" => GoesOn(well).st = "next" /\ GoesOn(well).exit = k.exit
      /\ k.from # "stdin" => GoesOn(well).st = "ended"
  BY <1>1, GoesOnParts
<1>4. /\ Exits(ill, code).from = k.from /\ Exits(ill, code).done = ill.done
      /\ Exits(ill, code).st = "ended" /\ Exits(ill, code).exit = code
  BY <1>2, ExitParts
<1>5. Proceeds(k, GoesOn(well))
  BY <1>1, <1>3 DEF Proceeds, Waits
<1>6. Proceeds(k, Exits(ill, code))
  BY <1>2, <1>4 DEF Proceeds, Waits
<1> QED
  BY <1>5, <1>6 DEF well, ill

\* What a command that works leaves alone.
Aside(c) ==
  /\ stdin' = stdin /\ queue' = queue /\ lines' = lines
  /\ c # Cli \/ cmd'[c].st \notin {"ended", "dropped"} => reader' = reader

\* A fetch is answered.
LEMMA CallMoves ==
  ASSUME TargetsAssumption, MetersInv, NEW c \in Clients, NEW answer \in {"record", "large", "invalid"} \cup Codes,
         FetchAnswers(c, answer)
  PROVE  \E k : Moves(c, k) /\ Proceeds(cmd[c], k)
<1> DEFINE k == cmd[c]
           s == k.target.source
           whole == GoesOn(Does(k, "whole"))
           failed == Exits(Does(k, "failed"), 1)
<1>1. Sensible(k) /\ k.st = "calling" /\ k.op = "fetch" /\ Shaped(k)
  BY DEF MetersInv, FetchAnswers, Sensible
<1>2. Shaped(Does(k, "whole")) /\ Shaped(Does(k, "failed"))
      /\ Does(k, "whole").op = "fetch" /\ Does(k, "failed").op = "fetch"
  BY <1>1, DoesParts
<1>3. Sensible(whole) /\ whole.st \notin {"calling", "streaming"}
  <2> DEFINE did == Does(k, "whole")
  <2> HIDE DEF did
  <2>1. Shaped(did) /\ did.op = "fetch"
    BY <1>2 DEF did
  <2>2. Shaped(GoesOn(did)) /\ GoesOn(did).op = "fetch" /\ GoesOn(did).st \in {"next", "ended"}
    BY <2>1, GoesOnParts
  <2> QED
    BY <2>2 DEF Sensible, did, Ops
<1>4. Sensible(failed) /\ failed.st \notin {"calling", "streaming"}
  BY <1>2, ExitParts DEF Sensible
<1>5. /\ cmd' = [cmd EXCEPT ![c] = whole] \/ cmd' = [cmd EXCEPT ![c] = failed]
      /\ \/ \E f \in {"successes", "failures", "cancelled"} : meters' = Count(meters, s, k.op, f)
         \/ meters' = Count(Count(meters, s, k.op, "failures"), s, k.op, "rate_limits")
  <2> HIDE DEF whole, failed, s
  <2>0. answer \in Codes => answer \notin {"record", "large", "invalid"}
    BY DEF TargetsAssumption
  <2>1. CASE answer = "record"
    <3>1. cmd' = [cmd EXCEPT ![c] = whole] /\ meters' = Count(meters, s, "fetch", "successes")
      BY <2>0, <2>1 DEF FetchAnswers, Becomes, CommandStep, whole, s
    <3> QED
      BY <1>1, <3>1
  <2>2. CASE answer \in {"large", "invalid"}
    <3>1. cmd' = [cmd EXCEPT ![c] = failed] /\ meters' = Count(meters, s, "fetch", "failures")
      BY <2>0, <2>2 DEF FetchAnswers, Becomes, CommandStep, failed, s
    <3> QED
      BY <1>1, <3>1
  <2>3. CASE answer \notin {"record", "large", "invalid"}
    <3>1. cmd' = [cmd EXCEPT ![c] = failed]
          /\ meters' = CountFailure(meters, s, "fetch", ClassOfCode(answer))
      BY <2>0, <2>3 DEF FetchAnswers, Becomes, CommandStep, failed, s
    <3> QED
      BY <1>1, <3>1, FailureCounts
  <2> QED
    BY <2>1, <2>2, <2>3
<1>8. Proceeds(k, whole) /\ Proceeds(k, failed)
  BY <1>1, AnswerProceeds DEF Waits
<1> HIDE DEF whole, failed
<1>6. CASE cmd' = [cmd EXCEPT ![c] = whole]
  BY <1>1, <1>3, <1>5, <1>6, <1>8, EndFits DEF Moves
<1>7. CASE cmd' = [cmd EXCEPT ![c] = failed]
  BY <1>1, <1>4, <1>5, <1>7, <1>8, EndFits DEF Moves
<1> QED
  BY <1>5, <1>6, <1>7

\* A follow delivers a record, ends or fails.
LEMMA StreamMoves ==
  ASSUME MetersInv, NEW c \in Clients,
         \/ FollowEnds(c)
         \/ \E through \in BOOLEAN : FollowRecord(c, through)
         \/ \E code \in Codes : FollowFails(c, code)
  PROVE  \E k : Moves(c, k) /\ Proceeds(cmd[c], k)
<1> DEFINE k == cmd[c]
           s == k.target.source
<1>1. Sensible(k) /\ k.st = "streaming" /\ k.op = "follow" /\ Shaped(k)
  BY DEF MetersInv, FollowEnds, FollowRecord, FollowFails, Sensible
<1>2. ASSUME NEW old, Shaped(old), old.op = "follow", NEW outcome
      PROVE  LET did == Does(old, outcome)
             IN /\ Sensible(GoesOn(did)) /\ GoesOn(did).st \notin {"calling", "streaming"}
                /\ \A v : Sensible(Exits(did, v)) /\ Exits(did, v).st \notin {"calling", "streaming"}
  <2> DEFINE did == Does(old, outcome)
  <2>1. Shaped(did) /\ did.op = "follow"
    BY <1>2, DoesParts
  <2> HIDE DEF did
  <2>2. Shaped(GoesOn(did)) /\ GoesOn(did).op = "follow" /\ GoesOn(did).st \in {"next", "ended"}
    BY <2>1, GoesOnParts
  <2>3. \A v : Shaped(Exits(did, v)) /\ Exits(did, v).st = "ended"
    BY <2>1, ExitParts
  <2>4. Sensible(GoesOn(did)) /\ \A v : Sensible(Exits(did, v))
    BY <2>2, <2>3 DEF Sensible, Ops
  <2> QED
    BY <2>2, <2>3, <2>4 DEF did
<1>3. CASE FollowEnds(c)
  <2>1. cmd' = [cmd EXCEPT ![c] = GoesOn(Does(k, "whole"))] /\ meters' = Count(meters, s, "follow", "successes")
    BY <1>3 DEF FollowEnds, Becomes, CommandStep
  <2>2. Sensible(GoesOn(Does(k, "whole"))) /\ GoesOn(Does(k, "whole")).st \notin {"calling", "streaming"}
    BY <1>1, <1>2
  <2>3. Proceeds(k, GoesOn(Does(k, "whole")))
    BY <1>1, AnswerProceeds DEF Waits
  <2> QED
    BY <1>1, <2>1, <2>2, <2>3, EndFits DEF Moves
<1>4. ASSUME NEW through \in BOOLEAN, FollowRecord(c, through)
      PROVE  \E k2 : Moves(c, k2) /\ Proceeds(k, k2)
  <2> DEFINE seen == [k EXCEPT !.saw = TRUE, !.events = @ + 1]
             ended == Exits(Does(seen, "failed"), FailureExit(seen))
  <2>1. /\ Shaped(seen) /\ seen.st = "streaming" /\ seen.op = "follow" /\ seen.target = k.target
        /\ seen.from = k.from /\ seen.done = k.done /\ seen.exit = k.exit
    BY <1>1, SeenParts
  <2>2. CASE EndsCommand(seen, FALSE)
    <3>1. cmd' = [cmd EXCEPT ![c] = ended]
          /\ meters' = Count(meters, s, "follow", IF through THEN "successes" ELSE "cancelled")
      BY <1>4, <2>2 DEF FollowRecord, Becomes, CommandStep
    <3>2. Sensible(ended) /\ ended.st \notin {"calling", "streaming"}
      <4> HIDE DEF seen
      <4> QED
        BY <1>2, <2>1
    <3>3. \E f \in {"successes", "failures", "cancelled"} : meters' = Count(meters, s, k.op, f)
      BY <1>1, <3>1
    <3>4. Proceeds(k, ended)
      <4>1. FailureExit(seen) \in {1, 3}
        BY DEF FailureExit
      <4> HIDE DEF seen
      <4> QED
        BY <1>1, <2>1, <4>1, AnswerProceeds DEF Waits
    <3> HIDE DEF ended
    <3> QED
      BY <1>1, <3>1, <3>2, <3>3, <3>4, EndFits DEF Moves
  <2>3. CASE ~EndsCommand(seen, FALSE)
    <3>1. cmd' = [cmd EXCEPT ![c] = seen] /\ meters' = meters
      BY <1>4, <2>3 DEF FollowRecord, Becomes, CommandStep
    <3> HIDE DEF seen
    <3>2. Sensible(seen)
      BY <1>1, <2>1 DEF Sensible
    <3>3. NoCall(c, seen, meters)
      BY <1>1, <2>1 DEF NoCall, Busy
    <3>4. Proceeds(k, seen)
      BY <1>1, <2>1 DEF Proceeds, Waits
    <3> QED
      BY <3>1, <3>2, <3>3, <3>4 DEF Moves, Fits
  <2> QED
    BY <2>2, <2>3
<1>5. ASSUME NEW code \in Codes, FollowFails(c, code)
      PROVE  \E k2 : Moves(c, k2) /\ Proceeds(k, k2)
  <2> DEFINE m == CountFailure(meters, s, "follow", ClassOfCode(code))
  <2>1. PICK k2 : /\ cmd' = [cmd EXCEPT ![c] = k2] /\ meters' = m
                  /\ k2 = GoesOn(Does(k, "partial")) \/ k2 = Exits(Does(k, "failed"), FailureExit(k))
    <3>1. CASE EndsCommand(k, TRUE)
      BY <1>5, <3>1 DEF FollowFails, Becomes, CommandStep
    <3>2. CASE ~EndsCommand(k, TRUE)
      BY <1>5, <3>2 DEF FollowFails, Becomes, CommandStep
    <3> QED
      BY <3>1, <3>2
  <2>2. Sensible(k2) /\ k2.st \notin {"calling", "streaming"}
    BY <1>1, <1>2, <2>1
  <2>3. \/ \E f \in {"successes", "failures", "cancelled"} : meters' = Count(meters, s, k.op, f)
        \/ meters' = Count(Count(meters, s, k.op, "failures"), s, k.op, "rate_limits")
    BY <1>1, <2>1, FailureCounts
  <2>4. Proceeds(k, k2)
    <3>1. FailureExit(k) \in {1, 3}
      BY DEF FailureExit
    <3> QED
      BY <1>1, <2>1, <3>1, AnswerProceeds DEF Waits
  <2> QED
    BY <1>1, <2>1, <2>2, <2>3, <2>4, EndFits DEF Moves
<1> QED
  BY <1>3, <1>4, <1>5

\* A command is dropped.
LEMMA InterruptMoves ==
  ASSUME MetersInv, NEW c \in Clients, InterruptCommand(c)
  PROVE  \E k : Moves(c, k) /\ Proceeds(cmd[c], k)
<1> DEFINE k == cmd[c]
           dropped == Put(k, "dropped")
<1>1. Sensible(k) /\ Shaped(k) /\ k.st \in {"next", "calling", "streaming"}
  BY DEF MetersInv, InterruptCommand, Sensible
<1>2. cmd' = [cmd EXCEPT ![c] = dropped]
      /\ meters' = IF k.st = "next" THEN meters ELSE Count(meters, k.target.source, k.op, "cancelled")
  BY DEF InterruptCommand, Becomes, CommandStep, Put
<1>3. /\ Shaped(dropped) /\ dropped.st = "dropped" /\ dropped.from = k.from
      /\ dropped.done = k.done /\ dropped.exit = k.exit
  BY <1>1, StateParts
<1> HIDE DEF dropped
<1>4. Sensible(dropped)
  BY <1>3 DEF Sensible
<1>7. Proceeds(k, dropped)
  BY <1>1, <1>3 DEF Proceeds
<1>5. CASE k.st = "next"
  BY <1>2, <1>3, <1>4, <1>5, <1>7, IdleFits DEF Moves
<1>6. CASE k.st # "next"
  BY <1>1, <1>2, <1>3, <1>4, <1>6, <1>7, EndFits DEF Moves
<1> QED
  BY <1>5, <1>6

\* Every step keeps the counters balanced.
LEMMA MetersStep ==
  ASSUME TargetsAssumption, MetersInv, [TargetsNext]_targetVars
  PROVE  MetersInv'
<1>1. ASSUME NEW c \in Clients, \E k : Moves(c, k)
      PROVE  MetersInv'
  <2>1. PICK k : Moves(c, k)
    BY <1>1
  <2> QED
    BY <2>1, FitsKeeps DEF Moves
<1>2. CASE ReadLine \/ Eof \/ UNCHANGED targetVars
  <2>1. cmd' = cmd /\ meters' = meters
    BY <1>2 DEF ReadLine, Eof, targetVars
  <2>2. \A s, op : Live(s, op)' = Live(s, op)
    BY <2>1 DEF Live
  <2> QED
    BY <2>1, <2>2 DEF MetersInv, MetersBalance
<1>3. ASSUME NEW c \in Clients, NEW op \in {"fetch", "follow"}, NEW options \in Given,
             StartCommand(c, op, options)
      PROVE  MetersInv'
  BY <1>1, <1>3, StartMoves DEF Ops
<1>4. ASSUME NEW c \in Clients, TakeTarget(c) \/ NoMoreTargets(c)
      PROVE  MetersInv'
  BY <1>1, <1>4, TakeMoves
<1>5. ASSUME NEW c \in Clients, NEW answer \in {"record", "large", "invalid"} \cup Codes,
             FetchAnswers(c, answer)
      PROVE  MetersInv'
  BY <1>1, <1>5, CallMoves
<1>6. ASSUME NEW c \in Clients,
             \/ FollowEnds(c)
             \/ \E through \in BOOLEAN : FollowRecord(c, through)
             \/ \E code \in Codes : FollowFails(c, code)
      PROVE  MetersInv'
  BY <1>1, <1>6, StreamMoves
<1>7. ASSUME NEW c \in Clients, InterruptCommand(c)
      PROVE  MetersInv'
  BY <1>1, <1>7, InterruptMoves
<1> QED
  BY <1>2, <1>3, <1>4, <1>5, <1>6, <1>7 DEF TargetsNext

\* The counters start at zero, without calls.
LEMMA MetersStart ==
  ASSUME TargetsAssumption, TargetsInit
  PROVE  MetersInv
<1>1. cmd = [c \in Clients |-> NoCommand]
  BY DEF TargetsInit
<1>2. NoCommand.st = "none" /\ Shaped(NoCommand)
  <2> DEFINE no == FALSE
             nil == <<>>
  <2>1. NoCommand = Made("none", None, None, no, None, no, 0, nil, None)
    BY DEF NoCommand, Made
  <2> HIDE DEF no, nil
  <2> QED
    BY <2>1 DEF Shaped, Made
<1>3. Sensible(NoCommand)
  BY <1>2 DEF Sensible
<1>4. \A s, op : Live(s, op) = {}
  BY <1>1, <1>2 DEF Live
<1>5. Cardinality({}) = 0
  BY FS_EmptySet
<1>6. Zero \in Meter
  BY DEF Zero, Meter
<1>7. meters \in Meters /\ \A s \in DOMAIN Registered, op \in Ops : meters[s][op] = Zero
  BY <1>6 DEF TargetsInit, Meters, Ops
<1>8. MetersBalance
  <2> SUFFICES ASSUME NEW s \in DOMAIN Registered, NEW op \in {"fetch", "follow"}
               PROVE  LET m == meters[s][op]
                      IN /\ m.requests = m.successes + m.failures + m.cancelled + Cardinality(Live(s, op))
                         /\ m.rate_limits <= m.failures
    BY DEF MetersBalance
  <2>1. meters[s][op] = Zero /\ Cardinality(Live(s, op)) = 0
    BY <1>4, <1>5, <1>7 DEF Ops
  <2> QED
    BY <2>1 DEF Zero
<1> QED
  BY <1>1, <1>3, <1>7, <1>8 DEF MetersInv

\* However calls overlap, fail or are dropped, the counters of every source operation add
\* up (metrics.rs, OperationGuard).
THEOREM MetersAddUp == TargetsSpec => []MetersBalance
<1>1. TargetsInit => MetersInv
  BY TargetsAssumption, MetersStart
<1>2. MetersInv /\ [TargetsNext]_targetVars => MetersInv'
  BY TargetsAssumption, MetersStep
<1>3. MetersInv => MetersBalance
  BY DEF MetersInv
<1> QED
  BY <1>1, <1>2, <1>3, PTL DEF TargetsSpec

\* What a command does about its own call leaves stdin and the channel alone.
LEMMA AsideHolds ==
  ASSUME MetersInv, NEW c \in Clients,
         \/ \E answer \in {"record", "large", "invalid"} \cup Codes : FetchAnswers(c, answer)
         \/ FollowEnds(c)
         \/ \E through \in BOOLEAN : FollowRecord(c, through)
         \/ \E code \in Codes : FollowFails(c, code)
         \/ InterruptCommand(c)
  PROVE  Aside(c)
<1>1. c \in DOMAIN cmd
  BY DEF MetersInv
<1>2. CASE \E answer \in {"record", "large", "invalid"} \cup Codes : FetchAnswers(c, answer)
  <2>1. stdin' = stdin /\ queue' = queue /\ lines' = lines
    BY <1>2 DEF FetchAnswers
  <2>2. \E step : cmd' = [cmd EXCEPT ![c] = step.command] /\ FreesReader(c, step.command)
    BY <1>2 DEF FetchAnswers, Becomes
  <2> QED
    BY <1>1, <2>1, <2>2 DEF Aside, FreesReader
<1>3. CASE FollowEnds(c)
  BY <1>3 DEF FollowEnds, Aside
<1>4. CASE \E through \in BOOLEAN : FollowRecord(c, through)
  <2>1. stdin' = stdin /\ queue' = queue /\ lines' = lines
    BY <1>4 DEF FollowRecord
  <2>2. \E step : cmd' = [cmd EXCEPT ![c] = step.command] /\ FreesReader(c, step.command)
    BY <1>4 DEF FollowRecord, Becomes
  <2> QED
    BY <1>1, <2>1, <2>2 DEF Aside, FreesReader
<1>5. CASE \E code \in Codes : FollowFails(c, code)
  <2>1. stdin' = stdin /\ queue' = queue /\ lines' = lines
    BY <1>5 DEF FollowFails
  <2>2. \E step : cmd' = [cmd EXCEPT ![c] = step.command] /\ FreesReader(c, step.command)
    BY <1>5 DEF FollowFails, Becomes
  <2> QED
    BY <1>1, <2>1, <2>2 DEF Aside, FreesReader
<1>6. CASE InterruptCommand(c)
  <2>1. stdin' = stdin /\ queue' = queue /\ lines' = lines
    BY <1>6 DEF InterruptCommand
  <2>2. \E k : cmd' = [cmd EXCEPT ![c] = k] /\ FreesReader(c, k)
    <3>1. PICK m : Becomes(c, CommandStep([cmd[c] EXCEPT !.st = "dropped"], m))
                   /\ FreesReader(c, [cmd[c] EXCEPT !.st = "dropped"])
      BY <1>6 DEF InterruptCommand
    <3> QED
      BY <3>1 DEF Becomes, CommandStep
  <2> QED
    BY <1>1, <2>1, <2>2 DEF Aside, FreesReader
<1> QED
  BY <1>2, <1>3, <1>4, <1>5, <1>6

\* The command that reads stdin works, or has stopped.
AtWork ==
  /\ cmd[Cli].st \in {"next", "calling", "streaming"}
  /\ Input(lines, stdin)
  /\ Channel(lines, NRead(lines, stdin), queue, reader)
  /\ Ordered(lines, NRead(lines, stdin), queue, cmd[Cli])
  /\ Works(lines, cmd[Cli])

Stopped ==
  /\ cmd[Cli].st \in {"ended", "dropped"}
  /\ Fine(lines, cmd[Cli].done, cmd[Cli].exit)
  /\ Len(queue) <= 2

\* Only the command Cli reads stdin, and nothing is read before it does.
Roles(cs) ==
  \A c \in Clients : /\ cs[c].st = "next" => cs[c].from = "stdin"
                     /\ cs[c].from = "stdin" => c = Cli
                     /\ cs[c].st = "none" => cs[c].from # "stdin"

Fresh ==
  cmd[Cli].st = "none" =>
    /\ stdin = lines /\ queue = <<>>
    /\ reader = [st |-> "none", emitted |-> FALSE, failed |-> FALSE]

OrderInv ==
  /\ MetersInv
  /\ IsStdin(lines)
  /\ Roles(cmd)
  /\ Fresh
  /\ cmd[Cli].from = "stdin" => AtWork \/ Stopped

\* Nothing is read at the start.
LEMMA OrderStart ==
  ASSUME TargetsAssumption, TargetsInit
  PROVE  OrderInv
<1>1. MetersInv
  BY MetersStart
<1>2. IsStdin(lines)
  <2>1. lines \in Stdin
    BY DEF TargetsInit
  <2> QED
    BY <2>1 DEF TargetsAssumption, IsStdin, LineSet
<1>3. \A c \in Clients : cmd[c] = NoCommand
  BY DEF TargetsInit
<1>4. NoCommand.st = "none" /\ NoCommand.from = None
  BY DEF NoCommand
<1>5. None # "stdin" /\ Cli \in Clients
  BY DEF TargetsAssumption
<1>6. Roles(cmd) /\ cmd[Cli].from # "stdin"
  BY <1>3, <1>4, <1>5 DEF Roles
<1>7. Fresh
  BY DEF TargetsInit, Fresh
<1> QED
  BY <1>1, <1>2, <1>6, <1>7 DEF OrderInv

\* The reader reads a line.
LEMMA ReadOrder ==
  ASSUME TargetsAssumption, OrderInv, ReadLine \/ Eof
  PROVE  OrderInv'
<1>1. MetersInv'
  BY MetersStep DEF OrderInv, TargetsNext
<1>2. lines' = lines /\ cmd' = cmd /\ reader.st = "reading"
  BY DEF ReadLine, Eof
<1>3. IsStdin(lines) /\ IsStdin(lines') /\ Roles(cmd')
  BY <1>2 DEF OrderInv
<1>4. cmd[Cli].st # "none"
  BY <1>2 DEF OrderInv, Fresh
<1>5. Fresh'
  BY <1>2, <1>4 DEF Fresh
<1>6. ASSUME Stopped
      PROVE  Stopped'
  <2>1. Ended(Cli)
    BY <1>6 DEF Stopped, Ended
  <2>3. queue' = queue
    BY <2>1 DEF ReadLine, Eof, SendTarget
  <2> QED
    BY <1>2, <1>6, <2>3 DEF Stopped
<1>7. ASSUME AtWork
      PROVE  AtWork'
  <2> DEFINE n == NRead(lines, stdin)
             k == cmd[Cli]
             st(item, last) == IF queue = <<>> THEN IF last THEN "ended" ELSE "reading"
                               ELSE IF last THEN "blocked-last" ELSE "blocked"
  <2>1. n \in Nat /\ Input(lines, stdin) /\ Channel(lines, n, queue, reader)
        /\ Ordered(lines, n, queue, k) /\ Works(lines, k)
    BY <1>3, <1>7, InputStep DEF AtWork
  <2>2. ~Ended(Cli)
    BY <1>7 DEF AtWork, Ended
  <2>3. \A item, last : /\ SendTarget(item, last).queue = Append(queue, item)
                        /\ SendTarget(item, last).st = st(item, last)
    BY <2>2 DEF SendTarget
  <2>4. SUFFICES /\ Input(lines, stdin')
                 /\ Channel(lines, NRead(lines, stdin'), queue', reader')
                 /\ Ordered(lines, NRead(lines, stdin'), queue', k)
    BY <1>2, <1>7, <2>4 DEF AtWork
  <2> HIDE DEF n, k
  <2>5. CASE ReadLine
    <3> DEFINE line == Head(stdin)
    <3>1. stdin # <<>> /\ stdin' = Tail(stdin)
      BY <2>5 DEF ReadLine
    <3>2. /\ Input(lines, stdin') /\ NRead(lines, stdin') = n + 1
          /\ n + 1 \in 1..Len(lines) /\ line = lines[n + 1]
      BY <1>3, <2>1, <3>1, InputStep DEF n
    <3>3. line.type \in {"target", "blank", "bad"}
      BY <1>3, <3>2 DEF IsStdin
    <3>4. CASE line.type = "blank"
      <4>1. queue' = queue /\ reader' = reader
        BY <2>5, <3>4 DEF ReadLine
      <4> QED
        BY <1>2, <1>3, <2>1, <3>2, <3>4, <4>1, BlankLine
    <3>5. CASE line.type = "target"
      <4> DEFINE yes == TRUE
                 no == FALSE
      <4>1. /\ queue' = SendTarget(line, FALSE).queue
            /\ reader' = [st |-> SendTarget(line, FALSE).st, emitted |-> reader.emitted \/ yes,
                          failed |-> reader.failed \/ no]
        BY <2>5, <3>5 DEF ReadLine
      <4>2. reader.failed = FALSE
        BY <1>2, <1>3, <2>1, ReadingChannel
      <4>3. queue' = Append(queue, line)
        BY <2>3, <4>1
      <4>4. /\ IsReader(reader')
            /\ reader'.st = (IF queue = <<>> THEN "reading" ELSE "blocked")
            /\ reader'.emitted = TRUE /\ reader'.failed = FALSE
        BY <2>3, <4>1, <4>2 DEF IsReader
      <4>5. lines[n + 1].type = "target"
        BY <3>2, <3>5
      <4>6. /\ Channel(lines, n + 1, Append(queue, lines[n + 1]), reader')
            /\ Ordered(lines, n + 1, Append(queue, lines[n + 1]), k)
        BY <1>2, <1>3, <2>1, <3>2, <4>4, <4>5, TargetLine
      <4> QED
        BY <3>2, <4>3, <4>6
    <3>6. CASE line.type = "bad"
      <4>1. queue' = Append(queue, line) /\ IsReader(reader')
        BY <2>2, <2>5, <3>6 DEF ReadLine, SendTarget, IsReader
      <4>3. reader'.st = IF queue = <<>> THEN "ended" ELSE "blocked-last"
        BY <2>2, <2>5, <3>6 DEF ReadLine, SendTarget
      <4>4. line \in Items(lines)
        BY <3>2 DEF Items, LineSet
      <4>5. BadOf(lines) # {} /\ n + 1 \notin TargetsOf(lines)
        BY <3>2, <3>6 DEF BadOf, TargetsOf
      <4>6. UpTo(lines, n + 1) = UpTo(lines, n)
        BY <1>3, <2>1, <4>5, NextLine
      <4>7. UpTo(lines, n) = TargetsOf(lines)
        <5>1. n + 1 \in BadOf(lines)
          BY <3>2, <3>6 DEF BadOf
        <5>2. \A i \in TargetsOf(lines) : i \in Nat /\ i < n + 1
          BY <5>1, TargetsFinite, <1>3 DEF TargetsOf
        <5> QED
          BY <2>1, <5>2 DEF UpTo
      <4> HIDE DEF line
      <4>8. Channel(lines, n + 1, Append(queue, line), reader')
            /\ Ordered(lines, n + 1, Append(queue, line), k)
        BY <1>2, <1>3, <2>1, <3>6, <4>1, <4>3, <4>4, <4>5, <4>6, <4>7, LastItem
      <4> QED
        BY <3>2, <4>1, <4>8
    <3> QED
      BY <3>3, <3>4, <3>5, <3>6
  <2>6. CASE Eof
    <3>1. stdin = <<>> /\ stdin' = stdin
      BY <2>6 DEF Eof
    <3>2. n = Len(lines) /\ NRead(lines, stdin') = n
      BY <1>3, <2>1, <3>1, InputStep DEF n
    <3>3. IsReader(reader) /\ reader.failed = FALSE
      <4>1. reader.failed = FALSE
        BY <1>2, <1>3, <2>1, ReadingChannel
      <4> QED
        BY <2>1, <4>1 DEF Channel
    <3>4. \A v : /\ [reader EXCEPT !.st = v].st = v
                 /\ IsReader([reader EXCEPT !.st = v])
      BY <3>3 DEF IsReader
    <3>5. CASE reader.emitted = TRUE
      <4>1. reader' = [reader EXCEPT !.st = "ended"] /\ queue' = queue
        BY <2>6, <3>5 DEF Eof
      <4>2. /\ IsReader(reader')
            /\ reader'.st = "ended"
        BY <3>4, <4>1
      <4>3. Channel(lines, n, queue, reader') /\ Ordered(lines, n, queue, k)
        BY <1>2, <1>3, <2>1, <3>2, <3>5, <4>2, EndOfInput
      <4> QED
        BY <2>1, <3>1, <3>2, <4>1, <4>3
    <3>6. CASE reader.emitted # TRUE
      <4>0. reader.emitted = FALSE
        <5>1. reader.emitted \in BOOLEAN
          BY <1>2, <2>1 DEF Channel
        <5> QED
          BY <3>6, <5>1
      <4>1. reader' = [reader EXCEPT !.st = SendTarget([type |-> "bad"], TRUE).st]
            /\ queue' = SendTarget([type |-> "bad"], TRUE).queue
        BY <2>6, <3>3, <4>0 DEF Eof
      <4>2. /\ IsReader(reader')
            /\ reader'.st = SendTarget([type |-> "bad"], TRUE).st
        BY <3>4, <4>1
      <4>3. reader'.st = (IF queue = <<>> THEN "ended" ELSE "blocked-last")
            /\ queue' = Append(queue, [type |-> "bad"])
        BY <2>3, <4>1, <4>2
      <4>4. /\ Channel(lines, n, Append(queue, [type |-> "bad"]), reader')
            /\ Ordered(lines, n, Append(queue, [type |-> "bad"]), k)
        BY <1>2, <1>3, <2>1, <3>2, <3>6, <4>2, <4>3, EndOfInput
      <4> QED
        BY <2>1, <3>1, <3>2, <4>3, <4>4
    <3> QED
      BY <3>5, <3>6
  <2> QED
    BY <2>5, <2>6
<1>8. cmd'[Cli].from = "stdin" => AtWork' \/ Stopped'
  BY <1>2, <1>6, <1>7 DEF OrderInv
<1> QED
  BY <1>1, <1>3, <1>5, <1>8 DEF OrderInv

\* Another command moves.
LEMMA OtherOrder ==
  ASSUME OrderInv, MetersInv', NEW c \in Clients, c # Cli, Cli \in Clients,
         NEW k, cmd' = [cmd EXCEPT ![c] = k], k.from # "stdin", k.st # "next",
         stdin' = stdin, queue' = queue, lines' = lines, reader' = reader
  PROVE  OrderInv'
<1>1. cmd'[Cli] = cmd[Cli] /\ cmd'[c] = k /\ \A d \in Clients \ {c} : cmd'[d] = cmd[d]
  BY DEF OrderInv, MetersInv
<1>2. Roles(cmd')
  <2>1. Roles(cmd)
    BY DEF OrderInv
  <2> QED
    BY <1>1, <2>1 DEF Roles
<1>3. Fresh'
  BY <1>1 DEF OrderInv, Fresh
<1>4. IsStdin(lines')
  BY DEF OrderInv
<1>5. AtWork => AtWork'
  BY <1>1 DEF AtWork
<1>6. Stopped => Stopped'
  BY <1>1 DEF Stopped
<1> QED
  BY <1>1, <1>2, <1>3, <1>4, <1>5, <1>6 DEF OrderInv

\* The command that reads stdin moves.
LEMMA OwnOrder ==
  ASSUME OrderInv, MetersInv', Cli \in Clients,
         NEW k, cmd' = [cmd EXCEPT ![Cli] = k], k.st # "none", k.st = "next" => k.from = "stdin",
         lines' = lines, k.from = "stdin" => AtWork' \/ Stopped'
  PROVE  OrderInv'
<1>1. cmd'[Cli] = k /\ \A d \in Clients \ {Cli} : cmd'[d] = cmd[d]
  BY DEF OrderInv, MetersInv
<1>2. Roles(cmd')
  <2>1. Roles(cmd)
    BY DEF OrderInv
  <2> QED
    BY <1>1, <2>1 DEF Roles
<1>3. Fresh'
  BY <1>1 DEF Fresh
<1>4. IsStdin(lines')
  BY DEF OrderInv
<1> QED
  BY <1>1, <1>2, <1>3, <1>4 DEF OrderInv

\* A command takes a target, or learns that there is none.
LEMMA TakeOrder ==
  ASSUME TargetsAssumption, OrderInv, MetersInv', NEW c \in Clients,
         TakeTarget(c) \/ NoMoreTargets(c)
  PROVE  OrderInv'
<1> DEFINE k == cmd[Cli]
           n == NRead(lines, stdin)
<1>1. c = Cli /\ k.st = "next" /\ k.from = "stdin" /\ Cli \in Clients
  BY DEF TakeTarget, NoMoreTargets, OrderInv, Roles
<1>2. AtWork /\ IsStdin(lines) /\ MetersInv
  BY <1>1 DEF OrderInv, Stopped
<1>3. /\ n \in Nat /\ Input(lines, stdin) /\ Channel(lines, n, queue, reader)
      /\ Ordered(lines, n, queue, k) /\ Works(lines, k)
  BY <1>2, InputStep DEF AtWork
<1>4. Shaped(k) /\ k.op \in Ops
  BY <1>1, <1>2 DEF MetersInv, Sensible
<1>5. lines' = lines /\ stdin' = stdin
  BY DEF TakeTarget, NoMoreTargets
<1>6. queue \in Seq(Items(lines)) /\ Len(queue) \in Nat /\ Len(queue) <= 2 /\ IsReader(reader)
  <2>1. queue \in Seq(Items(lines)) /\ (Len(queue) <= 1 \/ Len(queue) = 2) /\ IsReader(reader)
    BY <1>3 DEF Channel
  <2>2. Len(queue) \in Nat
    BY <2>1, LenProperties
  <2> QED
    BY <2>1, <2>2
<1>7. queue # <<>> => Len(Tail(queue)) <= 2
  <2>1. ASSUME queue # <<>>
        PROVE  Len(Tail(queue)) = Len(queue) - 1
    BY <1>6, <2>1, HeadTailProperties
  <2> QED
    BY <1>6, <2>1
<1>8. ASSUME NEW k2, cmd' = [cmd EXCEPT ![c] = k2]
      PROVE  cmd'[Cli] = k2
  BY <1>1, <1>2, <1>8 DEF MetersInv
<1>9. CASE TakeTarget(c) /\ Head(queue).type # "bad"
  <2> DEFINE step == BeginTarget(k, Head(queue))
             k2 == step.command
  <2>1. cmd' = [cmd EXCEPT ![Cli] = k2] /\ queue # <<>> /\ queue' = Tail(queue)
        /\ reader' = [reader EXCEPT !.st = Unblocked(reader.st)]
    BY <1>1, <1>9 DEF TakeTarget, Becomes
  <2>2. Begun(k, Head(queue), step)
    BY <1>1, <1>4, Begins
  <2>3. IsReader(reader') /\ reader'.st = Unblocked(reader.st)
        /\ reader'.emitted = reader.emitted /\ reader'.failed = reader.failed
    <3> DEFINE st == Unblocked(reader.st)
    <3> HIDE DEF st
    <3>1. /\ IsReader([reader EXCEPT !.st = st]) /\ [reader EXCEPT !.st = st].st = st
          /\ [reader EXCEPT !.st = st].emitted = reader.emitted
          /\ [reader EXCEPT !.st = st].failed = reader.failed
      BY <1>6 DEF IsReader
    <3> QED
      BY <2>1, <3>1 DEF st
  <2> HIDE DEF step
  <2>4. k2.from = "stdin"
    BY <1>1, <2>2 DEF Begun
  <2>5. cmd'[Cli] = k2
    BY <1>1, <1>8, <2>1
  <2>6. CASE k2.st = "ended"
    <3>1. /\ k2.exit \in {1, 3}
          /\ k2.done = Append(k.done, [target |-> Head(queue), outcome |-> "failed"])
      BY <2>2, <2>6 DEF Begun
    <3> HIDE DEF k2, k, n
    <3>2. Fine(lines, k2.done, k2.exit)
      BY <1>1, <1>2, <1>3, <1>9, <2>1, <2>3, <3>1, TakesTarget
    <3>3. Stopped'
      BY <1>5, <1>7, <2>1, <2>5, <2>6, <3>2 DEF Stopped
    <3> QED
      BY <1>1, <1>5, <2>1, <2>4, <2>6, <3>3, OwnOrder
  <2>7. CASE k2.st # "ended"
    <3>1. Waits(k2) /\ k2.done = k.done /\ k2.exit = k.exit /\ k2.target = Head(queue)
      BY <2>2, <2>7 DEF Begun, Waits
    <3> HIDE DEF k2, k, n
    <3>2. Channel(lines, n, queue', reader') /\ Ordered(lines, n, queue', k2) /\ Works(lines, k2)
      BY <1>1, <1>2, <1>3, <1>9, <2>1, <2>3, <3>1, TakesTarget
    <3>3. AtWork'
      BY <1>3, <1>5, <2>5, <3>1, <3>2 DEF AtWork, Waits, n
    <3> QED
      BY <1>1, <1>5, <2>1, <2>4, <3>1, <3>3, OwnOrder DEF Waits
  <2> QED
    BY <2>6, <2>7
<1>10. CASE ~(TakeTarget(c) /\ Head(queue).type # "bad")
  <2>1. PICK code \in {0, 2} :
          /\ cmd' = [cmd EXCEPT ![Cli] = Exits(k, code)]
          /\ code = 2 => queue # <<>> /\ Head(queue).type = "bad" /\ queue' = Tail(queue)
          /\ code = 0 => queue = <<>> /\ reader.st = "ended" /\ queue' = queue
    <3>1. CASE TakeTarget(c)
      <4>1. queue # <<>> /\ Head(queue).type = "bad" /\ queue' = Tail(queue)
        BY <1>10, <3>1 DEF TakeTarget
      <4>2. cmd' = [cmd EXCEPT ![Cli] = CommandStep(Exits(k, 2), meters).command]
        BY <1>1, <3>1, <4>1 DEF TakeTarget, Becomes
      <4>3. CommandStep(Exits(k, 2), meters).command = Exits(k, 2)
        BY DEF CommandStep
      <4> HIDE DEF k
      <4>4. cmd' = [cmd EXCEPT ![Cli] = Exits(k, 2)]
        BY <4>2, <4>3
      <4> QED
        BY <4>1, <4>4
    <3>2. CASE NoMoreTargets(c)
      <4>1. queue = <<>> /\ reader.st = "ended" /\ queue' = queue
        BY <3>2 DEF NoMoreTargets
      <4>2. cmd' = [cmd EXCEPT ![Cli] = CommandStep(Exits(k, 0), meters).command]
        BY <1>1, <3>2 DEF NoMoreTargets, Becomes
      <4>3. CommandStep(Exits(k, 0), meters).command = Exits(k, 0)
        BY DEF CommandStep
      <4> HIDE DEF k
      <4>4. cmd' = [cmd EXCEPT ![Cli] = Exits(k, 0)]
        BY <4>2, <4>3
      <4> QED
        BY <4>1, <4>4
    <3> QED
      BY <1>10, <3>1, <3>2
  <2> DEFINE k2 == Exits(k, code)
  <2>2. k2.st = "ended" /\ k2.exit = code /\ k2.done = k.done /\ k2.from = "stdin"
    BY <1>1, <1>4, ExitParts
  <2>3. Fine(lines, k.done, code)
    <3> HIDE DEF k, n
    <3>1. CASE code = 2
      <4>1. queue # <<>> /\ Head(queue).type = "bad"
        BY <2>1, <3>1
      <4>2. Fine(lines, k.done, 2)
        BY <1>1, <1>2, <1>3, <4>1, TakesEnd
      <4> QED
        BY <3>1, <4>2
    <3>2. CASE code = 0
      <4>1. queue = <<>> /\ reader.st = "ended"
        BY <2>1, <3>2
      <4>2. Fine(lines, k.done, 0)
        BY <1>1, <1>2, <1>3, <4>1, TakesEnd
      <4> QED
        BY <3>2, <4>2
    <3> QED
      BY <3>1, <3>2
  <2>4. cmd'[Cli] = k2
    BY <1>1, <1>8, <2>1
  <2>5. Len(queue') <= 2
    BY <1>6, <1>7, <2>1
  <2> HIDE DEF k2
  <2>6. Stopped'
    BY <1>5, <2>2, <2>3, <2>4, <2>5 DEF Stopped
  <2> QED
    BY <1>1, <1>5, <2>1, <2>2, <2>6, OwnOrder DEF k2
<1> QED
  BY <1>9, <1>10

\* A command that works goes on.
LEMMA WorkOrder ==
  ASSUME TargetsAssumption, OrderInv, MetersInv', NEW c \in Clients, NEW k2,
         Moves(c, k2), Proceeds(cmd[c], k2), Aside(c)
  PROVE  OrderInv'
<1> DEFINE k == cmd[Cli]
           n == NRead(lines, stdin)
<1>1. cmd' = [cmd EXCEPT ![c] = k2] /\ cmd'[c] = k2 /\ k2.from = cmd[c].from /\ Cli \in Clients
  BY DEF Moves, Proceeds, OrderInv, MetersInv, TargetsAssumption
<1>2. k2.st # "none" /\ (k2.st = "next" => k2.from = "stdin")
  BY DEF Proceeds, Waits
<1>3. lines' = lines /\ stdin' = stdin /\ queue' = queue
      /\ (c # Cli \/ k2.st \notin {"ended", "dropped"} => reader' = reader)
  BY <1>1 DEF Aside
<1>4. CASE c # Cli
  <2>1. k2.from # "stdin"
    BY <1>1, <1>4 DEF OrderInv, Roles
  <2> QED
    BY <1>1, <1>2, <1>3, <1>4, <2>1, OtherOrder
<1>5. CASE c = Cli /\ k.from # "stdin"
  BY <1>1, <1>2, <1>3, <1>5, OwnOrder
<1>6. CASE c = Cli /\ k.from = "stdin"
  <2>1. AtWork /\ IsStdin(lines) /\ Proceeds(k, k2)
    BY <1>6 DEF OrderInv, Stopped, Proceeds
  <2>2. /\ n \in Nat /\ Input(lines, stdin) /\ Channel(lines, n, queue, reader)
        /\ Ordered(lines, n, queue, k) /\ Works(lines, k)
    BY <2>1, InputStep DEF AtWork
  <2>3. queue \in Seq(Items(lines)) /\ Len(queue) <= 2
    <3>1. queue \in Seq(Items(lines)) /\ (Len(queue) <= 1 \/ Len(queue) = 2)
      BY <2>2 DEF Channel
    <3>2. Len(queue) \in Nat
      BY <3>1, LenProperties
    <3> QED
      BY <3>1, <3>2
  <2> HIDE DEF k, n
  <2>4. Fine(lines, k.done, k.exit)
    BY <2>1, <2>2, <2>3, WorksIsFine
  <2>5. ASSUME k2.st \in {"ended", "dropped"}, Fine(lines, k2.done, k2.exit)
        PROVE  OrderInv'
    <3>1. Stopped'
      BY <1>1, <1>3, <1>6, <2>3, <2>5 DEF Stopped
    <3> QED
      BY <1>1, <1>2, <1>3, <1>6, <3>1, OwnOrder
  <2>6. ASSUME k2.st \in {"next", "calling", "streaming"},
               Ordered(lines, n, queue, k2), Works(lines, k2)
        PROVE  OrderInv'
    <3>1. AtWork'
      BY <1>1, <1>3, <1>6, <2>2, <2>6 DEF AtWork, n
    <3> QED
      BY <1>1, <1>2, <1>3, <1>6, <3>1, OwnOrder
  <2>7. CASE k2.st = "dropped" /\ k2.done = k.done /\ k2.exit = k.exit
    BY <2>4, <2>5, <2>7
  <2>8. CASE /\ Waits(k) /\ k2.st = k.st
             /\ k2.done = k.done /\ k2.exit = k.exit /\ k2.target = k.target
    <3>1. Waits(k2) /\ Taken(k2) = Taken(k)
      BY <2>8 DEF Waits, Taken
    <3>2. Ordered(lines, n, queue, k2) /\ Works(lines, k2)
      BY <2>2, <2>8, <3>1 DEF Ordered, Works
    <3> QED
      BY <2>6, <3>1, <3>2 DEF Waits
  <2>9. CASE /\ Waits(k) /\ k2.st = "next" /\ k2.exit = k.exit
             /\ \E o \in {"whole", "partial"} :
                  k2.done = Append(k.done, [target |-> k.target, outcome |-> o])
    <3>1. Ordered(lines, n, queue, k2) /\ Works(lines, k2)
      BY <2>1, <2>2, <2>3, <2>9, CallAnswered
    <3> QED
      BY <2>6, <2>9, <3>1
  <2>10. CASE /\ Waits(k) /\ k2.st = "ended" /\ k2.exit \in {1, 3}
              /\ k2.done = Append(k.done, [target |-> k.target, outcome |-> "failed"])
    <3>1. Fine(lines, k2.done, k2.exit)
      BY <2>1, <2>2, <2>3, <2>10, CallAnswered
    <3> QED
      BY <2>5, <2>10, <3>1
  <2> QED
    BY <1>6, <2>1, <2>7, <2>8, <2>9, <2>10 DEF Proceeds, k
<1> QED
  BY <1>4, <1>5, <1>6

\* Nothing is read, and nothing is done.
LEMMA FirstLine ==
  ASSUME NEW ls, IsStdin(ls), NEW r, r = [st |-> "reading", emitted |-> FALSE, failed |-> FALSE],
         NEW k, k.st = "next", k.done = <<>>, k.exit = None
  PROVE  /\ Input(ls, ls) /\ NRead(ls, ls) = 0
         /\ Channel(ls, 0, <<>>, r) /\ Ordered(ls, 0, <<>>, k) /\ Works(ls, k)
<1>1. Len(ls) \in Nat /\ ls \in Seq(LineSet(ls))
  BY DEF IsStdin
<1>2. NRead(ls, ls) = 0
  BY <1>1 DEF NRead
<1>3. Input(ls, ls)
  BY <1>1, <1>2 DEF Input
<1>4. UpTo(ls, 0) = {} /\ Cardinality(UpTo(ls, 0)) = 0 /\ \A i \in BadOf(ls) : i > 0
  <2>1. UpTo(ls, 0) = {} /\ \A i \in BadOf(ls) : i > 0
    BY <1>1 DEF UpTo, TargetsOf, BadOf
  <2> QED
    BY <2>1, FS_EmptySet
<1> DEFINE nil == <<>>
<1>5. nil \in Seq(Items(ls)) /\ nil \in Seq(DoneTargets(ls)) /\ Len(nil) = 0
  OBVIOUS
<1>6. ~LastBad(nil) /\ Ahead(nil) = 0
  <2>1. ~LastBad(nil)
    BY DEF LastBad
  <2> QED
    BY <1>5, <2>1 DEF Ahead
<1>7. k.done = nil
  OBVIOUS
<1> HIDE DEF nil
<1>8. Channel(ls, 0, nil, r)
  <2>1. IsReader(r) /\ r.st = "reading" /\ r.failed = FALSE /\ r.emitted = FALSE
    BY DEF IsReader
  <2> QED
    BY <1>4, <1>5, <2>1 DEF Channel
<1>9. Taken(k) = 0
  BY <1>5, <1>7 DEF Taken, Waits
<1>10. Ordered(ls, 0, nil, k)
  BY <1>4, <1>6, <1>9 DEF Ordered
<1>11. Works(ls, k)
  BY <1>5, <1>7 DEF Works, Waits
<1> QED
  BY <1>2, <1>3, <1>8, <1>10, <1>11 DEF nil

\* A command starts.
LEMMA StartOrder ==
  ASSUME TargetsAssumption, OrderInv, MetersInv', NEW c \in Clients, NEW op \in Ops,
         NEW options \in Given, StartCommand(c, op, options)
  PROVE  OrderInv'
<1> DEFINE native == options.type = "none" /\ ~serving
           from == IF native THEN "stdin" ELSE "options"
           strict == options.strict
           k == NewCmd(op, from, strict)
           step == IF native THEN CommandStep(Put(k, "next"), meters)
                   ELSE IF options.type = "target" THEN BeginTarget(k, options)
                   ELSE CommandStep(Exits(k, 2), meters)
           k2 == step.command
<1>1. cmd[c].st = "none" /\ cmd' = [cmd EXCEPT ![c] = k2] /\ (serving \/ c = Cli)
  BY DEF StartCommand, Becomes, Put, NewCmd
<1>2. stdin' = stdin /\ queue' = queue /\ lines' = lines
      /\ reader' = IF native THEN [reader EXCEPT !.st = "reading"] ELSE reader
  BY DEF StartCommand
<1>3. Cli \in Clients
  BY DEF TargetsAssumption
<1>4. Shaped(k) /\ k.op = op /\ k.st = "none" /\ k.from = from /\ k.done = <<>> /\ k.exit = None
  <2> HIDE DEF from, strict
  <2> QED
    BY NewCommand
<1>5. cmd'[c] = k2
  BY <1>1 DEF OrderInv, MetersInv
<1> HIDE DEF k
<1>6. CASE native
  <2>1. k2 = Put(k, "next")
    BY <1>6 DEF CommandStep
  <2>2. k2.st = "next" /\ k2.from = "stdin" /\ k2.done = <<>> /\ k2.exit = None
    BY <1>4, <1>6, <2>1, StateParts
  <2>3. c = Cli /\ k2.st # "none"
    BY <1>1, <1>6, <2>2
  <2>4. stdin = lines /\ queue = <<>> /\ IsStdin(lines)
        /\ reader = [st |-> "none", emitted |-> FALSE, failed |-> FALSE]
    BY <1>1, <2>3 DEF OrderInv, Fresh
  <2>5. reader' = [st |-> "reading", emitted |-> FALSE, failed |-> FALSE]
    BY <1>2, <1>6, <2>4
  <2> HIDE DEF step
  <2>6. /\ Input(lines, lines) /\ NRead(lines, lines) = 0
        /\ Channel(lines, 0, <<>>, reader') /\ Ordered(lines, 0, <<>>, k2) /\ Works(lines, k2)
    BY <2>2, <2>4, <2>5, FirstLine
  <2>7. AtWork'
    BY <1>2, <1>5, <2>2, <2>3, <2>4, <2>6 DEF AtWork
  <2> QED
    BY <1>1, <1>2, <1>3, <2>2, <2>3, <2>7, OwnOrder
<1>7. CASE ~native
  <2>1. k2.from = "options" /\ k2.st \notin {"none", "next"}
    <3>1. CASE options.type = "target"
      <4>1. Begun(k, options, step)
        BY <1>4, <1>7, <3>1, Begins
      <4>2. k2.from = k.from /\ k2.st \in {"ended", "calling", "streaming"}
        BY <4>1 DEF Begun
      <4> QED
        BY <1>4, <1>7, <4>2
    <3>2. CASE options.type # "target"
      <4>1. k2 = Exits(k, 2)
        BY <1>7, <3>2 DEF CommandStep
      <4>2. k2.from = k.from /\ k2.st = "ended"
        BY <1>4, <4>1, ExitParts
      <4> QED
        BY <1>4, <1>7, <4>2
    <3> QED
      BY <3>1, <3>2
  <2>2. reader' = reader
    BY <1>2, <1>7
  <2> HIDE DEF step
  <2>3. CASE c = Cli
    BY <1>1, <1>2, <1>3, <2>1, <2>3, OwnOrder
  <2>4. CASE c # Cli
    BY <1>1, <1>2, <1>3, <2>1, <2>2, <2>4, OtherOrder
  <2> QED
    BY <2>3, <2>4
<1> QED
  BY <1>6, <1>7

\* Every step keeps the order.
LEMMA OrderStep ==
  ASSUME TargetsAssumption, OrderInv, [TargetsNext]_targetVars
  PROVE  OrderInv'
<1>1. MetersInv /\ MetersInv'
  BY MetersStep DEF OrderInv
<1>2. ASSUME NEW c \in Clients, Aside(c), \E k : Moves(c, k) /\ Proceeds(cmd[c], k)
      PROVE  OrderInv'
  BY <1>1, <1>2, WorkOrder
<1>3. CASE UNCHANGED targetVars
  <2>1. /\ cmd' = cmd /\ stdin' = stdin /\ queue' = queue /\ lines' = lines /\ reader' = reader
    BY <1>3 DEF targetVars
  <2> QED
    BY <1>1, <2>1 DEF OrderInv, Fresh, AtWork, Stopped
<1>4. CASE ReadLine \/ Eof
  BY <1>4, ReadOrder
<1>5. ASSUME NEW c \in Clients, NEW op \in {"fetch", "follow"}, NEW options \in Given,
             StartCommand(c, op, options)
      PROVE  OrderInv'
  BY <1>1, <1>5, StartOrder DEF Ops
<1>6. ASSUME NEW c \in Clients, TakeTarget(c) \/ NoMoreTargets(c)
      PROVE  OrderInv'
  BY <1>1, <1>6, TakeOrder
<1>7. ASSUME NEW c \in Clients, NEW answer \in {"record", "large", "invalid"} \cup Codes,
             FetchAnswers(c, answer)
      PROVE  OrderInv'
  BY <1>1, <1>2, <1>7, CallMoves, AsideHolds
<1>8. ASSUME NEW c \in Clients,
             \/ FollowEnds(c)
             \/ \E through \in BOOLEAN : FollowRecord(c, through)
             \/ \E code \in Codes : FollowFails(c, code)
      PROVE  OrderInv'
  BY <1>1, <1>2, <1>8, StreamMoves, AsideHolds
<1>9. ASSUME NEW c \in Clients, InterruptCommand(c)
      PROVE  OrderInv'
  BY <1>1, <1>2, <1>9, InterruptMoves, AsideHolds
<1> QED
  BY <1>3, <1>4, <1>5, <1>6, <1>7, <1>8, <1>9 DEF TargetsNext

\* The invariant implies what the run checks.
LEMMA OrderSafe ==
  ASSUME TargetsAssumption, OrderInv
  PROVE  StdinInOrder
<1> DEFINE k == cmd[Cli]
           done == k.done
           failures == {i \in DOMAIN done : done[i].outcome = "failed"}
<1> SUFFICES ASSUME k.from = "stdin"
             PROVE  /\ Len(done) <= Cardinality(TargetLines)
                    /\ \A i \in TargetLines : Place(i) <= Len(done) => done[Place(i)].target = lines[i]
                    /\ failures \subseteq {Len(done)} /\ (failures # {} <=> k.exit \in {1, 3})
                    /\ k.exit \in {0, 2} => Len(done) = Cardinality(TargetLines)
                    /\ k.exit = 0 => TargetLines # {} /\ BadLines = {}
                    /\ k.exit = 2 => TargetLines = {} \/ BadLines # {}
                    /\ k.st = "next" /\ queue = <<>> => reader.st \in {"reading", "ended"}
                    /\ Len(queue) <= 2
  BY DEF StdinInOrder
<1>1. IsStdin(lines) /\ (AtWork \/ Stopped)
  BY DEF OrderInv
<1>2. DOMAIN lines = 1..Len(lines)
  BY <1>1 DEF IsStdin
<1>3. BadLines = BadOf(lines) /\ TargetLines = TargetsOf(lines)
  BY <1>2 DEF BadLines, BadOf, TargetLines, TargetsOf
<1>4. \A i : Place(i) = PlaceOf(lines, i)
  BY <1>3 DEF Place, PlaceOf, UpTo
<1>5. /\ Fine(lines, done, k.exit) /\ Len(queue) <= 2
      /\ k.st = "next" /\ queue = <<>> => reader.st \in {"reading", "ended"}
  <2>1. CASE AtWork
    <3> DEFINE n == NRead(lines, stdin)
    <3>1. /\ n \in Nat /\ Channel(lines, n, queue, reader)
          /\ Ordered(lines, n, queue, k) /\ Works(lines, k)
      BY <1>1, <2>1, InputStep DEF AtWork
    <3> HIDE DEF n
    <3>2. queue \in Seq(Items(lines)) /\ Len(queue) \in Nat /\ (Len(queue) <= 1 \/ Len(queue) = 2)
      <4>1. queue \in Seq(Items(lines)) /\ (Len(queue) <= 1 \/ Len(queue) = 2)
        BY <3>1 DEF Channel
      <4> QED
        BY <4>1, LenProperties
    <3>3. Fine(lines, done, k.exit)
      BY <1>1, <3>1, <3>2, WorksIsFine
    <3>4. queue = <<>> => reader.st \in {"reading", "ended"}
      <4>1. queue = <<>> => Len(queue) # 2
        BY <3>2, EmptySeq
      <4> QED
        BY <3>1, <4>1 DEF Channel
    <3> QED
      BY <3>2, <3>3, <3>4
  <2>2. CASE Stopped
    BY <2>2 DEF Stopped
  <2> QED
    BY <1>1, <2>1, <2>2
<1>6. failures = {i \in 1..Len(done) : done[i].outcome = "failed"}
  BY <1>5 DEF Fine
<1> HIDE DEF failures
<1> QED
  BY <1>3, <1>4, <1>5, <1>6 DEF Fine

\* A command that reads stdin works through its targets in their order, whatever the reader
\* thread is ahead, stops where it must, exits as it must, and never waits for a reader that
\* waits for it (main.rs, read_stdin_targets; commands/search.rs).
THEOREM TargetsInOrder == TargetsSpec => []StdinInOrder
<1>1. TargetsInit => OrderInv
  BY TargetsAssumption, OrderStart
<1>2. OrderInv /\ [TargetsNext]_targetVars => OrderInv'
  BY TargetsAssumption, OrderStep
<1>3. OrderInv => StdinInOrder
  BY TargetsAssumption, OrderSafe
<1> QED
  BY <1>1, <1>2, <1>3, PTL DEF TargetsSpec
=============================================================================
