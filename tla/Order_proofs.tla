---------------------------- MODULE Order_proofs ----------------------------
(***************************************************************************)
(* Proof that the search engine delivers the reference order: for any      *)
(* sources and scripts, any channel size, any number of slots and any      *)
(* timing of the upstreams.                                                *)
(***************************************************************************)
EXTENDS SearchOrder, Engine_proofs, WellFoundedInduction

-----------------------------------------------------------------------------
(* What a search in progress has to do with the merge *)

\* The worker of a source has handed over the accepted items before the one that
\* is next, and has stopped at the cut if it was refused one.
WorkRow(w, script) ==
  LET items == ItemsOf(script)
      phase == IF w.pc = "final" THEN script.data ELSE script.chunks
  IN  /\ w.pc = "final" => script.chunks = <<>> /\ script.outcome = "ok"
      /\ ~w.err => w.next = w.count + 1 /\ w.count < Cut(items) /\ w.count <= Len(phase)
      /\ w.err => w.next > Len(phase) /\ w.count = Cut(items) /\ w.count <= Len(items)

\* How many events a source has sent so far.
SentBy(w, events) ==
  IF w.pc \in {"closing", "done"} THEN Len(events) ELSE w.count - Refusals(w)

\* What is in its channel are the events that follow the ones already merged.
OrderRow(w, q, t, script, events) ==
  /\ w.pc \in {"new", "call", "io", "final"} => WorkRow(w, script)
  /\ t + Len(q) = SentBy(w, events)
  /\ \A i \in 1..Len(q) : q[i] = events[t + i]

\* Nothing has been asked yet.
Unasked(m) ==
  /\ m = MergeStart(Asked)
  /\ running = <<>> /\ driver.cursor = 1
  /\ pending \in {Order, Asked} /\ (initial = <<>> => pending = Asked)

\* The sources that run, and those that wait, are those of the merge.
Asking(m) ==
  /\ initial = <<>>
  /\ running = m.active /\ pending = m.waiting
  /\ running # <<>> => driver.cursor = m.turn

\* The row of s, of which t events are merged.
Row(s, t) ==
  OrderRow(worker[s], queue[s], t, request.script[s], EventsOf(s, request.script[s]))

Tracks(m) ==
  /\ out \o initial = Diagnostics \o m.output
  /\ At("ended") => IsComplete
  /\ ~At("dropped") =>
       /\ seen = m.keys
       /\ Unasked(m) \/ Asking(m)
       /\ \A s \in ToSet(running) : Row(s, m.taken[s])

\* Whatever has happened is the merge after some number of steps.
OrderInv == \E k \in Nat : \E m \in {Whole[k]} : Tracks(m)

\* The merge itself: the slots are full while sources wait, and a source that waits has
\* given nothing.
Cells(m) ==
  {x \in ToSet(Order) \X (0..(MaxRecords + 1)) :
     IF x[2] = 0 THEN x[1] \notin ToSet(m.active) \cup ToSet(m.waiting)
     ELSE x[2] <= m.taken[x[1]]}

MergeOK(events, m) ==
  /\ m.active \in Seq(Sources) /\ m.waiting \in Seq(Sources)
  /\ m.turn \in Nat \ {0} /\ m.taken \in [Sources -> Nat]
  /\ m.output \in Seq(Event)
  /\ Distinct(m.active) /\ Distinct(m.waiting)
  /\ ToSet(m.active) \subseteq ToSet(Order) /\ ToSet(m.waiting) \subseteq ToSet(Order)
  /\ ToSet(m.active) \cap ToSet(m.waiting) = {}
  /\ Len(m.active) <= MaxActive
  /\ m.waiting # <<>> => Len(m.active) = MaxActive
  /\ m.active # <<>> => m.turn <= Len(m.active)
  /\ \A s \in Sources : m.taken[s] <= Len(events[s])
  /\ \A s \in ToSet(m.waiting) : m.taken[s] = 0
-----------------------------------------------------------------------------
(* The merge, step after step *)

\* A set of natural numbers that has 0, and the successor of each member, has them all.
LEMMA AllNumbers ==
  ASSUME NEW T, 0 \in T, \A n \in Nat : n \in T => n + 1 \in T
  PROVE  \A n \in Nat : n \in T
<1> DEFINE R == OpToRel(<, Nat)
           missed == {n \in Nat : n \notin T}
<1>1. \A x, y \in Nat : <<y, x>> \in R <=> y < x
  BY DEF OpToRel
<1>2. IsWellFoundedOn(R, Nat)
  BY NatLessThanWellFounded
<1> HIDE DEF R
<1>3. ASSUME missed # {} PROVE FALSE
  <2>1. PICK x \in missed : \A y \in missed : ~(<<y, x>> \in R)
    BY <1>2, <1>3, WFMin
  <2>2. x \in Nat /\ x # 0
    OBVIOUS
  <2>3. x - 1 \in Nat /\ x - 1 < x /\ (x - 1) + 1 = x
    BY <2>2
  <2>4. x - 1 \in T
    BY <1>1, <2>1, <2>2, <2>3
  <2> QED BY <2>1, <2>3, <2>4
<1> QED BY <1>3

\* The first n steps of a merge that starts in m.
IsRun(f, n, events, strict, m) ==
  f = [i \in 0..n |-> IF i = 0 THEN m ELSE MergeNext(events, strict, f[i - 1])]

\* Two runs agree as far as both go.
LEMMA RunsAgree ==
  ASSUME NEW events, NEW strict, NEW m, NEW n \in Nat, NEW k \in Nat, n <= k,
         NEW f, NEW g, IsRun(f, n, events, strict, m), IsRun(g, k, events, strict, m)
  PROVE  \A i \in 0..n : f[i] = g[i]
<1> DEFINE T == {i \in Nat : i <= n => f[i] = g[i]}
<1>1. /\ \A i \in 0..n : f[i] = IF i = 0 THEN m ELSE MergeNext(events, strict, f[i - 1])
      /\ \A i \in 0..k : g[i] = IF i = 0 THEN m ELSE MergeNext(events, strict, g[i - 1])
  BY DEF IsRun
<1>2. 0 \in T
  BY <1>1
<1>3. ASSUME NEW i \in Nat, i \in T PROVE i + 1 \in T
  <2>1. CASE i + 1 <= n
    <3>1. i + 1 \in 0..n /\ i + 1 \in 0..k /\ i + 1 # 0 /\ (i + 1) - 1 = i /\ f[i] = g[i]
      BY <1>3, <2>1
    <3>2. f[i + 1] = MergeNext(events, strict, f[i]) /\ g[i + 1] = MergeNext(events, strict, g[i])
      BY <1>1, <3>1
    <3> QED BY <3>1, <3>2
  <2> QED BY <2>1
<1> HIDE DEF T
<1>4. \A i \in Nat : i \in T
  BY <1>2, <1>3, AllNumbers
<1> QED BY <1>4 DEF T

\* There is a run of every length.
LEMMA RunsExist ==
  ASSUME NEW events, NEW strict, NEW m
  PROVE  \A n \in Nat : \E f : IsRun(f, n, events, strict, m)
<1> DEFINE T == {n \in Nat : \E f : IsRun(f, n, events, strict, m)}
<1>1. 0 \in T
  <2> DEFINE f == [i \in 0..0 |-> m]
  <2>1. \A i \in 0..0 : i = 0
    OBVIOUS
  <2>2. f = [i \in 0..0 |-> IF i = 0 THEN m ELSE MergeNext(events, strict, f[i - 1])]
    BY <2>1
  <2>3. IsRun(f, 0, events, strict, m)
    BY <2>2 DEF IsRun
  <2> QED BY <2>3
<1>2. ASSUME NEW n \in Nat, n \in T PROVE n + 1 \in T
  <2>1. PICK f : IsRun(f, n, events, strict, m)
    BY <1>2
  <2> DEFINE g == [i \in 0..(n + 1) |-> IF i = 0 THEN m ELSE MergeNext(events, strict, f[i - 1])]
  <2>2. \A i \in 0..n : f[i] = IF i = 0 THEN m ELSE MergeNext(events, strict, f[i - 1])
    BY <2>1 DEF IsRun
  <2>3. ASSUME NEW i \in 0..(n + 1), i # 0 PROVE g[i - 1] = f[i - 1]
    <3>1. i - 1 \in 0..n /\ i - 1 \in 0..(n + 1)
      BY <2>3
    <3> QED BY <2>2, <3>1
  <2>4. g = [i \in 0..(n + 1) |-> IF i = 0 THEN m ELSE MergeNext(events, strict, g[i - 1])]
    BY <2>3
  <2> HIDE DEF g
  <2>5. IsRun(g, n + 1, events, strict, m)
    BY <2>4 DEF IsRun
  <2> QED BY <2>5
<1> HIDE DEF T
<1>3. \A n \in Nat : n \in T
  BY <1>1, <1>2, AllNumbers
<1> QED BY <1>3 DEF T

\* The recursive function is what its definition says.
LEMMA MergeIs ==
  ASSUME NEW events, NEW strict, NEW asked
  PROVE  /\ Merge(events, strict, asked)[0] = MergeStart(asked)
         /\ \A n \in Nat : Merge(events, strict, asked)[n + 1]
                             = MergeNext(events, strict, Merge(events, strict, asked)[n])
<1> DEFINE m == MergeStart(asked)
           Good(M) == M = [n \in Nat |-> IF n = 0 THEN m ELSE MergeNext(events, strict, M[n - 1])]
           run == [n \in Nat |-> CHOOSE f : IsRun(f, n, events, strict, m)]
           whole == [n \in Nat |-> run[n][n]]
<1> HIDE DEF m
<1>1. \A n \in Nat : IsRun(run[n], n, events, strict, m)
  BY RunsExist
<1> HIDE DEF run
<1>2. ASSUME NEW n \in Nat
      PROVE  whole[n] = IF n = 0 THEN m ELSE MergeNext(events, strict, whole[n - 1])
  <2>1. \A i \in 0..n : run[n][i] = IF i = 0 THEN m ELSE MergeNext(events, strict, run[n][i - 1])
    BY <1>1 DEF IsRun
  <2>2. whole[n] = run[n][n] /\ n \in 0..n
    OBVIOUS
  <2>3. ASSUME n # 0 PROVE whole[n - 1] = run[n][n - 1]
    <3>1. n - 1 \in Nat /\ n - 1 <= n /\ n - 1 \in 0..(n - 1)
      BY <2>3
    <3>2. whole[n - 1] = run[n - 1][n - 1]
      BY <3>1
    <3> DEFINE k == n - 1
               f == run[k]
               g == run[n]
    <3>3. k \in Nat /\ k <= n /\ IsRun(f, k, events, strict, m) /\ IsRun(g, n, events, strict, m)
      BY <1>1, <3>1
    <3> HIDE DEF k, f, g
    <3>4. \A i \in 0..k : f[i] = g[i]
      BY <3>3, RunsAgree
    <3>5. k \in 0..k
      BY <3>3
    <3>6. run[k][k] = run[n][k]
      BY <3>4, <3>5 DEF f, g
    <3> QED BY <3>2, <3>6 DEF k
  <2> HIDE DEF whole
  <2> QED BY <2>1, <2>2, <2>3
<1>3. Good(whole)
  BY <1>2
<1> HIDE DEF whole
<1>4. Merge(events, strict, asked) = CHOOSE M : Good(M)
  BY DEF Merge, m
<1>5. Good(Merge(events, strict, asked))
  BY <1>3, <1>4
<1>6. \A n \in Nat : n + 1 \in Nat /\ n + 1 # 0 /\ (n + 1) - 1 = n
  OBVIOUS
<1> DEFINE M == Merge(events, strict, asked)
<1> HIDE DEF M
<1>7. M = [n \in Nat |-> IF n = 0 THEN m ELSE MergeNext(events, strict, M[n - 1])]
  BY <1>5 DEF M
<1>8. M[0] = m /\ \A n \in Nat : M[n + 1] = MergeNext(events, strict, M[n])
  BY <1>6, <1>7
<1> QED BY <1>8 DEF M, m

-----------------------------------------------------------------------------
(* Lists in which nothing occurs twice *)

\* Taking one element out.
LEMMA WithoutOne ==
  ASSUME NEW S, NEW q \in Seq(S), Distinct(q), NEW n \in 1..Len(q)
  PROVE  /\ RemoveAt(q, n) \in Seq(S) /\ Len(RemoveAt(q, n)) = Len(q) - 1
         /\ Distinct(RemoveAt(q, n)) /\ ToSet(RemoveAt(q, n)) = ToSet(q) \ {q[n]}
<1> DEFINE rest == RemoveAt(q, n)
<1>1. /\ rest \in Seq(S) /\ Len(rest) = Len(q) - 1
      /\ \A i \in 1..(Len(q) - 1) : rest[i] = IF i < n THEN q[i] ELSE q[i + 1]
  BY RemoveFacts
<1> HIDE DEF rest
<1>2. Len(q) \in Nat /\ n \in Nat /\ 1 <= n /\ n <= Len(q)
  BY Elements
<1>3. /\ ToSet(rest) = {rest[i] : i \in 1..Len(rest)} /\ ToSet(q) = {q[i] : i \in 1..Len(q)}
  BY <1>1, Elements
<1>4. \A i \in 1..Len(rest) : \E j \in 1..Len(q) :
        rest[i] = q[j] /\ (j = IF i < n THEN i ELSE i + 1)
  <2> SUFFICES ASSUME NEW i \in 1..Len(rest)
               PROVE  \E j \in 1..Len(q) : rest[i] = q[j] /\ (j = IF i < n THEN i ELSE i + 1)
    OBVIOUS
  <2>1. i \in 1..Len(q) /\ i + 1 \in 1..Len(q) /\ i \in 1..(Len(q) - 1)
    BY <1>1, <1>2
  <2> QED BY <1>1, <2>1
<1>5. \A j \in 1..Len(q) : j # n => \E i \in 1..Len(rest) : rest[i] = q[j]
  <2> SUFFICES ASSUME NEW j \in 1..Len(q), j # n
               PROVE  \E i \in 1..Len(rest) : rest[i] = q[j]
    OBVIOUS
  <2>1. CASE j < n
    <3>1. j \in 1..Len(rest) /\ j \in 1..(Len(q) - 1)
      BY <1>1, <1>2, <2>1
    <3> QED BY <1>1, <2>1, <3>1
  <2>2. CASE ~(j < n)
    <3>1. /\ j - 1 \in 1..Len(rest) /\ j - 1 \in 1..(Len(q) - 1)
          /\ ~(j - 1 < n) /\ (j - 1) + 1 = j
      BY <1>1, <1>2, <2>2
    <3>2. rest[j - 1] = q[j]
      BY <1>1, <3>1
    <3> QED BY <3>1, <3>2
  <2> QED BY <2>1, <2>2
<1>6. \A i, j \in 1..Len(q) : q[i] = q[j] => i = j
  BY DEF Distinct
<1>7. Distinct(rest)
  <2> SUFFICES ASSUME NEW i \in 1..Len(rest), NEW j \in 1..Len(rest), rest[i] = rest[j]
               PROVE  i = j
    BY DEF Distinct
  <2>1. PICK k \in 1..Len(q) : rest[i] = q[k] /\ (k = IF i < n THEN i ELSE i + 1)
    BY <1>4
  <2>2. PICK l \in 1..Len(q) : rest[j] = q[l] /\ (l = IF j < n THEN j ELSE j + 1)
    BY <1>4
  <2>3. k = l
    BY <1>6, <2>1, <2>2
  <2> QED BY <1>2, <2>1, <2>2, <2>3
<1>8. \A i \in 1..Len(rest) : rest[i] # q[n]
  <2> SUFFICES ASSUME NEW i \in 1..Len(rest), rest[i] = q[n] PROVE FALSE
    OBVIOUS
  <2>1. PICK k \in 1..Len(q) : rest[i] = q[k] /\ (k = IF i < n THEN i ELSE i + 1)
    BY <1>4
  <2>2. k = n
    BY <1>6, <2>1
  <2> QED BY <1>2, <2>1, <2>2
<1>9. ToSet(rest) \subseteq ToSet(q) \ {q[n]}
  BY <1>3, <1>4, <1>8
<1>10. ToSet(q) \ {q[n]} \subseteq ToSet(rest)
  BY <1>3, <1>5
<1> QED BY <1>1, <1>7, <1>9, <1>10 DEF rest

\* One list after another that shares nothing with it.
LEMMA Joined ==
  ASSUME NEW S, NEW q \in Seq(S), NEW r \in Seq(S), Distinct(q), Distinct(r),
         ToSet(q) \cap ToSet(r) = {}
  PROVE  /\ q \o r \in Seq(S) /\ Len(q \o r) = Len(q) + Len(r)
         /\ Distinct(q \o r) /\ ToSet(q \o r) = ToSet(q) \cup ToSet(r)
<1> DEFINE l == q \o r
<1>1. /\ l \in Seq(S) /\ Len(l) = Len(q) + Len(r)
      /\ \A i \in 1..(Len(q) + Len(r)) : l[i] = IF i <= Len(q) THEN q[i] ELSE r[i - Len(q)]
  BY ConcatProperties, Zenon
<1> HIDE DEF l
<1>2. /\ ToSet(l) = {l[i] : i \in 1..Len(l)} /\ Len(q) \in Nat /\ Len(r) \in Nat
      /\ ToSet(q) = {q[i] : i \in 1..Len(q)} /\ ToSet(r) = {r[i] : i \in 1..Len(r)}
  BY <1>1, Elements
<1>3. \A i \in 1..Len(q) : i \in 1..Len(l) /\ l[i] = q[i]
  BY <1>1, <1>2
<1>4. \A i \in 1..Len(r) : i + Len(q) \in 1..Len(l) /\ l[i + Len(q)] = r[i]
  <2> SUFFICES ASSUME NEW i \in 1..Len(r)
               PROVE  i + Len(q) \in 1..Len(l) /\ l[i + Len(q)] = r[i]
    OBVIOUS
  <2>1. /\ i + Len(q) \in 1..(Len(q) + Len(r)) /\ ~(i + Len(q) <= Len(q))
        /\ (i + Len(q)) - Len(q) = i
    BY <1>2
  <2> QED BY <1>1, <2>1
<1>5. \A i \in 1..Len(l) : \/ i \in 1..Len(q) /\ l[i] = q[i]
                           \/ i - Len(q) \in 1..Len(r) /\ l[i] = r[i - Len(q)]
  BY <1>1, <1>2
<1>6. ToSet(l) = ToSet(q) \cup ToSet(r)
  <2>1. ToSet(l) \subseteq ToSet(q) \cup ToSet(r)
    BY <1>2, <1>5
  <2>2. ToSet(q) \subseteq ToSet(l)
    BY <1>2, <1>3
  <2>3. ToSet(r) \subseteq ToSet(l)
    BY <1>2, <1>4
  <2> QED BY <2>1, <2>2, <2>3
<1>7. Distinct(l)
  <2> SUFFICES ASSUME NEW i \in 1..Len(l), NEW j \in 1..Len(l), l[i] = l[j]
               PROVE  i = j
    BY DEF Distinct
  <2>0. \A x \in 1..Len(q), y \in 1..Len(r) : q[x] # r[y]
    <3> SUFFICES ASSUME NEW x \in 1..Len(q), NEW y \in 1..Len(r), q[x] = r[y] PROVE FALSE
      OBVIOUS
    <3>1. q[x] \in ToSet(q) /\ r[y] \in ToSet(r)
      BY <1>2
    <3> QED BY <3>1
  <2>1. /\ \A x, y \in 1..Len(q) : q[x] = q[y] => x = y
        /\ \A x, y \in 1..Len(r) : r[x] = r[y] => x = y
        /\ \A x \in 1..Len(q), y \in 1..Len(r) : q[x] # r[y]
    BY <2>0 DEF Distinct
  <2>2. CASE i \in 1..Len(q) /\ l[i] = q[i] /\ j \in 1..Len(q) /\ l[j] = q[j]
    BY <2>1, <2>2
  <2>3. CASE i - Len(q) \in 1..Len(r) /\ l[i] = r[i - Len(q)]
             /\ j - Len(q) \in 1..Len(r) /\ l[j] = r[j - Len(q)]
    <3>1. i - Len(q) = j - Len(q)
      BY <2>1, <2>3
    <3> QED BY <1>2, <3>1
  <2> QED BY <1>5, <2>1, <2>2, <2>3
<1> QED BY <1>1, <1>6, <1>7 DEF l

\* A list cut in two.
LEMMA CutInTwo ==
  ASSUME NEW S, NEW q \in Seq(S), Distinct(q), NEW n \in Nat
  PROVE  /\ Distinct(FirstOf(q, n)) /\ Distinct(RestOf(q, n))
         /\ ToSet(FirstOf(q, n)) \cup ToSet(RestOf(q, n)) = ToSet(q)
         /\ ToSet(FirstOf(q, n)) \cap ToSet(RestOf(q, n)) = {}
<1> DEFINE f == FirstOf(q, n)
           r == RestOf(q, n)
<1>1. /\ f \in Seq(S) /\ r \in Seq(S)
      /\ Len(f) = IF n < Len(q) THEN n ELSE Len(q)
      /\ \A i \in 1..Len(f) : f[i] = q[i]
      /\ Len(r) = IF n < Len(q) THEN Len(q) - n ELSE 0
      /\ \A i \in 1..Len(r) : r[i] = q[i + n]
  BY SplitFacts
<1> HIDE DEF f, r
<1>2. /\ Len(q) \in Nat /\ ToSet(q) = {q[i] : i \in 1..Len(q)}
      /\ ToSet(f) = {f[i] : i \in 1..Len(f)} /\ ToSet(r) = {r[i] : i \in 1..Len(r)}
  BY <1>1, Elements
<1>3. \A i, j \in 1..Len(q) : q[i] = q[j] => i = j
  BY DEF Distinct
<1>4. \A i \in 1..Len(f) : i \in 1..Len(q) /\ i <= n
  BY <1>1, <1>2
<1>5. \A i \in 1..Len(r) : i + n \in 1..Len(q)
  BY <1>1, <1>2
<1>6. \A i \in 1..Len(q) : i \in 1..Len(f) \/ (i - n \in 1..Len(r) /\ (i - n) + n = i)
  BY <1>1, <1>2
<1>7. Distinct(f)
  BY <1>1, <1>3, <1>4 DEF Distinct
<1>8. Distinct(r)
  <2> SUFFICES ASSUME NEW i \in 1..Len(r), NEW j \in 1..Len(r), r[i] = r[j] PROVE i = j
    BY DEF Distinct
  <2>1. i + n = j + n
    BY <1>1, <1>3, <1>5
  <2>2. i \in Nat /\ j \in Nat
    OBVIOUS
  <2> QED BY <2>1, <2>2
<1>9. ToSet(f) \subseteq ToSet(q) /\ ToSet(r) \subseteq ToSet(q)
  BY <1>1, <1>2, <1>4, <1>5
<1>10. ToSet(q) \subseteq ToSet(f) \cup ToSet(r)
  <2> SUFFICES ASSUME NEW i \in 1..Len(q) PROVE q[i] \in ToSet(f) \cup ToSet(r)
    BY <1>2
  <2>1. CASE i \in 1..Len(f)
    BY <1>1, <1>2, <2>1
  <2>2. CASE i - n \in 1..Len(r) /\ (i - n) + n = i
    BY <1>1, <1>2, <2>2
  <2> QED BY <1>6, <2>1, <2>2
<1>11. ToSet(f) \cap ToSet(r) = {}
  <2> SUFFICES ASSUME NEW i \in 1..Len(f), NEW j \in 1..Len(r), f[i] = r[j] PROVE FALSE
    BY <1>2
  <2>1. i = j + n /\ i <= n /\ i \in Nat /\ j \in Nat \ {0}
    BY <1>1, <1>3, <1>4, <1>5
  <2> QED BY <2>1
<1> QED BY <1>7, <1>8, <1>9, <1>10, <1>11 DEF f, r

-----------------------------------------------------------------------------
(* One step of the merge *)

\* What the sources have to say, each with at most one event over the limit.
Heard(events) ==
  /\ events \in [Sources -> Seq(Event)]
  /\ \A s \in Sources : Len(events[s]) <= MaxRecords + 1

\* The source whose turn it is, and its next event.
Turn(m) == m.active[m.turn]
Item(events, m) == events[Turn(m)][m.taken[Turn(m)] + 1]

\* The source whose turn it is has a slot.
LEMMA TurnFacts ==
  ASSUME NEW events, NEW m, Heard(events), MergeOK(events, m), m.active # <<>>
  PROVE  /\ m.turn \in 1..Len(m.active) /\ Len(m.active) \in Nat \ {0}
         /\ Turn(m) \in Sources /\ Turn(m) \in ToSet(m.active) /\ Turn(m) \in ToSet(Order)
         /\ m.taken[Turn(m)] \in Nat /\ events[Turn(m)] \in Seq(Event)
         /\ Len(events[Turn(m)]) \in Nat /\ Len(events[Turn(m)]) <= MaxRecords + 1
         /\ m.taken[Turn(m)] <= Len(events[Turn(m)])
<1>1. /\ m.active \in Seq(Sources) /\ m.turn \in Nat \ {0} /\ m.turn <= Len(m.active)
      /\ m.taken \in [Sources -> Nat] /\ ToSet(m.active) \subseteq ToSet(Order)
      /\ \A s \in Sources : m.taken[s] <= Len(events[s])
  BY DEF MergeOK
<1>2. /\ Len(m.active) \in Nat \ {0} /\ \A i \in 1..Len(m.active) : m.active[i] \in Sources
      /\ \A i \in 1..Len(m.active) : m.active[i] \in ToSet(m.active)
  BY <1>1, Elements
<1>3. m.turn \in 1..Len(m.active)
  BY <1>1, <1>2
<1>4. Turn(m) \in Sources /\ Turn(m) \in ToSet(m.active) /\ Turn(m) \in ToSet(Order)
  BY <1>1, <1>2, <1>3 DEF Turn
<1>5. events[Turn(m)] \in Seq(Event) /\ Len(events[Turn(m)]) <= MaxRecords + 1
  BY <1>4 DEF Heard
<1>6. Len(events[Turn(m)]) \in Nat
  BY <1>5, Elements
<1> QED BY <1>1, <1>2, <1>3, <1>4, <1>5, <1>6

\* What a step leaves of the output, and which cell of the table it fills: the one of
\* an event taken, or the one that says that a source has left.
Extends(m, n) ==
  /\ Len(m.output) <= Len(n.output)
  /\ \A i \in 1..Len(m.output) : n.output[i] = m.output[i]

Fills(m, n) == \E c : c \notin Cells(m) /\ Cells(n) = Cells(m) \cup {c}

\* The slot of the source whose turn it is passes to the first that waits.
Joining(active, waiting, turn) == RemoveAt(active, turn) \o FirstOf(waiting, 1)
NextTurn(active, turn) == IF turn > Len(RemoveAt(active, turn)) THEN 1 ELSE turn

Passes(active, waiting, s, list, others, next) ==
  /\ list \in Seq(Sources) /\ others \in Seq(Sources)
  /\ Distinct(list) /\ Distinct(others) /\ ToSet(list) \cap ToSet(others) = {}
  /\ ToSet(list) \cup ToSet(others) = (ToSet(active) \cup ToSet(waiting)) \ {s}
  /\ ToSet(others) \subseteq ToSet(waiting)
  /\ Len(list) <= MaxActive /\ (others # <<>> => Len(list) = MaxActive)
  /\ next \in Nat \ {0} /\ (list # <<>> => next <= Len(list))

\* The lists stay apart, and the slots full while somebody waits.
LEMMA SlotPasses ==
  ASSUME NEW active \in Seq(Sources), NEW waiting \in Seq(Sources), NEW turn \in 1..Len(active),
         Distinct(active), Distinct(waiting), ToSet(active) \cap ToSet(waiting) = {},
         Len(active) <= MaxActive, waiting # <<>> => Len(active) = MaxActive
  PROVE  Passes(active, waiting, active[turn], Joining(active, waiting, turn),
                RestOf(waiting, 1), NextTurn(active, turn))
<1> DEFINE one == 1
           rest == RemoveAt(active, turn)
           first == FirstOf(waiting, one)
           others == RestOf(waiting, one)
           list == rest \o first
           next == IF turn > Len(rest) THEN 1 ELSE turn
<1>1. /\ rest \in Seq(Sources) /\ Len(rest) = Len(active) - 1
      /\ Distinct(rest) /\ ToSet(rest) = ToSet(active) \ {active[turn]}
  BY WithoutOne
<1>0. one \in Nat
  OBVIOUS
<1> HIDE DEF one
<1>2. /\ first \in Seq(Sources) /\ others \in Seq(Sources)
      /\ Len(first) = (IF one < Len(waiting) THEN one ELSE Len(waiting))
      /\ Len(others) = (IF one < Len(waiting) THEN Len(waiting) - one ELSE 0)
  BY <1>0, SplitFacts
<1>3. /\ Distinct(first) /\ Distinct(others)
      /\ ToSet(first) \cup ToSet(others) = ToSet(waiting)
      /\ ToSet(first) \cap ToSet(others) = {}
  BY <1>0, CutInTwo
<1> HIDE DEF rest, first, others
<1>4. ToSet(rest) \cap ToSet(first) = {}
  BY <1>1, <1>3
<1>5. /\ list \in Seq(Sources) /\ Len(list) = Len(rest) + Len(first)
      /\ Distinct(list) /\ ToSet(list) = ToSet(rest) \cup ToSet(first)
  <2>1. rest \in Seq(Sources) /\ first \in Seq(Sources) /\ Distinct(rest) /\ Distinct(first)
    BY <1>1, <1>2, <1>3
  <2>2. list \in Seq(Sources) /\ Distinct(list)
    BY <1>4, <2>1, Joined
  <2>3. Len(list) = Len(rest) + Len(first)
    BY <1>4, <2>1, Joined
  <2>4. ToSet(list) = ToSet(rest) \cup ToSet(first)
    BY <1>4, <2>1, Joined, SMTT(20)
  <2> QED BY <2>2, <2>3, <2>4
<1> HIDE DEF list
<1>6. /\ Len(waiting) \in Nat /\ Len(list) \in Nat /\ Len(active) \in Nat
      /\ (waiting = <<>> <=> Len(waiting) = 0) /\ (list = <<>> <=> Len(list) = 0)
      /\ (others = <<>> <=> Len(others) = 0)
  BY <1>2, <1>5, Elements
<1>7. turn \in Nat \ {0} /\ turn <= Len(active) /\ MaxActive \in Nat \ {0}
  BY <1>6, EngineAssumption
<1>8. /\ next \in Nat \ {0} /\ (list # <<>> => next <= Len(list))
      /\ Len(list) <= MaxActive /\ (others # <<>> => Len(list) = MaxActive)
  BY <1>1, <1>2, <1>5, <1>6, <1>7, SMTT(20) DEF one
<1> HIDE DEF next
<1>9. active[turn] \in ToSet(active)
  BY Elements
<1>10. /\ ToSet(list) \cap ToSet(others) = {} /\ ToSet(others) \subseteq ToSet(waiting)
       /\ ToSet(list) \cup ToSet(others) = (ToSet(active) \cup ToSet(waiting)) \ {active[turn]}
  BY <1>1, <1>3, <1>5, <1>9
<1>11. Passes(active, waiting, active[turn], list, others, next)
  BY <1>2, <1>3, <1>5, <1>8, <1>10 DEF Passes
<1> QED BY <1>11 DEF Joining, NextTurn, one, rest, first, others, list, next

\* A source that has given everything gives its slot up.
LeftState(m) ==
  MergeState(Joining(m.active, m.waiting, m.turn), NextTurn(m.active, m.turn),
             RestOf(m.waiting, 1), m.taken, m.keys, m.output)

\* What is known of the merge still holds when a source has left.
LEMMA LeaveStep ==
  ASSUME NEW events, NEW m, Heard(events), MergeOK(events, m), m.active # <<>>
  PROVE  MergeOK(events, LeftState(m)) /\ Extends(m, LeftState(m)) /\ Fills(m, LeftState(m))
<1> DEFINE s == Turn(m)
           list == Joining(m.active, m.waiting, m.turn)
           others == RestOf(m.waiting, 1)
           turn == NextTurn(m.active, m.turn)
           n == LeftState(m)
<1>1. /\ m.turn \in 1..Len(m.active) /\ s = m.active[m.turn]
      /\ s \in Sources /\ s \in ToSet(m.active) /\ s \in ToSet(Order)
  BY TurnFacts DEF Turn
<1>2. /\ m.active \in Seq(Sources) /\ m.waiting \in Seq(Sources)
      /\ Distinct(m.active) /\ Distinct(m.waiting) /\ ToSet(m.active) \cap ToSet(m.waiting) = {}
      /\ Len(m.active) <= MaxActive /\ (m.waiting # <<>> => Len(m.active) = MaxActive)
  BY DEF MergeOK
<1>3. /\ m.taken \in [Sources -> Nat] /\ m.output \in Seq(Event)
      /\ ToSet(m.active) \subseteq ToSet(Order) /\ ToSet(m.waiting) \subseteq ToSet(Order)
      /\ \A r \in Sources : m.taken[r] <= Len(events[r])
      /\ \A r \in ToSet(m.waiting) : m.taken[r] = 0
  BY DEF MergeOK
<1>0. Passes(m.active, m.waiting, m.active[m.turn], list, others, turn)
  BY <1>1, <1>2, SlotPasses
<1> HIDE DEF list, others, turn
<1>4. /\ list \in Seq(Sources) /\ others \in Seq(Sources)
      /\ Distinct(list) /\ Distinct(others) /\ ToSet(list) \cap ToSet(others) = {}
      /\ ToSet(list) \cup ToSet(others) = (ToSet(m.active) \cup ToSet(m.waiting)) \ {s}
      /\ ToSet(others) \subseteq ToSet(m.waiting)
      /\ Len(list) <= MaxActive /\ (others # <<>> => Len(list) = MaxActive)
      /\ turn \in Nat \ {0} /\ (list # <<>> => turn <= Len(list))
  BY <1>0, <1>1 DEF Passes
<1>5. /\ n.active = list /\ n.turn = turn /\ n.waiting = others /\ n.taken = m.taken
      /\ n.output = m.output
  BY DEF LeftState, MergeState, list, others, turn
<1> HIDE DEF n, s
<1>6. ToSet(n.active) \cup ToSet(n.waiting) = (ToSet(m.active) \cup ToSet(m.waiting)) \ {s}
  BY <1>4, <1>5
<1>7. MergeOK(events, n)
  <2>1. ToSet(list) \subseteq ToSet(Order) /\ ToSet(others) \subseteq ToSet(Order)
    BY <1>3, <1>4
  <2>2. \A r \in ToSet(others) : m.taken[r] = 0
    BY <1>3, <1>4
  <2> QED BY <1>3, <1>4, <1>5, <2>1, <2>2 DEF MergeOK
<1>8. Extends(m, n)
  <2>1. Len(m.output) \in Nat
    BY <1>3, Elements
  <2> QED BY <1>5, <2>1 DEF Extends
<1>9. Fills(m, n)
  <2> DEFINE c == <<s, 0>>
  <2>1. c \in ToSet(Order) \X (0..(MaxRecords + 1)) /\ c[1] = s /\ c[2] = 0
    BY <1>1, EngineAssumption
  <2>2. c \notin Cells(m)
    BY <1>1, <2>1 DEF Cells
  <2>3. c \in Cells(n)
    BY <1>6, <2>1 DEF Cells
  <2>4. ASSUME NEW x \in ToSet(Order) \X (0..(MaxRecords + 1)), x # c
        PROVE  x \in Cells(n) <=> x \in Cells(m)
    <3>1. x = <<x[1], x[2]>>
      OBVIOUS
    <3>2. x[2] = 0 => x[1] # s
      BY <2>4, <3>1
    <3> HIDE DEF c
    <3> QED BY <1>5, <1>6, <3>2 DEF Cells
  <2> HIDE DEF c
  <2>5. Cells(n) \subseteq ToSet(Order) \X (0..(MaxRecords + 1))
        /\ Cells(m) \subseteq ToSet(Order) \X (0..(MaxRecords + 1))
    BY DEF Cells
  <2>6. Cells(n) = Cells(m) \cup {c}
    BY <2>1, <2>3, <2>4, <2>5
  <2> QED BY <2>2, <2>6 DEF Fills
<1> QED BY <1>7, <1>8, <1>9 DEF n

\* A source gives an event, which is delivered or left out.
Advance(m) == [m.taken EXCEPT ![Turn(m)] = @ + 1]
TakenState(m, keys, output) ==
  MergeState(m.active, (m.turn % Len(m.active)) + 1, m.waiting, Advance(m), keys, output)

\* One more event of that source is taken.
LEMMA AdvanceFacts ==
  ASSUME NEW events, NEW m, Heard(events), MergeOK(events, m), m.active # <<>>,
         m.taken[Turn(m)] # Len(events[Turn(m)])
  PROVE  /\ Advance(m) \in [Sources -> Nat] /\ Advance(m)[Turn(m)] = m.taken[Turn(m)] + 1
         /\ \A r \in Sources : r # Turn(m) => Advance(m)[r] = m.taken[r]
         /\ \A r \in Sources : Advance(m)[r] <= Len(events[r])
         /\ Item(events, m) \in Event
         /\ m.taken[Turn(m)] + 1 \in 1..(MaxRecords + 1)
<1> DEFINE s == Turn(m)
<1>1. /\ s \in Sources /\ m.taken[s] \in Nat /\ events[s] \in Seq(Event)
      /\ Len(events[s]) \in Nat /\ Len(events[s]) <= MaxRecords + 1 /\ m.taken[s] <= Len(events[s])
  BY TurnFacts
<1>2. m.taken \in [Sources -> Nat] /\ \A r \in Sources : m.taken[r] <= Len(events[r])
  BY DEF MergeOK
<1>3. m.taken[s] # Len(events[s]) /\ MaxRecords \in Nat
  BY EngineAssumption
<1>4. Advance(m) = [m.taken EXCEPT ![s] = @ + 1] /\ Item(events, m) = events[s][m.taken[s] + 1]
  BY DEF Advance, Item
<1> HIDE DEF s
<1>5. m.taken[s] + 1 \in 1..Len(events[s]) /\ m.taken[s] + 1 \in 1..(MaxRecords + 1)
  BY <1>1, <1>3
<1>6. events[s][m.taken[s] + 1] \in Event
  BY <1>1, <1>5, Elements
<1>7. /\ Advance(m) \in [Sources -> Nat] /\ Advance(m)[s] = m.taken[s] + 1
      /\ \A r \in Sources : r # s => Advance(m)[r] = m.taken[r]
  BY <1>1, <1>2, <1>4
<1>8. \A r \in Sources : Advance(m)[r] <= Len(events[r])
  BY <1>1, <1>2, <1>5, <1>7
<1> QED BY <1>4, <1>5, <1>6, <1>7, <1>8 DEF s

\* What is known of the merge still holds when an event is taken.
LEMMA TakeStep ==
  ASSUME NEW events, NEW m, Heard(events), MergeOK(events, m), m.active # <<>>,
         m.taken[Turn(m)] # Len(events[Turn(m)]),
         NEW keys, NEW output \in {m.output, Append(m.output, Item(events, m))}
  PROVE  /\ MergeOK(events, TakenState(m, keys, output))
         /\ Extends(m, TakenState(m, keys, output)) /\ Fills(m, TakenState(m, keys, output))
<1> DEFINE s == Turn(m)
           n == TakenState(m, keys, output)
           turn == (m.turn % Len(m.active)) + 1
           taken == Advance(m)
           t == m.taken[s]
<1>1. /\ m.turn \in 1..Len(m.active) /\ Len(m.active) \in Nat \ {0}
      /\ s \in Sources /\ s \in ToSet(m.active) /\ s \in ToSet(Order) /\ t \in Nat
  BY TurnFacts
<1>2. /\ m.active \in Seq(Sources) /\ m.waiting \in Seq(Sources)
      /\ Distinct(m.active) /\ Distinct(m.waiting) /\ ToSet(m.active) \cap ToSet(m.waiting) = {}
      /\ Len(m.active) <= MaxActive /\ (m.waiting # <<>> => Len(m.active) = MaxActive)
      /\ m.output \in Seq(Event)
      /\ ToSet(m.active) \subseteq ToSet(Order) /\ ToSet(m.waiting) \subseteq ToSet(Order)
      /\ \A r \in ToSet(m.waiting) : m.taken[r] = 0
  BY DEF MergeOK
<1>3. /\ taken \in [Sources -> Nat] /\ taken[s] = t + 1
      /\ \A r \in Sources : r # s => taken[r] = m.taken[r]
      /\ \A r \in Sources : taken[r] <= Len(events[r])
      /\ Item(events, m) \in Event /\ t + 1 \in 1..(MaxRecords + 1)
  BY AdvanceFacts
<1>4. /\ n.active = m.active /\ n.turn = turn /\ n.waiting = m.waiting /\ n.taken = taken
      /\ n.output = output
  BY DEF TakenState, MergeState
<1>5. turn \in Nat \ {0} /\ turn <= Len(m.active)
  BY <1>1
<1> HIDE DEF n, s, turn, taken, t
<1>6. ToSet(m.waiting) \subseteq Sources /\ s \notin ToSet(m.waiting)
  BY <1>1, <1>2, Elements
<1>7. \A r \in ToSet(m.waiting) : taken[r] = 0
  BY <1>2, <1>3, <1>6
<1>8. /\ Append(m.output, Item(events, m)) \in Seq(Event)
      /\ Len(Append(m.output, Item(events, m))) = Len(m.output) + 1
      /\ \A i \in 1..Len(m.output) : Append(m.output, Item(events, m))[i] = m.output[i]
  BY <1>2, <1>3, AppendFacts
<1>9. Len(m.output) \in Nat
  BY <1>2, Elements
<1>10. output = m.output \/ output = Append(m.output, Item(events, m))
  OBVIOUS
<1>11. /\ output \in Seq(Event) /\ Len(m.output) <= Len(output)
       /\ \A i \in 1..Len(m.output) : output[i] = m.output[i]
  <2>1. CASE output = m.output
    BY <1>2, <1>9, <2>1
  <2>2. CASE output = Append(m.output, Item(events, m))
    BY <1>8, <1>9, <2>2
  <2> QED BY <1>10, <2>1, <2>2
<1>12. MergeOK(events, n)
  BY <1>2, <1>3, <1>4, <1>5, <1>7, <1>11 DEF MergeOK
<1>13. Extends(m, n)
  BY <1>4, <1>11 DEF Extends
<1>14. Fills(m, n)
  <2> DEFINE c == <<s, t + 1>>
             U == ToSet(Order) \X (0..(MaxRecords + 1))
  <2>1. c \in U /\ c[1] = s /\ c[2] = t + 1 /\ c[2] # 0
    BY <1>1, <1>3, EngineAssumption
  <2>2. c \notin Cells(m)
    BY <1>1, <2>1 DEF Cells, t
  <2>3. c \in Cells(n)
    BY <1>1, <1>3, <1>4, <2>1 DEF Cells
  <2>4. ASSUME NEW x \in U, x # c
        PROVE  x \in Cells(n) <=> x \in Cells(m)
    <3>1. x = <<x[1], x[2]>> /\ x[2] \in Nat /\ x[1] \in ToSet(Order)
      BY EngineAssumption
    <3>2. x[1] = s => x[2] # t + 1
      BY <2>4, <3>1
    <3>3. ToSet(Order) \subseteq Sources
      BY EngineAssumption, Elements
    <3> HIDE DEF c
    <3>4. CASE x[1] = s
      <4>1. x[2] <= taken[s] <=> x[2] <= m.taken[s]
        BY <1>1, <1>3, <3>1, <3>2, <3>4 DEF t
      <4> QED BY <1>4, <3>4, <4>1 DEF Cells
    <3>5. CASE x[1] # s
      <4>1. taken[x[1]] = m.taken[x[1]]
        BY <1>3, <3>1, <3>3, <3>5
      <4> QED BY <1>4, <4>1 DEF Cells
    <3> QED BY <3>4, <3>5
  <2> HIDE DEF c
  <2>5. Cells(n) \subseteq U /\ Cells(m) \subseteq U
    BY DEF Cells
  <2> HIDE DEF U
  <2>6. Cells(n) = Cells(m) \cup {c}
    BY <2>1, <2>3, <2>4, <2>5
  <2> QED BY <2>2, <2>6 DEF Fills
<1> QED BY <1>12, <1>13, <1>14 DEF n

\* A failure stops a strict merge.
StoppedState(m, output) == MergeState(<<>>, 1, <<>>, Advance(m), m.keys, output)

\* And when a failure stops it.
LEMMA StopStep ==
  ASSUME NEW events, NEW m, Heard(events), MergeOK(events, m), m.active # <<>>,
         m.taken[Turn(m)] # Len(events[Turn(m)])
  PROVE  LET n == StoppedState(m, Append(m.output, Item(events, m)))
         IN  MergeOK(events, n) /\ Extends(m, n) /\ n.active = <<>>
<1> DEFINE output == Append(m.output, Item(events, m))
           n == StoppedState(m, output)
<1>1. /\ Advance(m) \in [Sources -> Nat] /\ Item(events, m) \in Event
      /\ \A r \in Sources : Advance(m)[r] <= Len(events[r])
  BY AdvanceFacts
<1>2. m.output \in Seq(Event)
  BY DEF MergeOK
<1>3. /\ output \in Seq(Event) /\ Len(output) = Len(m.output) + 1
      /\ \A i \in 1..Len(m.output) : output[i] = m.output[i] /\ Len(m.output) \in Nat
  BY <1>1, <1>2, AppendFacts, Elements
<1>4. /\ n.active = <<>> /\ n.turn = 1 /\ n.waiting = <<>> /\ n.taken = Advance(m)
      /\ n.output = output
  BY DEF StoppedState, MergeState
<1> HIDE DEF n, output
<1>5. Extends(m, n)
  BY <1>2, <1>3, <1>4, Elements DEF Extends
<1> DEFINE e == <<>>
<1>6. e \in Seq(Sources) /\ Len(e) = 0 /\ Distinct(e) /\ ToSet(e) = {} /\ e = <<>>
  BY DEF Distinct, ToSet
<1>7. n.active = e /\ n.waiting = e
  BY <1>4
<1> HIDE DEF e
<1>8. MergeOK(events, n)
  <2>1. 0 <= MaxActive /\ 1 \in Nat \ {0}
    BY EngineAssumption
  <2>2. /\ n.active \in Seq(Sources) /\ n.waiting \in Seq(Sources)
        /\ Distinct(n.active) /\ Distinct(n.waiting)
        /\ ToSet(n.active) \subseteq ToSet(Order) /\ ToSet(n.waiting) \subseteq ToSet(Order)
        /\ ToSet(n.active) \cap ToSet(n.waiting) = {} /\ Len(n.active) <= MaxActive
        /\ \A r \in ToSet(n.waiting) : n.taken[r] = 0
    BY <1>6, <1>7, <2>1
  <2>3. n.waiting = <<>> /\ n.active = <<>>
    BY <1>6, <1>7
  <2>4. /\ n.turn \in Nat \ {0} /\ n.taken \in [Sources -> Nat] /\ n.output \in Seq(Event)
        /\ \A r \in Sources : n.taken[r] <= Len(events[r])
    BY <1>1, <1>3, <1>4, <2>1
  <2> QED BY <2>2, <2>3, <2>4 DEF MergeOK
<1> QED BY <1>4, <1>5, <1>8 DEF n, output

\* The steps there are.
LEMMA NextForm ==
  ASSUME NEW events, NEW strict, NEW m
  PROVE  MergeNext(events, strict, m)
           = IF m.active = <<>> THEN m
             ELSE IF m.taken[Turn(m)] = Len(events[Turn(m)]) THEN LeftState(m)
             ELSE IF Item(events, m).type = "failed" /\ strict
               THEN StoppedState(m, Append(m.output, Item(events, m)))
             ELSE IF Item(events, m).type = "failed"
               THEN TakenState(m, m.keys, Append(m.output, Item(events, m)))
             ELSE IF DedupeKeys(Turn(m), Item(events, m).record) \cap m.keys = {}
               THEN TakenState(m, m.keys \cup DedupeKeys(Turn(m), Item(events, m).record),
                               Append(m.output, Item(events, m)))
             ELSE TakenState(m, m.keys, m.output)
<1> DEFINE s == Turn(m)
           e == Item(events, m)
<1>1. s = m.active[m.turn] /\ e = events[s][m.taken[s] + 1]
  BY DEF Turn, Item
<1>2. LeftState(m)
        = MergeState(RemoveAt(m.active, m.turn) \o FirstOf(m.waiting, 1),
                     IF m.turn > Len(RemoveAt(m.active, m.turn)) THEN 1 ELSE m.turn,
                     RestOf(m.waiting, 1), m.taken, m.keys, m.output)
  BY DEF LeftState, Joining, NextTurn
<1>3. Advance(m) = [m.taken EXCEPT ![s] = @ + 1]
  BY DEF Advance
<1> HIDE DEF s, e
<1>4. MergeNext(events, strict, m)
        = IF m.active = <<>> THEN m
          ELSE IF m.taken[s] = Len(events[s]) THEN LeftState(m)
          ELSE IF e.type = "failed" /\ strict THEN StoppedState(m, Append(m.output, e))
          ELSE IF e.type = "failed" THEN TakenState(m, m.keys, Append(m.output, e))
          ELSE IF DedupeKeys(s, e.record) \cap m.keys = {}
            THEN TakenState(m, m.keys \cup DedupeKeys(s, e.record), Append(m.output, e))
          ELSE TakenState(m, m.keys, m.output)
  BY <1>1, <1>2, <1>3 DEF MergeNext, TakenState, StoppedState
<1> QED BY <1>4 DEF s, e

\* The step when the source has given everything.
LEMMA NextLeaves ==
  ASSUME NEW events, NEW strict, NEW m, m.active # <<>>,
         m.taken[Turn(m)] = Len(events[Turn(m)])
  PROVE  MergeNext(events, strict, m) = LeftState(m)
BY NextForm

\* The step at a failure.
LEMMA NextFails ==
  ASSUME NEW events, NEW strict, NEW m, m.active # <<>>,
         m.taken[Turn(m)] # Len(events[Turn(m)]), Item(events, m).type = "failed"
  PROVE  MergeNext(events, strict, m)
           = IF strict THEN StoppedState(m, Append(m.output, Item(events, m)))
             ELSE TakenState(m, m.keys, Append(m.output, Item(events, m)))
<1>1. CASE strict
  BY <1>1, NextForm
<1>2. CASE ~strict
  BY <1>2, NextForm
<1> QED BY <1>1, <1>2

\* The step at a record, which is delivered unless a key of it was seen.
LEMMA NextGives ==
  ASSUME NEW events, NEW strict, NEW m, m.active # <<>>,
         m.taken[Turn(m)] # Len(events[Turn(m)]), Item(events, m).type # "failed",
         NEW keys, keys = DedupeKeys(Turn(m), Item(events, m).record)
  PROVE  MergeNext(events, strict, m)
           = IF keys \cap m.keys = {}
             THEN TakenState(m, m.keys \cup keys, Append(m.output, Item(events, m)))
             ELSE TakenState(m, m.keys, m.output)
BY NextForm

\* A merge with no source left stays as it is.
LEMMA NextStays ==
  ASSUME NEW events, NEW strict, NEW m, m.active = <<>>
  PROVE  MergeNext(events, strict, m) = m
BY DEF MergeNext

\* Every step keeps what is known of the merge, only adds to the output, and fills one
\* more cell unless it is the last.
LEMMA StepOK ==
  ASSUME NEW events, NEW strict, NEW m, Heard(events), MergeOK(events, m), m.active # <<>>
  PROVE  LET n == MergeNext(events, strict, m)
         IN  /\ MergeOK(events, n) /\ Extends(m, n)
             /\ n.active # <<>> => Fills(m, n)
<1> DEFINE n == MergeNext(events, strict, m)
           e == Item(events, m)
           output == Append(m.output, e)
           keys == DedupeKeys(Turn(m), e.record)
<1>1. CASE m.taken[Turn(m)] = Len(events[Turn(m)])
  <2>1. n = LeftState(m)
    BY <1>1, NextLeaves
  <2> HIDE DEF n
  <2> QED BY <2>1, LeaveStep DEF n
<1>2. CASE m.taken[Turn(m)] # Len(events[Turn(m)])
  <2>1. \/ n = StoppedState(m, output)
        \/ n = TakenState(m, m.keys, output)
        \/ n = TakenState(m, m.keys \cup keys, output)
        \/ n = TakenState(m, m.keys, m.output)
    <3>1. CASE e.type = "failed"
      BY <1>2, <3>1, NextFails
    <3>2. CASE e.type # "failed"
      BY <1>2, <3>2, NextGives
    <3> QED BY <3>1, <3>2
  <2>2. /\ MergeOK(events, StoppedState(m, output)) /\ Extends(m, StoppedState(m, output))
        /\ StoppedState(m, output).active = <<>>
    BY <1>2, StopStep
  <2>3. \A k : \A o \in {m.output, output} :
          LET x == TakenState(m, k, o) IN MergeOK(events, x) /\ Extends(m, x) /\ Fills(m, x)
    BY <1>2, TakeStep
  <2>4. output \in {m.output, output} /\ m.output \in {m.output, output}
    OBVIOUS
  <2> HIDE DEF n, output, keys
  <2>5. CASE n = StoppedState(m, output)
    BY <2>2, <2>5 DEF n
  <2>6. ASSUME NEW k, NEW o \in {m.output, output}, n = TakenState(m, k, o)
        PROVE  MergeOK(events, n) /\ Extends(m, n) /\ Fills(m, n)
    BY <2>3, <2>6
  <2>7. MergeOK(events, n) /\ Extends(m, n) /\ (n.active # <<>> => Fills(m, n))
    BY <2>1, <2>4, <2>5, <2>6 DEF n
  <2> QED BY <2>7 DEF n
<1> QED BY <1>1, <1>2

-----------------------------------------------------------------------------
(* The whole merge *)

\* No element counts twice in a list without repetition.
LEMMA DistinctCount ==
  ASSUME NEW S, NEW q \in Seq(S), Distinct(q)
  PROVE  IsFiniteSet(ToSet(q)) /\ Cardinality(ToSet(q)) = Len(q)
<1>1. Len(q) \in Nat /\ DOMAIN q = 1..Len(q) /\ ToSet(q) = {q[i] : i \in 1..Len(q)}
  BY Elements
<1>2. IsFiniteSet(ToSet(q)) /\ Cardinality(ToSet(q)) \in Nat /\ Cardinality(ToSet(q)) <= Len(q)
  BY ElementsCount
<1>3. q \in [1..Len(q) -> ToSet(q)] /\ \A i, j \in 1..Len(q) : q[i] = q[j] => i = j
  BY <1>1 DEF Distinct
<1>4. q \in Injection(1..Len(q), ToSet(q))
  BY <1>3 DEF Injection, IsInjective
<1>5. Cardinality(1..Len(q)) <= Cardinality(ToSet(q))
  BY <1>2, <1>4, FS_Injection
<1>6. Cardinality(1..Len(q)) = IF 1 > Len(q) THEN 0 ELSE Len(q) - 1 + 1
  BY <1>1, FS_Interval, SMTT(20)
<1>7. Cardinality(1..Len(q)) = Len(q)
  BY <1>1, <1>6
<1> QED BY <1>1, <1>2, <1>5, <1>7

\* The table of events has one row for each source, and one cell more than its events.
LEMMA TableSize ==
  /\ IsFiniteSet(ToSet(Order) \X (0..(MaxRecords + 1)))
  /\ Cardinality(ToSet(Order) \X (0..(MaxRecords + 1))) = MergeSteps
  /\ MergeSteps \in Nat
<1>1. Order \in Seq(Sources) /\ Distinct(Order) /\ MaxRecords \in Nat
  BY EngineAssumption DEF Distinct
<1>2. IsFiniteSet(ToSet(Order)) /\ Cardinality(ToSet(Order)) = Len(Order) /\ Len(Order) \in Nat
  BY <1>1, DistinctCount, Elements
<1>3. /\ IsFiniteSet(0..(MaxRecords + 1))
      /\ Cardinality(0..(MaxRecords + 1))
           = IF 0 > MaxRecords + 1 THEN 0 ELSE (MaxRecords + 1) - 0 + 1
  BY <1>1, FS_Interval
<1>4. Cardinality(0..(MaxRecords + 1)) = MaxRecords + 2
  BY <1>1, <1>3
<1>5. /\ IsFiniteSet(ToSet(Order) \X (0..(MaxRecords + 1)))
      /\ Cardinality(ToSet(Order) \X (0..(MaxRecords + 1)))
           = Cardinality(ToSet(Order)) * Cardinality(0..(MaxRecords + 1))
  BY <1>2, <1>3, FS_Product
<1>6. Len(Order) * (MaxRecords + 2) \in Nat
  BY <1>1, <1>2
<1> QED BY <1>2, <1>4, <1>5, <1>6 DEF MergeSteps

\* Where the merge starts.
LEMMA MergeBegins ==
  ASSUME NEW events, Heard(events), NEW asked \in {<<>>, Order}
  PROVE  LET m == MergeStart(asked)
         IN  /\ MergeOK(events, m)
             /\ asked = <<>> => m.active = <<>> /\ m.waiting = <<>>
             /\ m.active # <<>> => Cells(m) = {}
<1> DEFINE m == MergeStart(asked)
           first == FirstOf(asked, MaxActive)
           others == RestOf(asked, MaxActive)
<1>1. MaxActive \in Nat \ {0} /\ MaxRecords \in Nat /\ Order \in Seq(Sources) /\ Distinct(Order)
  BY EngineAssumption DEF Distinct
<1>2. asked \in Seq(Sources) /\ Distinct(asked) /\ ToSet(asked) \subseteq ToSet(Order)
  <2> DEFINE e == <<>>
  <2>1. e \in Seq(Sources) /\ Distinct(e) /\ ToSet(e) = {}
    BY DEF Distinct, ToSet
  <2>2. asked = e \/ asked = Order
    OBVIOUS
  <2> HIDE DEF e
  <2> QED BY <1>1, <2>1, <2>2
<1>3. /\ first \in Seq(Sources) /\ others \in Seq(Sources)
      /\ Len(first) = (IF MaxActive < Len(asked) THEN MaxActive ELSE Len(asked))
      /\ Len(others) = (IF MaxActive < Len(asked) THEN Len(asked) - MaxActive ELSE 0)
  BY <1>1, <1>2, SplitFacts
<1>4. /\ Distinct(first) /\ Distinct(others) /\ ToSet(first) \cap ToSet(others) = {}
      /\ ToSet(first) \cup ToSet(others) = ToSet(asked)
  BY <1>1, <1>2, CutInTwo
<1>5. /\ m.active = first /\ m.turn = 1 /\ m.waiting = others
      /\ m.taken = [s \in Sources |-> 0] /\ m.output = <<>>
  BY DEF MergeStart, MergeState
<1> HIDE DEF m, first, others
<1>6. /\ Len(asked) \in Nat /\ (asked = <<>> <=> Len(asked) = 0)
      /\ Len(first) \in Nat /\ (first = <<>> <=> Len(first) = 0)
      /\ Len(others) \in Nat /\ (others = <<>> <=> Len(others) = 0)
  BY <1>2, <1>3, Elements
<1>7. Len(first) <= MaxActive /\ (others # <<>> => Len(first) = MaxActive)
  BY <1>1, <1>3, <1>6
<1>8. first # <<>> => 1 <= Len(first)
  BY <1>6
<1>9. \A s \in Sources : Len(events[s]) \in Nat
  BY Elements DEF Heard
<1>10. MergeOK(events, m)
  <2>1. /\ m.active \in Seq(Sources) /\ m.waiting \in Seq(Sources)
        /\ Distinct(m.active) /\ Distinct(m.waiting) /\ ToSet(m.active) \cap ToSet(m.waiting) = {}
        /\ ToSet(m.active) \subseteq ToSet(Order) /\ ToSet(m.waiting) \subseteq ToSet(Order)
    BY <1>2, <1>3, <1>4, <1>5
  <2>2. /\ Len(m.active) <= MaxActive /\ (m.waiting # <<>> => Len(m.active) = MaxActive)
        /\ m.turn \in Nat \ {0} /\ (m.active # <<>> => m.turn <= Len(m.active))
    BY <1>5, <1>7, <1>8
  <2>3. /\ m.taken \in [Sources -> Nat] /\ m.output \in Seq(Event)
        /\ \A s \in Sources : m.taken[s] <= Len(events[s])
    BY <1>5, <1>9
  <2>4. \A s \in ToSet(m.waiting) : m.taken[s] = 0
    <3>1. ToSet(m.waiting) \subseteq Sources
      BY <2>1, Elements
    <3> QED BY <1>5, <3>1
  <2> QED BY <2>1, <2>2, <2>3, <2>4 DEF MergeOK
<1>11. asked = <<>> => m.active = <<>> /\ m.waiting = <<>>
  BY <1>1, <1>3, <1>5, <1>6
<1>12. ASSUME m.active # <<>> PROVE Cells(m) = {}
  <2>1. asked = Order
    BY <1>11, <1>12
  <2>2. ToSet(m.active) \cup ToSet(m.waiting) = ToSet(Order)
    BY <1>4, <1>5, <2>1
  <2>3. ToSet(Order) \subseteq Sources
    BY <1>1, Elements
  <2>4. ASSUME NEW x \in ToSet(Order) \X (0..(MaxRecords + 1)) PROVE x \notin Cells(m)
    <3>1. x[1] \in ToSet(Order) /\ x[2] \in Nat
      BY <1>1
    <3>2. m.taken[x[1]] = 0
      BY <1>5, <2>3, <3>1
    <3> QED BY <2>2, <3>1, <3>2 DEF Cells
  <2> QED BY <2>4 DEF Cells
<1> QED BY <1>10, <1>11, <1>12 DEF m

\* After k steps that have not ended the merge, k cells are filled.
Counted(m, k) ==
  m.active # <<>> => IsFiniteSet(Cells(m)) /\ Cardinality(Cells(m)) = k

\* So it is after any number of steps, with a cell filled for each of them.
LEMMA MergeRuns ==
  ASSUME NEW events, Heard(events), NEW strict, NEW asked \in {<<>>, Order}
  PROVE  \A k \in Nat : /\ MergeOK(events, Merge(events, strict, asked)[k])
                        /\ Counted(Merge(events, strict, asked)[k], k)
<1> DEFINE M == Merge(events, strict, asked)
           T == {k \in Nat : MergeOK(events, M[k]) /\ Counted(M[k], k)}
<1>1. M[0] = MergeStart(asked) /\ \A n \in Nat : M[n + 1] = MergeNext(events, strict, M[n])
  BY MergeIs
<1> HIDE DEF M
<1>2. 0 \in T
  <2>1. /\ MergeOK(events, M[0]) /\ (M[0].active # <<>> => Cells(M[0]) = {})
    BY <1>1, MergeBegins
  <2> QED BY <2>1, FS_EmptySet DEF Counted
<1>3. ASSUME NEW k \in Nat, k \in T PROVE k + 1 \in T
  <2> DEFINE m == M[k]
             n == M[k + 1]
  <2>1. MergeOK(events, m) /\ Counted(m, k) /\ n = MergeNext(events, strict, m)
    BY <1>1, <1>3
  <2> HIDE DEF m, n
  <2>2. CASE m.active = <<>>
    <3>1. n = m
      BY <2>1, <2>2, NextStays
    <3>2. MergeOK(events, n) /\ Counted(n, k + 1)
      BY <2>1, <2>2, <3>1 DEF Counted
    <3> QED BY <3>2 DEF m, n
  <2>3. CASE m.active # <<>>
    <3>1. MergeOK(events, n) /\ (n.active # <<>> => Fills(m, n))
      BY <2>1, <2>3, StepOK
    <3>2. IsFiniteSet(Cells(m)) /\ Cardinality(Cells(m)) = k
      BY <2>1, <2>3 DEF Counted
    <3>3. ASSUME n.active # <<>>
          PROVE  IsFiniteSet(Cells(n)) /\ Cardinality(Cells(n)) = k + 1
      <4>1. PICK c : c \notin Cells(m) /\ Cells(n) = Cells(m) \cup {c}
        BY <3>1, <3>3 DEF Fills
      <4> QED BY <3>2, <4>1, FS_AddElement
    <3>4. MergeOK(events, n) /\ Counted(n, k + 1)
      BY <3>1, <3>3 DEF Counted
    <3> QED BY <3>4 DEF m, n
  <2> QED BY <2>2, <2>3
<1> HIDE DEF T
<1>4. \A k \in Nat : k \in T
  BY <1>2, <1>3, AllNumbers
<1> QED BY <1>4 DEF T, M

\* The merge has ended after MergeSteps steps: at every earlier one a cell was left.
LEMMA MergeStops ==
  ASSUME NEW events, Heard(events), NEW strict, NEW asked \in {<<>>, Order},
         NEW k \in Nat, Merge(events, strict, asked)[k].active # <<>>
  PROVE  k < MergeSteps
<1> DEFINE m == Merge(events, strict, asked)[k]
           U == ToSet(Order) \X (0..(MaxRecords + 1))
           c == <<Turn(m), 0>>
<1>1. MergeOK(events, m) /\ Counted(m, k)
  BY MergeRuns
<1>2. m.active # <<>>
  OBVIOUS
<1> HIDE DEF m
<1>3. IsFiniteSet(Cells(m)) /\ Cardinality(Cells(m)) = k
  BY <1>1, <1>2 DEF Counted
<1>4. Turn(m) \in ToSet(m.active) /\ Turn(m) \in ToSet(Order) /\ MaxRecords \in Nat
  BY <1>1, <1>2, TurnFacts, EngineAssumption
<1>5. c \in U /\ c \notin Cells(m)
  BY <1>4 DEF Cells
<1>6. Cells(m) \subseteq U
  BY DEF Cells
<1>7. IsFiniteSet(U) /\ Cardinality(U) = MergeSteps /\ MergeSteps \in Nat
  BY TableSize
<1> HIDE DEF U, c
<1>8. Cardinality(Cells(m) \cup {c}) = k + 1
  BY <1>3, <1>5, FS_AddElement
<1>9. Cells(m) \cup {c} \in SUBSET U
  BY <1>5, <1>6
<1>10. Cardinality(Cells(m) \cup {c}) <= Cardinality(U)
  BY <1>7, <1>9, FS_Subset
<1> QED BY <1>7, <1>8, <1>10

\* What has been merged stays, and a merge that has ended does not change.
LEMMA MergeGrows ==
  ASSUME NEW events, Heard(events), NEW strict, NEW asked \in {<<>>, Order}, NEW k \in Nat
  PROVE  LET M == Merge(events, strict, asked)
         IN  \A d \in Nat : Extends(M[k], M[k + d]) /\ (M[k].active = <<>> => M[k + d] = M[k])
<1> DEFINE M == Merge(events, strict, asked)
           T == {d \in Nat : Extends(M[k], M[k + d]) /\ (M[k].active = <<>> => M[k + d] = M[k])}
<1>1. \A n \in Nat : M[n + 1] = MergeNext(events, strict, M[n]) /\ MergeOK(events, M[n])
  BY MergeIs, MergeRuns, SMTT(20)
<1> HIDE DEF M
<1>2. 0 \in T
  <2>1. M[k].output \in Seq(Event)
    BY <1>1 DEF MergeOK
  <2>2. Len(M[k].output) \in Nat /\ k + 0 = k
    BY <2>1, Elements
  <2> QED BY <2>2 DEF Extends
<1>3. ASSUME NEW d \in Nat, d \in T PROVE d + 1 \in T
  <2> DEFINE m == M[k + d]
             n == M[k + (d + 1)]
  <2>1. (k + d) + 1 = k + (d + 1) /\ k + d \in Nat /\ k + (d + 1) \in Nat
    OBVIOUS
  <2>2. /\ n = MergeNext(events, strict, m) /\ MergeOK(events, m) /\ MergeOK(events, n)
        /\ MergeOK(events, M[k])
    BY <1>1, <2>1
  <2>3. Extends(M[k], m) /\ (M[k].active = <<>> => m = M[k])
    BY <1>3
  <2> HIDE DEF m, n
  <2>4. /\ m.output \in Seq(Event) /\ n.output \in Seq(Event) /\ M[k].output \in Seq(Event)
    BY <2>2 DEF MergeOK
  <2>5. Len(m.output) \in Nat /\ Len(n.output) \in Nat /\ Len(M[k].output) \in Nat
    BY <2>4, Elements
  <2>6. Extends(m, n) /\ (m.active = <<>> => n = m)
    <3>1. CASE m.active = <<>>
      <4>1. n = m
        BY <2>2, <3>1, NextStays
      <4> QED BY <2>5, <4>1 DEF Extends
    <3>2. CASE m.active # <<>>
      BY <2>2, <3>2, StepOK
    <3> QED BY <3>1, <3>2
  <2>7. Extends(M[k], n)
    <3>1. Len(M[k].output) <= Len(n.output)
      BY <2>3, <2>5, <2>6 DEF Extends
    <3>2. ASSUME NEW i \in 1..Len(M[k].output) PROVE n.output[i] = M[k].output[i]
      <4>1. i \in 1..Len(m.output)
        BY <2>3, <2>5 DEF Extends
      <4> QED BY <2>3, <2>6, <4>1 DEF Extends
    <3> QED BY <3>1, <3>2 DEF Extends
  <2>8. M[k].active = <<>> => n = M[k]
    BY <2>3, <2>6
  <2> QED BY <2>7, <2>8 DEF n
<1> HIDE DEF T
<1>4. \A d \in Nat : d \in T
  BY <1>2, <1>3, AllNumbers
<1> QED BY <1>4 DEF T, M

\* After as many steps as there are cells the merge is over.
LEMMA MergeEnds ==
  ASSUME NEW events, Heard(events), NEW strict, NEW asked \in {<<>>, Order}, NEW k \in Nat
  PROVE  LET M == Merge(events, strict, asked)
         IN  /\ Extends(M[k], M[MergeSteps])
             /\ MergeOK(events, M[k]) /\ MergeOK(events, M[MergeSteps])
             /\ M[k].active = <<>> => M[MergeSteps] = M[k]
<1> DEFINE M == Merge(events, strict, asked)
<1>1. MergeSteps \in Nat
  BY TableSize
<1>2. \A n, d \in Nat : Extends(M[n], M[n + d]) /\ (M[n].active = <<>> => M[n + d] = M[n])
  BY MergeGrows, ZenonT(30)
<1>3. \A n \in Nat : M[n].active # <<>> => n < MergeSteps
  BY MergeStops
<1>4. \A n \in Nat : MergeOK(events, M[n])
  BY MergeRuns
<1> HIDE DEF M
<1>5. CASE k <= MergeSteps
  <2>1. MergeSteps - k \in Nat /\ k + (MergeSteps - k) = MergeSteps
    BY <1>1, <1>5
  <2>2. Extends(M[k], M[MergeSteps]) /\ (M[k].active = <<>> => M[MergeSteps] = M[k])
    BY <1>2, <2>1
  <2> QED BY <1>1, <1>4, <2>2 DEF M
<1>6. CASE ~(k <= MergeSteps)
  <2>1. k - MergeSteps \in Nat /\ MergeSteps + (k - MergeSteps) = k
    BY <1>1, <1>6
  <2>2. M[MergeSteps].active = <<>>
    BY <1>1, <1>3
  <2>3. M[k] = M[MergeSteps]
    BY <1>1, <1>2, <2>1, <2>2
  <2>4. M[k].output \in Seq(Event)
    BY <1>4 DEF MergeOK
  <2>5. Len(M[k].output) \in Nat
    BY <2>4, Elements
  <2>6. Extends(M[k], M[MergeSteps])
    BY <2>3, <2>5 DEF Extends
  <2> QED BY <1>1, <1>4, <2>3, <2>6 DEF M
<1> QED BY <1>5, <1>6

-----------------------------------------------------------------------------
(* What one source has to say *)

\* A script of the constants.
IsScript(script) ==
  script \in [chunks : Seq(Records \cup {BAD}), data : Seq(Records \cup {BAD}),
              outcome : {"ok", "error", "cancelled"}]

\* The first item that is refused.
Refuses(items, i) == i = Len(items) + 1 \/ i > MaxRecords \/ items[i] = BAD
Accepted(items, i) == i <= MaxRecords /\ items[i] # BAD

\* There is a first item that is refused, or the end.
LEMMA CutFacts ==
  ASSUME NEW items \in Seq(Records \cup {BAD})
  PROVE  /\ Cut(items) \in 1..(Len(items) + 1) /\ Cut(items) \in Nat \ {0}
         /\ Refuses(items, Cut(items))
         /\ \A j \in 1..(Cut(items) - 1) : Accepted(items, j)
         /\ Cut(items) <= MaxRecords + 1
<1> DEFINE T == {i \in 1..(Len(items) + 1) : Refuses(items, i)}
           R == OpToRel(<, Nat)
<1>1. Len(items) \in Nat /\ MaxRecords \in Nat
  BY Elements, EngineAssumption
<1>2. \A x, y \in Nat : <<y, x>> \in R <=> y < x
  BY DEF OpToRel
<1>3. IsWellFoundedOn(R, Nat)
  BY NatLessThanWellFounded
<1>4. T \subseteq Nat /\ Len(items) + 1 \in T
  BY <1>1 DEF Refuses
<1> HIDE DEF R
<1>5. PICK i \in T : \A j \in T : ~(<<j, i>> \in R)
  BY <1>3, <1>4, WFMin, ZenonT(30)
<1>6. i \in 1..(Len(items) + 1) /\ i \in Nat \ {0} /\ Refuses(items, i)
  BY <1>1
<1>7. \A j \in 1..(i - 1) : Accepted(items, j)
  <2> SUFFICES ASSUME NEW j \in 1..(i - 1) PROVE Accepted(items, j)
    OBVIOUS
  <2>1. j \in 1..(Len(items) + 1) /\ j < i /\ j \in Nat /\ j # Len(items) + 1
    BY <1>1, <1>6
  <2>2. j \notin T
    BY <1>2, <1>5, <1>6, <2>1
  <2>3. ~Refuses(items, j)
    BY <2>1, <2>2
  <2> QED BY <1>1, <2>1, <2>3 DEF Refuses, Accepted
<1> DEFINE IsCut(x) == /\ x = Len(items) + 1 \/ x > MaxRecords \/ items[x] = BAD
                       /\ \A j \in 1..(x - 1) : j <= MaxRecords /\ items[j] # BAD
<1>8. IsCut(i)
  BY <1>6, <1>7 DEF Refuses, Accepted
<1>9. Cut(items) = CHOOSE x \in 1..(Len(items) + 1) : IsCut(x)
  BY DEF Cut
<1>10. Cut(items) \in 1..(Len(items) + 1) /\ IsCut(Cut(items))
  BY <1>6, <1>8, <1>9
<1>11. Refuses(items, Cut(items)) /\ \A j \in 1..(Cut(items) - 1) : Accepted(items, j)
  BY <1>10 DEF Refuses, Accepted
<1>12. Cut(items) \in Nat \ {0}
  BY <1>1, <1>10
<1>13. Cut(items) <= MaxRecords + 1
  <2>1. CASE Cut(items) = 1
    BY <1>1, <2>1
  <2>2. CASE Cut(items) # 1
    <3>1. Cut(items) - 1 \in 1..(Cut(items) - 1)
      BY <1>12, <2>2
    <3>2. Cut(items) - 1 <= MaxRecords
      BY <1>11, <3>1 DEF Accepted
    <3> QED BY <1>1, <1>12, <3>2
  <2> QED BY <2>1, <2>2
<1> QED BY <1>10, <1>11, <1>12, <1>13

\* The events of a source: one for each accepted item, and perhaps a failure.
LEMMA EventsFacts ==
  ASSUME NEW s \in Sources, NEW script, IsScript(script)
  PROVE  LET items == ItemsOf(script)
             events == EventsOf(s, script)
             failed == Cut(items) <= Len(items) \/ script.outcome # "ok"
         IN  /\ items \in Seq(Records \cup {BAD})
             /\ events \in Seq(Event) /\ Len(events) <= MaxRecords + 1
             /\ Len(events) = IF failed THEN Cut(items) ELSE Cut(items) - 1
             /\ \A i \in 1..(Cut(items) - 1) : events[i] = Record(s, items[i])
             /\ failed => events[Cut(items)] = Failed(s)
<1> DEFINE items == ItemsOf(script)
           cut == Cut(items)
           failed == cut <= Len(items) \/ script.outcome # "ok"
           records == [i \in 1..(cut - 1) |-> Record(s, items[i])]
           events == EventsOf(s, script)
<1>1. items \in Seq(Records \cup {BAD})
  BY DEF IsScript, ItemsOf
<1>2. events = IF failed THEN Append(records, Failed(s)) ELSE records
  BY DEF EventsOf
<1> HIDE DEF items
<1>3. /\ cut \in 1..(Len(items) + 1) /\ cut \in Nat \ {0} /\ cut <= MaxRecords + 1
  BY <1>1, CutFacts
<1>4. Len(items) \in Nat /\ \A i \in 1..Len(items) : items[i] \in Records \cup {BAD}
  BY <1>1, Elements
<1> HIDE DEF cut, failed, events
<1>5. \A i \in 1..(cut - 1) : Record(s, items[i]) \in Event
  <2> SUFFICES ASSUME NEW i \in 1..(cut - 1) PROVE Record(s, items[i]) \in Event
    OBVIOUS
  <2>1. items[i] \in Records \cup {BAD}
    BY <1>3, <1>4
  <2> QED BY <2>1 DEF Record, Event
<1>6. Failed(s) \in Event
  BY DEF Failed, Event
<1>7. /\ records \in Seq(Event) /\ Len(records) = cut - 1
      /\ \A i \in 1..(cut - 1) : records[i] = Record(s, items[i])
  BY <1>3, <1>5
<1> HIDE DEF records
<1>8. CASE failed
  <2>1. /\ Append(records, Failed(s)) \in Seq(Event)
        /\ Len(Append(records, Failed(s))) = Len(records) + 1
        /\ \A i \in 1..Len(records) : Append(records, Failed(s))[i] = records[i]
        /\ Append(records, Failed(s))[Len(records) + 1] = Failed(s)
    BY <1>6, <1>7, AppendFacts
  <2>2. /\ events \in Seq(Event) /\ Len(events) = cut
        /\ \A i \in 1..(cut - 1) : events[i] = Record(s, items[i])
        /\ events[cut] = Failed(s)
    <3>1. events = Append(records, Failed(s))
      BY <1>2, <1>8
    <3>2. (cut - 1) + 1 = cut
      BY <1>3
    <3> QED BY <1>7, <2>1, <3>1, <3>2
  <2> QED BY <1>1, <1>3, <1>8, <2>2 DEF items, cut, failed, events
<1>9. CASE ~failed
  <2>1. events = records
    BY <1>2, <1>9
  <2>2. /\ events \in Seq(Event) /\ Len(events) = cut - 1 /\ Len(events) <= MaxRecords + 1
        /\ \A i \in 1..(cut - 1) : events[i] = Record(s, items[i])
    BY <1>3, <1>7, <2>1, EngineAssumption
  <2> QED BY <1>1, <1>9, <2>2 DEF items, cut, failed, events
<1> QED BY <1>8, <1>9

-----------------------------------------------------------------------------
(* A worker and its channel *)

\* The items a worker hands over now, and those of the whole call.
Phase(w, script) == IF w.pc = "final" THEN script.data ELSE script.chunks

Working == {"new", "call", "io", "final"}

\* The items of a script.
LEMMA ScriptFacts ==
  ASSUME NEW script, IsScript(script)
  PROVE  /\ script.chunks \in Seq(Records \cup {BAD}) /\ script.data \in Seq(Records \cup {BAD})
         /\ Len(script.chunks) \in Nat /\ Len(script.data) \in Nat
         /\ (script.chunks = <<>> <=> Len(script.chunks) = 0)
         /\ \A w : Len(Phase(w, script)) \in Nat
         /\ ItemsOf(script) \in Seq(Records \cup {BAD}) /\ Len(ItemsOf(script)) \in Nat
<1>1. script.chunks \in Seq(Records \cup {BAD}) /\ script.data \in Seq(Records \cup {BAD})
  BY DEF IsScript
<1>2. /\ Len(script.chunks) \in Nat /\ Len(script.data) \in Nat
      /\ (script.chunks = <<>> <=> Len(script.chunks) = 0)
  BY <1>1, Elements
<1>3. ItemsOf(script) = script.data \/ ItemsOf(script) = script.chunks
  BY DEF ItemsOf
<1>4. \A w : Phase(w, script) = script.data \/ Phase(w, script) = script.chunks
  BY DEF Phase
<1> QED BY <1>1, <1>2, <1>3, <1>4

\* The row of a working source, spelt out.
LEMMA WorkFacts ==
  ASSUME NEW script, IsScript(script), NEW w \in WorkerRow, NEW q \in Seq(Event), NEW t \in Nat,
         NEW events, OrderRow(w, q, t, script, events), w.pc \in Working
  PROVE  /\ w.count \in Nat /\ w.next \in Nat \ {0} /\ Len(q) \in Nat
         /\ w.pc = "final" => script.chunks = <<>> /\ script.outcome = "ok"
         /\ ~w.err => /\ w.next = w.count + 1 /\ w.count < Cut(ItemsOf(script))
                      /\ w.count <= Len(Phase(w, script)) /\ t + Len(q) = w.count
         /\ w.err => /\ w.next > Len(Phase(w, script)) /\ w.count = Cut(ItemsOf(script))
                     /\ w.count <= Len(ItemsOf(script)) /\ t + Len(q) = w.count - 1
         /\ \A i \in 1..Len(q) : q[i] = events[t + i]
<1>1. w.count \in Nat /\ w.next \in Nat \ {0} /\ w.err \in BOOLEAN
  BY DEF WorkerRow
<1>2. Len(q) \in Nat
  BY Elements
<1>3. WorkRow(w, script)
  BY DEF OrderRow, Working
<1>4. t + Len(q) = w.count - Refusals(w) /\ \A i \in 1..Len(q) : q[i] = events[t + i]
  BY DEF OrderRow, SentBy, Working
<1>5. /\ w.pc = "final" => script.chunks = <<>> /\ script.outcome = "ok"
      /\ ~w.err => w.next = w.count + 1 /\ w.count < Cut(ItemsOf(script))
                   /\ w.count <= Len(Phase(w, script))
      /\ w.err => w.next > Len(Phase(w, script)) /\ w.count = Cut(ItemsOf(script))
                  /\ w.count <= Len(ItemsOf(script))
  BY <1>3 DEF WorkRow, Phase
<1>6. CASE w.err
  BY <1>1, <1>2, <1>4, <1>5, <1>6 DEF Refusals
<1>7. CASE ~w.err
  BY <1>1, <1>2, <1>4, <1>5, <1>7 DEF Refusals
<1> QED BY <1>6, <1>7

\* And put together again.
LEMMA WorkRowHolds ==
  ASSUME NEW script, NEW w, NEW q, NEW t, NEW events, w.pc \in Working, w.count \in Nat,
         w.pc = "final" => script.chunks = <<>> /\ script.outcome = "ok",
         ~w.err => /\ w.next = w.count + 1 /\ w.count < Cut(ItemsOf(script))
                   /\ w.count <= Len(Phase(w, script)) /\ t + Len(q) = w.count,
         w.err => /\ w.next > Len(Phase(w, script)) /\ w.count = Cut(ItemsOf(script))
                  /\ w.count <= Len(ItemsOf(script)) /\ t + Len(q) = w.count - 1,
         \A i \in 1..Len(q) : q[i] = events[t + i]
  PROVE  OrderRow(w, q, t, script, events)
<1>1. WorkRow(w, script)
  BY DEF WorkRow, Phase
<1>2. t + Len(q) = SentBy(w, events)
  <2>1. SentBy(w, events) = w.count - Refusals(w)
    BY DEF SentBy, Working
  <2>2. CASE w.err
    BY <2>1, <2>2 DEF Refusals
  <2>3. CASE ~w.err
    BY <2>1, <2>3 DEF Refusals
  <2> QED BY <2>2, <2>3
<1> QED BY <1>1, <1>2 DEF OrderRow

\* A source begins with nothing sent.
LEMMA RowBegins ==
  ASSUME NEW script, IsScript(script), NEW events
  PROVE  OrderRow(NewWorker("new"), <<>>, 0, script, events)
<1> DEFINE w == NewWorker("new")
           q == <<>>
           t == 0
<1>1. /\ w.pc = "new" /\ w.count = t /\ w.next = t + 1 /\ ~w.err /\ Len(q) = 0
      /\ t \in Nat /\ t + Len(q) = t
  BY DEF NewWorker
<1>2. t < Cut(ItemsOf(script))
  BY ScriptFacts, CutFacts
<1>3. t <= Len(Phase(w, script))
  BY ScriptFacts
<1> HIDE DEF w, q, t
<1>4. \A i \in 1..Len(q) : q[i] = events[t + i]
  BY <1>1
<1>5. w.pc \in Working /\ w.pc # "final"
  BY <1>1 DEF Working
<1>6. OrderRow(w, q, t, script, events)
  BY <1>1, <1>2, <1>3, <1>4, <1>5, WorkRowHolds
<1> QED BY <1>6 DEF w, q, t

\* A worker goes on without handing anything over.
LEMMA RowStays ==
  ASSUME NEW script, IsScript(script), NEW w, NEW v \in WorkerRow, NEW q \in Seq(Event),
         NEW t \in Nat, NEW events, OrderRow(v, q, t, script, events),
         w.next = v.next, w.count = v.count, w.err = v.err,
         \/ w.pc = v.pc
         \/ {w.pc, v.pc} \subseteq {"new", "call", "io"}
         \/ {w.pc, v.pc} \subseteq {"closing", "done"}
  PROVE  OrderRow(w, q, t, script, events)
<1>1. CASE w.pc \in Working /\ v.pc \in Working
  <2>1. Phase(w, script) = Phase(v, script) /\ (w.pc = "final" => v.pc = "final")
    BY <1>1 DEF Phase
  <2>2. /\ v.count \in Nat /\ v.next \in Nat \ {0} /\ Len(q) \in Nat
        /\ v.pc = "final" => script.chunks = <<>> /\ script.outcome = "ok"
        /\ ~v.err => /\ v.next = v.count + 1 /\ v.count < Cut(ItemsOf(script))
                     /\ v.count <= Len(Phase(v, script)) /\ t + Len(q) = v.count
        /\ v.err => /\ v.next > Len(Phase(v, script)) /\ v.count = Cut(ItemsOf(script))
                    /\ v.count <= Len(ItemsOf(script)) /\ t + Len(q) = v.count - 1
        /\ \A i \in 1..Len(q) : q[i] = events[t + i]
    BY <1>1, WorkFacts
  <2> QED BY <1>1, <2>1, <2>2, WorkRowHolds
<1>2. CASE ~(w.pc \in Working /\ v.pc \in Working)
  <2>1. w.pc \notin Working /\ v.pc \notin Working
    BY <1>2 DEF Working
  <2>2. SentBy(w, events) = SentBy(v, events)
    BY DEF SentBy, Refusals
  <2> QED BY <2>1, <2>2 DEF OrderRow, Working
<1> QED BY <1>1, <1>2

\* The events in q come after the first t.
Follows(q, t, events) == \A i \in 1..Len(q) : q[i] = events[t + i]

\* The channel takes one more event, the next one.
LEMMA ChannelGrows ==
  ASSUME NEW q \in Seq(Event), NEW t \in Nat, NEW events, NEW e \in Event,
         e = events[t + Len(q) + 1], Follows(q, t, events)
  PROVE  /\ t + Len(Append(q, e)) = t + Len(q) + 1
         /\ Follows(Append(q, e), t, events)
<1>1. /\ Len(Append(q, e)) = Len(q) + 1 /\ Append(q, e)[Len(q) + 1] = e
      /\ \A i \in 1..Len(q) : Append(q, e)[i] = q[i]
  BY AppendFacts
<1>2. Len(q) \in Nat
  BY Elements
<1>3. ASSUME NEW i \in 1..Len(Append(q, e)) PROVE Append(q, e)[i] = events[t + i]
  <2>1. CASE i \in 1..Len(q)
    BY <1>1, <2>1 DEF Follows
  <2>2. CASE i \notin 1..Len(q)
    <3>1. i \in 1..(Len(q) + 1)
      BY <1>1
    <3>2. i = Len(q) + 1
      BY <1>2, <2>2, <3>1
    <3>3. t + i = t + Len(q) + 1
      BY <1>2, <3>2
    <3> QED BY <1>1, <3>2, <3>3
  <2> QED BY <2>1, <2>2
<1> QED BY <1>1, <1>2, <1>3 DEF Follows

\* What a worker that hands over an item takes it from.
LEMMA PhaseItems ==
  ASSUME NEW script, IsScript(script), NEW w, w.pc \in {"call", "final"},
         w.pc = "final" => script.chunks = <<>> /\ script.outcome = "ok",
         Phase(w, script) # <<>> \/ (w.pc = "call" /\ script.outcome # "ok") \/ w.pc = "final"
  PROVE  ItemsOf(script) = Phase(w, script)
BY DEF ItemsOf, Phase

\* An accepted item is the next event of its source.
LEMMA RowEmits ==
  ASSUME NEW s \in Sources, NEW script, IsScript(script), NEW w \in WorkerRow, NEW v \in WorkerRow,
         NEW q \in Seq(Event), NEW t \in Nat, v.pc \in {"call", "final"},
         OrderRow(v, q, t, script, EventsOf(s, script)),
         v.next <= Len(Phase(v, script)), ~v.err,
         Accepted(Phase(v, script), v.next),
         w.pc = v.pc, w.count = v.count + 1, w.next = v.next + 1, ~w.err
  PROVE  OrderRow(w, Append(q, Record(s, Phase(v, script)[v.next])), t, script, EventsOf(s, script))
<1> DEFINE items == ItemsOf(script)
           events == EventsOf(s, script)
           e == Record(s, Phase(v, script)[v.next])
<1>1. /\ v.count \in Nat /\ v.next \in Nat \ {0} /\ Len(q) \in Nat
      /\ v.pc = "final" => script.chunks = <<>> /\ script.outcome = "ok"
      /\ v.next = v.count + 1 /\ v.count < Cut(items)
      /\ v.count <= Len(Phase(v, script)) /\ t + Len(q) = v.count
      /\ \A i \in 1..Len(q) : q[i] = events[t + i]
  BY WorkFacts DEF Working
<1>2. Len(Phase(v, script)) \in Nat /\ Len(items) \in Nat /\ items \in Seq(Records \cup {BAD})
  BY ScriptFacts
<1>3. items = Phase(v, script)
  <2>1. Phase(v, script) \in Seq(Records \cup {BAD})
    BY ScriptFacts DEF Phase
  <2>2. Phase(v, script) # <<>>
    BY <1>1, <1>2, <2>1, Elements
  <2> QED BY <1>1, <2>2, PhaseItems
<1>4. /\ Cut(items) \in Nat \ {0} /\ Refuses(items, Cut(items)) /\ Cut(items) <= Len(items) + 1
  BY <1>2, CutFacts
<1>5. ~Refuses(items, v.next)
  BY <1>1, <1>2, <1>3, EngineAssumption DEF Refuses, Accepted
<1>6. v.next < Cut(items)
  <2>1. v.next # Cut(items)
    BY <1>4, <1>5
  <2> QED BY <1>1, <1>4, <2>1
<1>7. events[v.next] = e /\ e \in Event
  <2>1. \A i \in 1..(Cut(items) - 1) : events[i] = Record(s, items[i])
    BY EventsFacts
  <2>2. v.next \in 1..(Cut(items) - 1)
    BY <1>1, <1>4, <1>6
  <2>3. items[v.next] \in Records \cup {BAD}
    <3>1. v.next \in 1..Len(items)
      BY <1>1, <1>2, <1>3
    <3> QED BY <1>2, <3>1, Elements
  <2>4. e \in Event
    BY <1>3, <2>3 DEF Record, Event
  <2> QED BY <1>3, <2>1, <2>2, <2>4
<1> HIDE DEF e, events
<1>8. /\ t + Len(Append(q, e)) = w.count
      /\ \A i \in 1..Len(Append(q, e)) : Append(q, e)[i] = events[t + i]
  <2>1. e = events[t + Len(q) + 1]
    BY <1>1, <1>7
  <2>2. Follows(q, t, events)
    BY <1>1 DEF Follows
  <2>3. t + Len(Append(q, e)) = t + Len(q) + 1 /\ Follows(Append(q, e), t, events)
    BY <1>7, <2>1, <2>2, ChannelGrows
  <2> QED BY <1>1, <2>3 DEF Follows
<1>9. /\ Phase(w, script) = Phase(v, script) /\ w.count \in Nat /\ w.next = w.count + 1
      /\ w.count < Cut(items) /\ w.count <= Len(Phase(w, script)) /\ w.pc \in Working
      /\ w.pc = "final" => script.chunks = <<>> /\ script.outcome = "ok"
  BY <1>1, <1>2, <1>6 DEF Phase, Working
<1>10. OrderRow(w, Append(q, e), t, script, events)
  BY <1>8, <1>9, WorkRowHolds
<1> QED BY <1>10 DEF e, events

\* A refused one is the cut.
LEMMA RowRefuses ==
  ASSUME NEW s \in Sources, NEW script, IsScript(script), NEW w \in WorkerRow, NEW v \in WorkerRow,
         NEW q \in Seq(Event), NEW t \in Nat, v.pc \in {"call", "final"},
         OrderRow(v, q, t, script, EventsOf(s, script)),
         v.next <= Len(Phase(v, script)),
         v.err \/ ~Accepted(Phase(v, script), v.next),
         w.pc = v.pc, w.count = v.count + 1, w.next = Len(Phase(v, script)) + 1, w.err
  PROVE  OrderRow(w, q, t, script, EventsOf(s, script))
<1> DEFINE items == ItemsOf(script)
           events == EventsOf(s, script)
<1>0. Len(Phase(v, script)) \in Nat /\ Len(items) \in Nat /\ items \in Seq(Records \cup {BAD})
  BY ScriptFacts
<1>1. /\ v.count \in Nat /\ v.next \in Nat \ {0} /\ Len(q) \in Nat /\ ~v.err
      /\ v.pc = "final" => script.chunks = <<>> /\ script.outcome = "ok"
      /\ v.next = v.count + 1 /\ v.count < Cut(items)
      /\ v.count <= Len(Phase(v, script)) /\ t + Len(q) = v.count
      /\ \A i \in 1..Len(q) : q[i] = events[t + i]
  <2>1. ~v.err
    <3>1. v.next \in Nat /\ (v.err => v.next > Len(Phase(v, script)))
      BY WorkFacts DEF Working
    <3> QED BY <1>0, <3>1
  <2> QED BY <2>1, WorkFacts DEF Working
<1>3. items = Phase(v, script)
  <2>1. Phase(v, script) \in Seq(Records \cup {BAD})
    BY ScriptFacts DEF Phase
  <2>2. Phase(v, script) # <<>>
    BY <1>0, <1>1, <2>1, Elements
  <2> QED BY <1>1, <2>2, PhaseItems
<1>4. /\ Cut(items) \in Nat \ {0} /\ \A j \in 1..(Cut(items) - 1) : Accepted(items, j)
  BY <1>0, CutFacts
<1>5. v.next = Cut(items)
  <2>1. ~(v.next < Cut(items))
    <3>1. v.next < Cut(items) => v.next \in 1..(Cut(items) - 1)
      BY <1>1, <1>4
    <3> QED BY <1>1, <1>3, <1>4, <3>1
  <2> QED BY <1>1, <1>4, <2>1
<1>6. /\ Phase(w, script) = Phase(v, script) /\ w.count \in Nat /\ w.pc \in Working
      /\ w.next > Len(Phase(w, script)) /\ w.count = Cut(items) /\ w.count <= Len(items)
      /\ t + Len(q) = w.count - 1
      /\ w.pc = "final" => script.chunks = <<>> /\ script.outcome = "ok"
  BY <1>0, <1>1, <1>3, <1>5 DEF Phase, Working
<1> HIDE DEF events
<1>7. OrderRow(w, q, t, script, events)
  BY <1>1, <1>6, WorkRowHolds
<1> QED BY <1>7 DEF events

\* A call that streamed nothing hands over its data.
LEMMA RowTurnsFinal ==
  ASSUME NEW script, IsScript(script), NEW w \in WorkerRow, NEW v \in WorkerRow,
         NEW q \in Seq(Event), NEW t \in Nat, NEW events, v.pc = "call",
         OrderRow(v, q, t, script, events),
         v.next > Len(script.chunks), ~v.err, script.outcome = "ok", v.count = 0,
         w.pc = "final", w.count = 0, w.next = 1, ~w.err
  PROVE  OrderRow(w, q, t, script, events)
<1>1. /\ Len(q) \in Nat /\ v.next = v.count + 1 /\ v.count < Cut(ItemsOf(script))
      /\ t + Len(q) = v.count /\ \A i \in 1..Len(q) : q[i] = events[t + i]
  BY WorkFacts DEF Working
<1>2. /\ script.chunks = <<>> /\ Len(Phase(w, script)) \in Nat
  BY <1>1, ScriptFacts
<1>3. /\ w.count \in Nat /\ w.next = w.count + 1 /\ w.count < Cut(ItemsOf(script))
      /\ w.count <= Len(Phase(w, script)) /\ t + Len(q) = w.count /\ w.pc \in Working
  BY <1>1, <1>2 DEF Working
<1> QED BY <1>1, <1>2, <1>3, WorkRowHolds

\* A call that is through has sent everything it has to say.
LEMMA RowSucceeds ==
  ASSUME NEW s \in Sources, NEW script, IsScript(script), NEW w, NEW v \in WorkerRow,
         NEW q \in Seq(Event), NEW t \in Nat, v.pc \in {"call", "final"},
         OrderRow(v, q, t, script, EventsOf(s, script)),
         v.next > Len(Phase(v, script)), ~v.err,
         v.pc = "final" \/ (script.outcome = "ok" /\ v.count > 0), w.pc = "closing"
  PROVE  OrderRow(w, q, t, script, EventsOf(s, script))
<1> DEFINE items == ItemsOf(script)
           events == EventsOf(s, script)
<1>0. /\ Len(Phase(v, script)) \in Nat /\ Len(items) \in Nat /\ items \in Seq(Records \cup {BAD})
      /\ Phase(v, script) \in Seq(Records \cup {BAD})
  BY ScriptFacts DEF Phase
<1>1. /\ v.count \in Nat /\ v.next \in Nat \ {0} /\ Len(q) \in Nat
      /\ v.pc = "final" => script.chunks = <<>> /\ script.outcome = "ok"
      /\ v.next = v.count + 1 /\ v.count < Cut(items)
      /\ v.count <= Len(Phase(v, script)) /\ t + Len(q) = v.count
      /\ \A i \in 1..Len(q) : q[i] = events[t + i]
  BY WorkFacts DEF Working
<1>2. items = Phase(v, script)
  <2>1. Phase(v, script) # <<>> \/ v.pc = "final"
    BY <1>0, <1>1, Elements
  <2> QED BY <1>1, <2>1, PhaseItems
<1>3. Cut(items) \in 1..(Len(items) + 1) /\ Cut(items) \in Nat \ {0}
  BY <1>0, CutFacts
<1>4. v.count = Len(items) /\ Cut(items) = Len(items) + 1
  BY <1>0, <1>1, <1>2, <1>3
<1>5. script.outcome = "ok"
  BY <1>1
<1>6. Len(events) = Cut(items) - 1
  <2>1. Len(events) = IF Cut(items) <= Len(items) \/ script.outcome # "ok" THEN Cut(items)
                      ELSE Cut(items) - 1
    BY EventsFacts
  <2>2. ~(Cut(items) <= Len(items))
    BY <1>0, <1>4
  <2> QED BY <1>5, <2>1, <2>2
<1> HIDE DEF events
<1>7. t + Len(q) = SentBy(w, events)
  BY <1>0, <1>1, <1>4, <1>6 DEF SentBy
<1>8. OrderRow(w, q, t, script, events)
  BY <1>1, <1>7 DEF OrderRow
<1> QED BY <1>8 DEF events

\* A failure is the last event of its source.
LEMMA RowFails ==
  ASSUME NEW s \in Sources, NEW script, IsScript(script), NEW w, NEW v \in WorkerRow,
         NEW q \in Seq(Event), NEW t \in Nat, v.pc \in {"call", "final"},
         OrderRow(v, q, t, script, EventsOf(s, script)),
         v.next > Len(Phase(v, script)),
         v.err \/ (v.pc = "call" /\ script.outcome # "ok"), w.pc = "closing"
  PROVE  OrderRow(w, Append(q, Failed(s)), t, script, EventsOf(s, script))
<1> DEFINE items == ItemsOf(script)
           events == EventsOf(s, script)
           e == Failed(s)
<1>0. /\ Len(Phase(v, script)) \in Nat /\ Len(items) \in Nat /\ items \in Seq(Records \cup {BAD})
  BY ScriptFacts DEF Phase
<1>1. /\ v.count \in Nat /\ v.next \in Nat \ {0} /\ Len(q) \in Nat
      /\ v.pc = "final" => script.chunks = <<>> /\ script.outcome = "ok"
      /\ ~v.err => /\ v.next = v.count + 1 /\ v.count < Cut(items)
                   /\ v.count <= Len(Phase(v, script)) /\ t + Len(q) = v.count
      /\ v.err => /\ v.count = Cut(items) /\ v.count <= Len(items) /\ t + Len(q) = v.count - 1
      /\ \A i \in 1..Len(q) : q[i] = events[t + i]
  BY WorkFacts DEF Working
<1>2. Cut(items) \in 1..(Len(items) + 1) /\ Cut(items) \in Nat \ {0}
  BY <1>0, CutFacts
<1>3. /\ Len(events) = IF Cut(items) <= Len(items) \/ script.outcome # "ok" THEN Cut(items)
                       ELSE Cut(items) - 1
      /\ Cut(items) <= Len(items) \/ script.outcome # "ok" => events[Cut(items)] = e
  BY EventsFacts
<1>4. t + Len(q) + 1 = Cut(items) /\ (Cut(items) <= Len(items) \/ script.outcome # "ok")
  <2>1. CASE v.err
    <3>1. v.count = Cut(items) /\ v.count <= Len(items) /\ t + Len(q) = v.count - 1
      BY <1>1, <2>1
    <3> HIDE DEF items
    <3>2. t + Len(q) + 1 = Cut(items)
      BY <1>1, <1>2, <3>1
    <3> QED BY <3>1, <3>2
  <2>2. CASE ~v.err
    <3>1. v.pc = "call" /\ script.outcome # "ok"
      BY <2>2
    <3>2. items = Phase(v, script)
      BY <3>1, PhaseItems
    <3>3. v.count = Len(items) /\ Cut(items) = Len(items) + 1
      BY <1>0, <1>1, <1>2, <2>2, <3>2
    <3> QED BY <1>0, <1>1, <2>2, <3>1, <3>3
  <2> QED BY <2>1, <2>2
<1>5. Len(events) = Cut(items) /\ events[Cut(items)] = e
  BY <1>3, <1>4
<1>6. e \in Event
  BY DEF Failed, Event
<1> HIDE DEF events, e
<1>7. /\ t + Len(Append(q, e)) = t + Len(q) + 1
      /\ \A i \in 1..Len(Append(q, e)) : Append(q, e)[i] = events[t + i]
  <2>1. e = events[t + Len(q) + 1] /\ Follows(q, t, events)
    BY <1>1, <1>4, <1>5 DEF Follows
  <2>2. t + Len(Append(q, e)) = t + Len(q) + 1 /\ Follows(Append(q, e), t, events)
    BY <1>6, <2>1, ChannelGrows
  <2> QED BY <2>2 DEF Follows
<1>8. t + Len(Append(q, e)) = SentBy(w, events)
  BY <1>4, <1>5, <1>7 DEF SentBy
<1>9. OrderRow(w, Append(q, e), t, script, events)
  BY <1>7, <1>8 DEF OrderRow
<1> QED BY <1>9 DEF events, e

\* The driver takes the first event out of the channel.
LEMMA RowPops ==
  ASSUME NEW script, NEW w, NEW v, NEW q \in Seq(Event), q # <<>>, NEW t \in Nat,
         NEW events, OrderRow(v, q, t, script, events),
         w.pc = v.pc, w.next = v.next, w.count = v.count, w.err = v.err
  PROVE  Head(q) = events[t + 1] /\ OrderRow(w, Tail(q), t + 1, script, events)
<1>1. /\ Len(q) \in Nat \ {0} /\ Len(Tail(q)) = Len(q) - 1 /\ Head(q) = q[1]
      /\ \A i \in 1..Len(Tail(q)) : Tail(q)[i] = q[i + 1]
  BY TailFacts
<1>2. /\ t + Len(q) = SentBy(v, events) /\ \A i \in 1..Len(q) : q[i] = events[t + i]
      /\ v.pc \in {"new", "call", "io", "final"} => WorkRow(v, script)
  BY DEF OrderRow
<1>3. SentBy(w, events) = SentBy(v, events) /\ (WorkRow(v, script) => WorkRow(w, script))
  BY DEF SentBy, WorkRow, Refusals
<1>4. Head(q) = events[t + 1]
  BY <1>1, <1>2
<1>5. (t + 1) + Len(Tail(q)) = SentBy(w, events)
  <2>1. (t + 1) + Len(Tail(q)) = t + Len(q)
    BY <1>1
  <2> QED BY <1>2, <1>3, <2>1
<1>6. ASSUME NEW i \in 1..Len(Tail(q)) PROVE Tail(q)[i] = events[(t + 1) + i]
  <2>1. i + 1 \in 1..Len(q) /\ t + (i + 1) = (t + 1) + i
    BY <1>1
  <2>2. q[i + 1] = events[t + (i + 1)]
    BY <1>2, <2>1
  <2>3. Tail(q)[i] = q[i + 1]
    BY <1>1
  <2> QED BY <2>1, <2>2, <2>3
<1>7. w.pc \in {"new", "call", "io", "final"} => WorkRow(w, script)
  BY <1>2, <1>3
<1> QED BY <1>4, <1>5, <1>6, <1>7 DEF OrderRow

-----------------------------------------------------------------------------
(* Steps of a search *)

\* What the sources of a request have to say.
LEMMA HeardStreams ==
  ASSUME EngineTypes
  PROVE  /\ Heard(Streams) /\ Asked \in {<<>>, Order}
         /\ \A s \in Sources : IsScript(request.script[s])
         /\ \A s \in Sources : Streams[s] = EventsOf(s, request.script[s])
<1>1. request.script \in [Sources -> Scripts]
  BY DEF EngineTypes
<1>2. \A s \in Sources : IsScript(request.script[s])
  BY <1>1, EngineAssumption DEF IsScript
<1>3. \A s \in Sources : Streams[s] = EventsOf(s, request.script[s])
  BY DEF Streams, Script
<1>4. \A s \in Sources : /\ EventsOf(s, request.script[s]) \in Seq(Event)
                         /\ Len(EventsOf(s, request.script[s])) <= MaxRecords + 1
  BY <1>2, EventsFacts
<1>5. DOMAIN Streams = Sources /\ Streams = [s \in Sources |-> Streams[s]]
  BY DEF Streams
<1>6. Streams \in [Sources -> Seq(Event)]
  BY <1>3, <1>4, <1>5
<1> QED BY <1>2, <1>3, <1>4, <1>6 DEF Asked, Heard

\* They do not change.
LEMMA SameRequest ==
  ASSUME request' = request
  PROVE  Streams' = Streams /\ Asked' = Asked /\ Whole' = Whole /\ Diagnostics' = Diagnostics
<1>1. Streams' = Streams
  BY DEF Streams, Script
<1>2. Asked' = Asked
  BY DEF Asked
<1>3. Whole' = Whole
  BY <1>1, <1>2 DEF Whole
<1>4. Diagnostics' = Diagnostics
  BY DEF Diagnostics
<1> QED BY <1>1, <1>2, <1>3, <1>4

\* A step in which nothing is delivered or started.
LEMMA StillTracks ==
  ASSUME EngineInv, NEW m, Tracks(m),
         UNCHANGED <<request, initial, pending, running, seen, out>>,
         driver'.cursor = driver.cursor, driver'.pc = "dropped" <=> driver.pc = "dropped",
         driver'.pc = "ended" => IsComplete,
         \A r \in ToSet(running) : Row(r, m.taken[r]) => Row(r, m.taken[r])'
  PROVE  Tracks(m)'
<1>1. Diagnostics' = Diagnostics /\ Asked' = Asked
  BY SameRequest
<1>2. out' \o initial' = Diagnostics' \o m.output
  BY <1>1 DEF Tracks
<1>3. At("ended")' => IsComplete'
  BY DEF At, IsComplete
<1> SUFFICES ASSUME ~At("dropped")'
             PROVE  /\ seen' = m.keys
                    /\ Unasked(m)' \/ Asking(m)'
                    /\ \A r \in ToSet(running)' : Row(r, m.taken[r])'
  BY <1>2, <1>3 DEF Tracks
<1>4. /\ seen = m.keys /\ (Unasked(m) \/ Asking(m))
      /\ \A r \in ToSet(running) : Row(r, m.taken[r])
  BY DEF Tracks, At
<1>5. Unasked(m)' \/ Asking(m)'
  BY <1>1, <1>4 DEF Unasked, Asking
<1>6. \A r \in ToSet(running) : Row(r, m.taken[r])'
  BY <1>4
<1>7. ToSet(running)' = ToSet(running)
  OBVIOUS
<1> QED BY <1>4, <1>5, <1>6, <1>7

\* And at most one worker moves.
LEMMA QuietTracks ==
  ASSUME EngineInv, NEW m, Tracks(m), NEW s \in Sources,
         UNCHANGED <<request, initial, pending, running, seen, out>>,
         driver'.cursor = driver.cursor, driver'.pc = "dropped" <=> driver.pc = "dropped",
         driver'.pc = "ended" => IsComplete,
         \A r \in Sources : r # s => worker'[r] = worker[r] /\ queue'[r] = queue[r],
         Row(s, m.taken[s]) => Row(s, m.taken[s])'
  PROVE  Tracks(m)'
<1>1. ASSUME NEW r \in ToSet(running), Row(r, m.taken[r]) PROVE Row(r, m.taken[r])'
  <2>1. r \in Sources
    BY Elements DEF EngineInv, EngineTypes
  <2>2. CASE r = s
    BY <1>1, <2>2
  <2>3. CASE r # s
    BY <1>1, <2>1, <2>3 DEF Row
  <2> QED BY <2>2, <2>3
<1> QED BY <1>1, StillTracks

\* What is known of the row of a source that runs.
LEMMA HereFacts ==
  ASSUME EngineInv, NEW s \in Sources
  PROVE  /\ worker[s] \in WorkerRow /\ queue[s] \in Seq(Event)
         /\ IsScript(request.script[s])
         /\ worker[s].next \in Nat \ {0} /\ worker[s].count \in Nat /\ worker[s].err \in BOOLEAN
         /\ Items(s) = IF worker[s].pc = "final" THEN request.script[s].data
                       ELSE request.script[s].chunks
         /\ Items(s) = Phase(worker[s], request.script[s])
         /\ Script(s) = request.script[s]
         /\ Len(Items(s)) \in Nat
<1>1. /\ worker \in [Sources -> WorkerRow] /\ queue \in [Sources -> Seq(Event)] /\ EngineTypes
  BY DEF EngineInv, EngineTypes
<1>2. IsScript(request.script[s])
  BY <1>1, HeardStreams
<1>3. worker[s] \in WorkerRow /\ queue[s] \in Seq(Event)
  BY <1>1
<1>4. worker[s].next \in Nat \ {0} /\ worker[s].count \in Nat /\ worker[s].err \in BOOLEAN
  BY <1>3 DEF WorkerRow
<1>5. Items(s) = IF worker[s].pc = "final" THEN request.script[s].data
                 ELSE request.script[s].chunks
  BY DEF Items, Script
<1>6. Items(s) = Phase(worker[s], request.script[s])
  BY <1>5 DEF Phase
<1>7. Len(Items(s)) \in Nat
  BY ItemFacts
<1> QED BY <1>2, <1>3, <1>4, <1>5, <1>6, <1>7 DEF Script

\* Where a worker can be when its program counter is set, and its items.
LEMMA PcSet ==
  ASSUME NEW v \in WorkerRow, NEW p
  PROVE  /\ [v EXCEPT !.pc = p].pc = p /\ [v EXCEPT !.pc = p].next = v.next
         /\ [v EXCEPT !.pc = p].count = v.count /\ [v EXCEPT !.pc = p].err = v.err
         /\ [v EXCEPT !.pc = p, !.rested = TRUE].pc = p
         /\ [v EXCEPT !.pc = p, !.rested = TRUE].next = v.next
         /\ [v EXCEPT !.pc = p, !.rested = TRUE].count = v.count
         /\ [v EXCEPT !.pc = p, !.rested = TRUE].err = v.err
BY DEF WorkerRow

\* A worker whose program counter is set moves alone.
LEMMA PcAlone ==
  ASSUME EngineInv, NEW s \in Sources, NEW p,
         worker' = [worker EXCEPT ![s].pc = p]
           \/ worker' = [worker EXCEPT ![s].pc = p, ![s].rested = TRUE]
  PROVE  /\ \A r \in Sources : r # s => worker'[r] = worker[r]
         /\ worker'[s].pc = p /\ worker'[s].next = worker[s].next
         /\ worker'[s].count = worker[s].count /\ worker'[s].err = worker[s].err
<1>1. worker \in [Sources -> WorkerRow] /\ worker[s] \in WorkerRow
  BY DEF EngineInv, EngineTypes
<1>2. CASE worker' = [worker EXCEPT ![s].pc = p]
  <2> DEFINE w == [worker[s] EXCEPT !.pc = p]
  <2>1. worker' = [worker EXCEPT ![s] = w]
    BY <1>1, <1>2
  <2>2. w.pc = p /\ w.next = worker[s].next /\ w.count = worker[s].count /\ w.err = worker[s].err
    BY <1>1, PcSet
  <2> HIDE DEF w
  <2> QED BY <1>1, <2>1, <2>2
<1>3. CASE worker' = [worker EXCEPT ![s].pc = p, ![s].rested = TRUE]
  <2> DEFINE w == [worker[s] EXCEPT !.pc = p, !.rested = TRUE]
  <2>1. worker' = [worker EXCEPT ![s] = w]
    BY <1>1, <1>3
  <2>2. w.pc = p /\ w.next = worker[s].next /\ w.count = worker[s].count /\ w.err = worker[s].err
    BY <1>1, PcSet
  <2> HIDE DEF w
  <2> QED BY <1>1, <2>1, <2>2
<1> QED BY <1>2, <1>3

\* A worker that starts, waits, goes on or ends sends nothing.
LEMMA WaitTracks ==
  ASSUME EngineInv, NEW m, MergeOK(Streams, m), Tracks(m), NEW s \in Sources,
         BeginCall(s) \/ AwaitUpstream(s) \/ UpstreamAnswers(s) \/ Finish(s)
  PROVE  Tracks(m)'
<1>1. /\ UNCHANGED <<request, initial, pending, running, seen, out, queue>>
      /\ \E p : /\ worker' = [worker EXCEPT ![s].pc = p]
                     \/ worker' = [worker EXCEPT ![s].pc = p, ![s].rested = TRUE]
                /\ {p, worker[s].pc} \subseteq {"new", "call", "io"}
                     \/ {p, worker[s].pc} \subseteq {"closing", "done"}
  <2>1. CASE BeginCall(s)
    BY <2>1 DEF BeginCall, Runs, workerUnchanged
  <2>2. CASE AwaitUpstream(s)
    BY <2>2 DEF AwaitUpstream, Runs, workerUnchanged
  <2>3. CASE UpstreamAnswers(s)
    BY <2>3 DEF UpstreamAnswers, workerUnchanged
  <2>4. CASE Finish(s)
    BY <2>4 DEF Finish, Runs, workerUnchanged
  <2> QED BY <2>1, <2>2, <2>3, <2>4
<1>2. driver'.cursor = driver.cursor /\ driver'.pc = driver.pc
  BY DriverPass DEF BeginCall, AwaitUpstream, UpstreamAnswers, Finish, EngineInv
<1>3. driver'.pc = "ended" => IsComplete
  BY <1>2 DEF Tracks, At
<1>4. PICK p : /\ worker' = [worker EXCEPT ![s].pc = p]
                     \/ worker' = [worker EXCEPT ![s].pc = p, ![s].rested = TRUE]
               /\ {p, worker[s].pc} \subseteq {"new", "call", "io"}
                     \/ {p, worker[s].pc} \subseteq {"closing", "done"}
  BY <1>1
<1>5. /\ \A r \in Sources : r # s => worker'[r] = worker[r]
      /\ worker'[s].pc = p /\ worker'[s].next = worker[s].next
      /\ worker'[s].count = worker[s].count /\ worker'[s].err = worker[s].err
  BY <1>4, PcAlone
<1>6. ASSUME Row(s, m.taken[s]) PROVE Row(s, m.taken[s])'
  <2>1. m.taken[s] \in Nat
    BY DEF MergeOK
  <2>2. OrderRow(worker'[s], queue[s], m.taken[s], request.script[s],
                 EventsOf(s, request.script[s]))
    BY <1>4, <1>5, <1>6, <2>1, HereFacts, RowStays, SMTT(20) DEF Row
  <2> QED BY <1>1, <2>2 DEF Row
<1>7. \A r \in Sources : r # s => worker'[r] = worker[r] /\ queue'[r] = queue[r]
  BY <1>1, <1>5
<1> QED BY <1>1, <1>2, <1>3, <1>6, <1>7, QuietTracks

\* A call that has streamed nothing goes on to its data.
LEMMA FinalTracks ==
  ASSUME EngineInv, NEW m, MergeOK(Streams, m), Tracks(m), NEW s \in Sources, BeginFinal(s)
  PROVE  Tracks(m)'
<1>1. /\ UNCHANGED <<request, initial, pending, running, seen, out, queue, driver>>
      /\ worker[s].pc = "call" /\ worker[s].next > Len(Items(s)) /\ ~worker[s].err
      /\ request.script[s].outcome = "ok" /\ worker[s].count = 0
      /\ worker' = [worker EXCEPT ![s] = [@ EXCEPT !.pc = "final", !.next = 1]]
  BY DEF BeginFinal, Runs, workerUnchanged, Exhausted, Script
<1>2. driver'.pc = "ended" => IsComplete
  BY <1>1 DEF Tracks, At
<1> DEFINE one == 1
           w == [worker[s] EXCEPT !.pc = "final", !.next = one]
<1>3. worker[s] \in WorkerRow /\ worker \in [Sources -> WorkerRow]
  BY DEF EngineInv, EngineTypes
<1>4. worker' = [worker EXCEPT ![s] = w]
  BY <1>1, <1>3
<1>5. one \in Nat \ {0}
  OBVIOUS
<1> HIDE DEF one
<1>6. /\ w \in WorkerRow /\ w.pc = "final" /\ w.next = one /\ w.count = worker[s].count
      /\ w.err = worker[s].err
  BY <1>3, <1>5 DEF WorkerRow, WorkerPcs
<1> HIDE DEF w
<1>7. /\ worker'[s] = w /\ \A r \in Sources : r # s => worker'[r] = worker[r]
  BY <1>3, <1>4
<1>8. ASSUME Row(s, m.taken[s]) PROVE Row(s, m.taken[s])'
  <2>1. m.taken[s] \in Nat
    BY DEF MergeOK
  <2>2. worker[s].next > Len(request.script[s].chunks)
    BY <1>1, HereFacts
  <2>3. w.count = 0 /\ ~w.err /\ w.next = 1
    BY <1>1, <1>6 DEF one
  <2>4. OrderRow(w, queue[s], m.taken[s], request.script[s], EventsOf(s, request.script[s]))
    BY <1>1, <1>3, <1>6, <1>8, <2>1, <2>2, <2>3, HereFacts, RowTurnsFinal DEF Row
  <2> QED BY <1>1, <1>7, <2>4 DEF Row
<1>9. \A r \in Sources : r # s => worker'[r] = worker[r] /\ queue'[r] = queue[r]
  BY <1>1, <1>7
<1>10. driver'.cursor = driver.cursor /\ driver'.pc = driver.pc
  BY <1>1
<1> QED BY <1>1, <1>2, <1>8, <1>9, <1>10, QuietTracks

\* A call succeeds.
LEMMA SucceedTracks ==
  ASSUME EngineInv, NEW m, MergeOK(Streams, m), Tracks(m), NEW s \in Sources, Succeed(s)
  PROVE  Tracks(m)'
<1>1. /\ UNCHANGED <<request, initial, pending, running, seen, out, queue, driver>>
      /\ worker[s].pc \in {"call", "final"} /\ worker[s].next > Len(Items(s)) /\ ~worker[s].err
      /\ worker[s].pc = "final" \/ (request.script[s].outcome = "ok" /\ worker[s].count > 0)
      /\ worker' = [worker EXCEPT ![s].pc = "closing"]
  BY DEF Succeed, Runs, workerUnchanged, Exhausted, Script
<1>2. driver'.pc = "ended" => IsComplete
  BY <1>1 DEF Tracks, At
<1>3. /\ \A r \in Sources : r # s => worker'[r] = worker[r]
      /\ worker'[s].pc = "closing"
  BY <1>1, PcAlone
<1>4. ASSUME Row(s, m.taken[s]) PROVE Row(s, m.taken[s])'
  <2>1. m.taken[s] \in Nat
    BY DEF MergeOK
  <2>2. worker[s].next > Len(Phase(worker[s], request.script[s]))
    BY <1>1, HereFacts
  <2>3. OrderRow(worker'[s], queue[s], m.taken[s], request.script[s],
                 EventsOf(s, request.script[s]))
    BY <1>1, <1>3, <1>4, <2>1, <2>2, HereFacts, RowSucceeds DEF Row
  <2> QED BY <1>1, <2>3 DEF Row
<1>5. \A r \in Sources : r # s => worker'[r] = worker[r] /\ queue'[r] = queue[r]
  BY <1>1, <1>3
<1>6. driver'.cursor = driver.cursor /\ driver'.pc = driver.pc
  BY <1>1
<1> QED BY <1>1, <1>2, <1>4, <1>5, <1>6, QuietTracks

\* A call fails.
LEMMA FailTracks ==
  ASSUME EngineInv, NEW m, MergeOK(Streams, m), Tracks(m), NEW s \in Sources, Fail(s)
  PROVE  Tracks(m)'
<1>1. /\ UNCHANGED <<request, initial, pending, running, seen, out, driver>>
      /\ worker[s].pc \in {"call", "final"} /\ worker[s].next > Len(Items(s))
      /\ worker[s].err \/ (worker[s].pc = "call" /\ request.script[s].outcome # "ok")
  BY DEF Fail, Runs, workerUnchanged, Exhausted, Script
<1>2. driver'.pc = "ended" => IsComplete
  BY <1>1 DEF Tracks, At
<1>3. PICK w : /\ Moves(s, w) /\ w.pc = "closing"
               /\ queue' = [queue EXCEPT ![s] = Append(@, Failed(s))]
  BY FailFacts
<1>4. worker'[s] = w /\ \A r \in Sources : r # s => worker'[r] = worker[r]
  BY <1>3, MoveFacts
<1>5. /\ queue'[s] = Append(queue[s], Failed(s))
      /\ \A r \in Sources : r # s => queue'[r] = queue[r]
  BY <1>3 DEF EngineInv, EngineTypes
<1>6. ASSUME Row(s, m.taken[s]) PROVE Row(s, m.taken[s])'
  <2>1. m.taken[s] \in Nat
    BY DEF MergeOK
  <2>2. worker[s].next > Len(Phase(worker[s], request.script[s]))
    BY <1>1, HereFacts
  <2>3. OrderRow(w, Append(queue[s], Failed(s)), m.taken[s], request.script[s],
                 EventsOf(s, request.script[s]))
    BY <1>1, <1>3, <1>6, <2>1, <2>2, HereFacts, RowFails DEF Row
  <2> QED BY <1>1, <1>4, <1>5, <2>3 DEF Row
<1>7. \A r \in Sources : r # s => worker'[r] = worker[r] /\ queue'[r] = queue[r]
  BY <1>4, <1>5
<1>8. driver'.cursor = driver.cursor /\ driver'.pc = driver.pc
  BY <1>1
<1> QED BY <1>1, <1>2, <1>6, <1>7, <1>8, QuietTracks

\* What an item handed over, or refused, makes of the worker.
LEMMA SinkRow ==
  ASSUME NEW v \in WorkerRow, NEW n \in Nat, NEW b \in BOOLEAN
  PROVE  /\ Parks(HandedOver(v), b) \in WorkerRow /\ Parks(HandedOver(v), b).pc = v.pc
         /\ Parks(HandedOver(v), b).count = v.count + 1
         /\ Parks(HandedOver(v), b).next = v.next + 1
         /\ Parks(HandedOver(v), b).err = v.err
<1> DEFINE k == v.next + 1
           c == v.count + 1
<1>1. v.next \in Nat \ {0} /\ v.count \in Nat
  BY DEF WorkerRow
<1>2. k \in Nat \ {0} /\ c \in Nat
  BY <1>1
<1>3. HandedOver(v) = [v EXCEPT !.next = k, !.count = c, !.rested = FALSE]
  BY Zenon DEF HandedOver
<1> HIDE DEF k, c
<1> DEFINE u == [v EXCEPT !.next = k, !.count = c, !.rested = FALSE]
<1>4. u.next = k
  BY DEF WorkerRow
<1>5. u \in WorkerRow
  BY <1>3, SinkFacts DEF u
<1> HIDE DEF u
<1>6. Parks(u, b).next = u.next
  BY <1>5 DEF Parks, WorkerRow
<1>7. Parks(HandedOver(v), b).next = v.next + 1
  BY <1>3, <1>4, <1>6 DEF u, k
<1>8. Parks(HandedOver(v), b) \in WorkerRow /\ Parks(HandedOver(v), b).pc = v.pc
  BY SinkFacts
<1>9. Parks(HandedOver(v), b).count = v.count + 1
  BY SinkFacts
<1>10. Parks(HandedOver(v), b).err = v.err
  BY SinkFacts
<1> QED BY <1>7, <1>8, <1>9, <1>10

\* An item is handed over or refused.
LEMMA EmitTracks ==
  ASSUME EngineInv, NEW m, MergeOK(Streams, m), Tracks(m), NEW s \in Sources, EmitRecord(s)
  PROVE  Tracks(m)'
<1> DEFINE v == worker[s]
           n == Len(Items(s))
           x == Items(s)[worker[s].next]
           u == HandedOver(v)
           b == Len(queue[s]) + 1 > EventBuffer
           bad == Refused(v, n)
           sent == Parks(u, b)
<1>1. /\ UNCHANGED <<request, initial, pending, running, seen, out, driver>>
      /\ v.pc \in {"call", "final"} /\ v.next <= n
  BY DEF EmitRecord, Runs, workerUnchanged
<1>2. driver'.pc = "ended" => IsComplete
  BY <1>1 DEF Tracks, At
<1>3. /\ worker \in [Sources -> WorkerRow] /\ queue \in [Sources -> Seq(Event)]
      /\ v \in WorkerRow /\ n \in Nat /\ v.next \in Nat \ {0} /\ v.count \in Nat
      /\ n = Len(Phase(v, request.script[s])) /\ x = Phase(v, request.script[s])[v.next]
      /\ IsScript(request.script[s]) /\ queue[s] \in Seq(Event)
  BY HereFacts DEF EngineInv, EngineTypes
<1>4. b \in BOOLEAN
  OBVIOUS
<1>5. IF Rejected(v, x)
      THEN worker' = [worker EXCEPT ![s] = bad] /\ UNCHANGED queue
      ELSE Send(s, u, Record(s, x))
  BY Zenon DEF EmitRecord, HandedOver, Refused
<1>6. m.taken[s] \in Nat /\ MaxRecords \in Nat
  BY EngineAssumption DEF MergeOK
<1>7. ASSUME Row(s, m.taken[s])
      PROVE  Rejected(v, x) <=> v.err \/ ~Accepted(Phase(v, request.script[s]), v.next)
  <2>1. ~v.err => v.next = v.count + 1
    BY <1>1, <1>3, <1>6, <1>7, WorkFacts DEF Row, Working
  <2>2. CASE v.err
    BY <2>2 DEF Rejected
  <2>3. CASE ~v.err
    BY <1>3, <1>6, <2>1, <2>3 DEF Rejected, Accepted
  <2> QED BY <2>2, <2>3
<1>8. CASE Rejected(v, x)
  <2>1. worker' = [worker EXCEPT ![s] = bad] /\ UNCHANGED queue
    BY <1>5, <1>8
  <2>2. /\ bad \in WorkerRow /\ bad.pc = v.pc /\ bad.count = v.count + 1 /\ bad.err
        /\ bad.next = n + 1
    <3> HIDE DEF b
    <3>0. v \in WorkerRow /\ n \in Nat /\ b \in BOOLEAN
      BY <1>3, <1>4
    <3> HIDE DEF n, v
    <3>1. bad \in WorkerRow /\ bad.pc = v.pc
      BY <3>0, SinkFacts
    <3>2. bad.err
      BY <3>0, SinkFacts
    <3>3. bad.count = v.count + 1 /\ bad.parked = v.parked /\ bad.next = n + 1
      BY <3>0, SinkFacts
    <3> QED BY <3>1, <3>2, <3>3
  <2> HIDE DEF bad
  <2>3. worker'[s] = bad /\ \A r \in Sources : r # s => worker'[r] = worker[r]
    BY <1>3, <2>1
  <2>4. ASSUME Row(s, m.taken[s]) PROVE Row(s, m.taken[s])'
    <3>1. v.err \/ ~Accepted(Phase(v, request.script[s]), v.next)
      BY <1>7, <1>8, <2>4
    <3>2. OrderRow(bad, queue[s], m.taken[s], request.script[s], EventsOf(s, request.script[s]))
      BY <1>1, <1>3, <1>6, <2>2, <2>4, <3>1, RowRefuses DEF Row
    <3> QED BY <1>1, <2>1, <2>3, <3>2 DEF Row
  <2>5. \A r \in Sources : r # s => worker'[r] = worker[r] /\ queue'[r] = queue[r]
    BY <2>1, <2>3
  <2> QED BY <1>1, <1>2, <2>4, <2>5, QuietTracks
<1>9. CASE ~Rejected(v, x)
  <2>1. worker' = [worker EXCEPT ![s] = sent]
        /\ queue' = [queue EXCEPT ![s] = Append(@, Record(s, x))]
    BY <1>5, <1>9 DEF Send, Parks
  <2>2. /\ sent \in WorkerRow /\ sent.pc = v.pc /\ sent.count = v.count + 1
        /\ sent.next = v.next + 1 /\ sent.err = v.err
    <3> HIDE DEF v, b
    <3>0. v \in WorkerRow /\ b \in BOOLEAN /\ 0 \in Nat
      BY <1>3, <1>4
    <3>1. sent \in WorkerRow /\ sent.pc = v.pc
      BY <3>0, SinkRow
    <3>2. sent.count = v.count + 1 /\ sent.next = v.next + 1
      BY <3>0, SinkRow
    <3>3. sent.err = v.err
      BY <3>0, SinkRow
    <3> QED BY <3>1, <3>2, <3>3
  <2> HIDE DEF sent
  <2>3. worker'[s] = sent /\ \A r \in Sources : r # s => worker'[r] = worker[r]
    BY <1>3, <2>1
  <2>4. /\ queue'[s] = Append(queue[s], Record(s, x))
        /\ \A r \in Sources : r # s => queue'[r] = queue[r]
    BY <1>3, <2>1
  <2>5. ASSUME Row(s, m.taken[s]) PROVE Row(s, m.taken[s])'
    <3>1. ~v.err /\ Accepted(Phase(v, request.script[s]), v.next)
      BY <1>7, <1>9, <2>5
    <3>2. OrderRow(sent, Append(queue[s], Record(s, x)), m.taken[s], request.script[s],
                   EventsOf(s, request.script[s]))
      BY <1>1, <1>3, <1>6, <2>2, <2>5, <3>1, RowEmits DEF Row
    <3> QED BY <1>1, <2>3, <2>4, <3>2 DEF Row
  <2>6. \A r \in Sources : r # s => worker'[r] = worker[r] /\ queue'[r] = queue[r]
    BY <2>3, <2>4
  <2> QED BY <1>1, <1>2, <2>5, <2>6, QuietTracks
<1> QED BY <1>8, <1>9

-----------------------------------------------------------------------------
(* Steps of the driver *)

\* Joining lists.
LEMMA AppendJoined ==
  ASSUME NEW S, NEW a \in Seq(S), NEW b \in Seq(S), NEW e \in S
  PROVE  Append(a \o b, e) = a \o Append(b, e)
OBVIOUS

\* Moving the first element from one list to the end of the other.
LEMMA HeadMoves ==
  ASSUME NEW S, NEW a \in Seq(S), NEW b \in Seq(S), b # <<>>
  PROVE  Append(a, Head(b)) \o Tail(b) = a \o b
OBVIOUS

\* Taking nothing, or from nothing.
LEMMA FirstOfNone ==
  ASSUME NEW S, NEW q \in Seq(S), NEW n \in Nat, q = <<>> \/ n = 0
  PROVE  FirstOf(q, n) = <<>> /\ RestOf(q, n) = q
<1>1. /\ FirstOf(q, n) \in Seq(S) /\ RestOf(q, n) \in Seq(S)
      /\ Len(FirstOf(q, n)) = (IF n < Len(q) THEN n ELSE Len(q))
      /\ Len(RestOf(q, n)) = (IF n < Len(q) THEN Len(q) - n ELSE 0)
      /\ \A i \in 1..Len(RestOf(q, n)) : RestOf(q, n)[i] = q[i + n]
  BY SplitFacts
<1>2. Len(q) \in Nat /\ (q = <<>> <=> Len(q) = 0)
  BY Elements
<1>3. Len(FirstOf(q, n)) = 0 /\ Len(RestOf(q, n)) = Len(q)
  BY <1>1, <1>2
<1>4. FirstOf(q, n) = <<>>
  BY <1>1, <1>3, Elements
<1>5. \A i \in 1..Len(q) : RestOf(q, n)[i] = q[i]
  <2>1. CASE n = 0
    <3>1. \A i \in 1..Len(q) : i + n = i
      BY <1>2, <2>1
    <3> QED BY <1>1, <1>3, <3>1
  <2>2. CASE q = <<>>
    BY <1>2, <2>2
  <2> QED BY <2>1, <2>2
<1>6. RestOf(q, n) = q
  BY <1>1, <1>3, <1>5
<1> QED BY <1>4, <1>6

\* The consumer polls, and the driver goes to sleep or round again.
LEMMA PollTracks ==
  ASSUME EngineInv, NEW m, Tracks(m),
         PollNext \/ Decide \/ WorkersPolled \/ \E s \in Sources : SkipWorker(s)
  PROVE  Tracks(m)'
<1>1. /\ UNCHANGED <<request, initial, pending, running, seen, out, worker, queue>>
      /\ driver.pc # "dropped"
  BY DEF PollNext, Decide, WorkersPolled, SkipWorker, Polled, workerUnchanged, At
<1>2. /\ driver'.cursor = driver.cursor /\ driver'.pc # "dropped"
      /\ driver'.pc = "ended" => IsComplete
  <2>1. \A p \in {"rest", "drain", "workers", "drain2", "asleep", "ended", "dropped"} :
          Goto(p) => driver'.cursor = driver.cursor /\ driver'.pc = p
    BY DriverFacts DEF Goto, EngineInv
  <2>2. CASE PollNext
    BY <2>1, <2>2 DEF PollNext
  <2>3. CASE Decide
    BY <2>1, <2>3 DEF Decide
  <2>4. CASE WorkersPolled
    BY <2>1, <2>4 DEF WorkersPolled
  <2>5. CASE \E s \in Sources : SkipWorker(s)
    BY <2>5, DriverPass DEF SkipWorker, Polled, At, EngineInv
  <2> QED BY <2>2, <2>3, <2>4, <2>5
<1>3. \A r \in ToSet(running) : Row(r, m.taken[r]) => Row(r, m.taken[r])'
  BY <1>1 DEF Row
<1> QED BY <1>1, <1>2, <1>3, StillTracks

\* The consumer drops the stream.
LEMMA DropTracks ==
  ASSUME EngineInv, NEW m, Tracks(m), Drop
  PROVE  Tracks(m)'
<1>1. UNCHANGED <<request, initial, out>> /\ driver'.pc = "dropped"
  BY DriverFacts DEF Drop, Goto, EngineInv
<1>2. Diagnostics' = Diagnostics
  BY <1>1, SameRequest
<1> QED BY <1>1, <1>2 DEF Tracks, At

\* A diagnostic of the plan is delivered.
LEMMA InitialTracks ==
  ASSUME EngineInv, NEW m, Tracks(m), DrainInitial
  PROVE  Tracks(m)'
<1>1. /\ UNCHANGED <<request, seen>> /\ initial # <<>> /\ initial' = Tail(initial)
      /\ out' = Append(out, Head(initial)) /\ ~At("dropped")
      /\ driver'.pc = "rest" /\ driver'.cursor = driver.cursor
      /\ IF request.strict THEN pending' = <<>> /\ running' = <<>>
         ELSE UNCHANGED <<pending, running>>
  BY DriverFacts DEF DrainInitial, Draining, Goto, Stop, DropRunning, EngineInv, At
<1>2. seen = m.keys /\ Unasked(m)
  BY <1>1 DEF Tracks, Asking
<1>3. Diagnostics' = Diagnostics /\ Asked' = Asked
  BY <1>1, SameRequest
<1>4. out' \o initial' = Diagnostics' \o m.output
  <2>1. out \in Seq(Event) /\ initial \in Seq(Event)
    BY DEF EngineInv, EngineTypes
  <2>2. out' \o initial' = out \o initial
    BY <1>1, <2>1, HeadMoves
  <2> QED BY <1>3, <2>2 DEF Tracks
<1>5. request.missing # <<>>
  <2>1. m.output = <<>>
    BY <1>2 DEF Unasked, MergeStart, MergeState
  <2>2. out \o initial = Diagnostics \o <<>>
    BY <2>1 DEF Tracks
  <2>3. out \in Seq(Event) /\ initial \in Seq(Event) /\ request.missing \in Seq(STRING)
    BY EngineAssumption DEF EngineInv, EngineTypes
  <2>4. Len(out \o initial) # 0
    BY <1>1, <2>3
  <2>5. request.missing = <<>> => Diagnostics = <<>>
    BY DEF Diagnostics
  <2> QED BY <2>2, <2>4, <2>5
<1>6. /\ running' = <<>> /\ pending' \in {Order, Asked} /\ (initial' = <<>> => pending' = Asked)
  <2>1. CASE request.strict
    BY <1>1, <1>5, <2>1 DEF Asked
  <2>2. CASE ~request.strict
    BY <1>1, <1>2, <2>2 DEF Asked, Unasked
  <2> QED BY <2>1, <2>2
<1>7. Unasked(m)'
  BY <1>1, <1>2, <1>3, <1>6 DEF Unasked
<1>8. ToSet(running)' = {}
  BY <1>6 DEF ToSet
<1> QED BY <1>1, <1>2, <1>4, <1>7, <1>8 DEF Tracks, At

\* The receiver that is looked at is that of the source whose turn it is.
LEMMA ReceivingFacts ==
  ASSUME EngineInv, NEW m, MergeOK(Streams, m), Tracks(m), NEW s \in Sources, Receiving(s)
  PROVE  /\ ~At("dropped") /\ initial = <<>> /\ seen = m.keys
         /\ running = m.active /\ pending = m.waiting /\ m.active # <<>>
         /\ s = Turn(m) /\ Normalize(driver.cursor, running) = m.turn
         /\ NextCursor = (m.turn % Len(m.active)) + 1
         /\ m.taken[s] \in Nat /\ Row(s, m.taken[s])
         /\ out = Diagnostics \o m.output
<1>1. ~At("dropped") /\ initial = <<>> /\ running # <<>> /\ s = Current
  BY DEF Receiving, Draining, At
<1>2. seen = m.keys /\ Asking(m) /\ \A r \in ToSet(running) : Row(r, m.taken[r])
  BY <1>1 DEF Tracks, Unasked
<1>3. running = m.active /\ pending = m.waiting /\ driver.cursor = m.turn
  BY <1>1, <1>2 DEF Asking
<1>4. m.turn \in Nat \ {0} /\ m.turn <= Len(m.active) /\ m.taken \in [Sources -> Nat]
  BY <1>1, <1>3 DEF MergeOK
<1>5. Normalize(driver.cursor, running) = m.turn
  <2>1. Len(m.active) \in Nat
    BY <1>3, Elements DEF EngineInv, EngineTypes
  <2> QED BY <1>3, <1>4, <2>1 DEF Normalize
<1>6. s = Turn(m)
  BY <1>1, <1>3, <1>5 DEF Current, Turn
<1>7. NextCursor = (m.turn % Len(m.active)) + 1
  BY <1>3, <1>5 DEF NextCursor
<1>8. s \in ToSet(running)
  BY <1>1, CurrentFacts
<1>9. out = Diagnostics \o m.output
  <2>1. out \in Seq(Event)
    BY DEF EngineInv, EngineTypes
  <2>2. out \o <<>> = out
    BY <2>1
  <2> QED BY <1>1, <2>2 DEF Tracks
<1> QED BY <1>1, <1>2, <1>3, <1>4, <1>5, <1>6, <1>7, <1>8, <1>9

\* A source has never sent more than it has to say.
LEMMA SentBound ==
  ASSUME NEW s \in Sources, NEW script, IsScript(script), NEW w \in WorkerRow,
         NEW q \in Seq(Event), NEW t \in Nat, w.pc \in Started,
         OrderRow(w, q, t, script, EventsOf(s, script))
  PROVE  t + Len(q) <= Len(EventsOf(s, script)) /\ Len(EventsOf(s, script)) \in Nat
<1> DEFINE events == EventsOf(s, script)
           cut == Cut(ItemsOf(script))
<1>1. events \in Seq(Event) /\ (Len(events) = cut \/ Len(events) = cut - 1)
  BY EventsFacts
<1>2. Len(events) \in Nat /\ cut \in Nat
  BY <1>1, Elements, ScriptFacts, CutFacts
<1>3. CASE w.pc \in Working
  <2>1. /\ w.count \in Nat /\ Len(q) \in Nat
        /\ ~w.err => w.count < cut /\ t + Len(q) = w.count
        /\ w.err => w.count = cut /\ t + Len(q) = w.count - 1
    BY <1>3, WorkFacts
  <2> HIDE DEF events, cut
  <2>2. CASE w.err
    BY <1>1, <1>2, <2>1, <2>2 DEF events
  <2>3. CASE ~w.err
    BY <1>1, <1>2, <2>1, <2>3 DEF events
  <2> QED BY <2>2, <2>3
<1>4. CASE w.pc \notin Working
  <2>1. SentBy(w, events) = Len(events)
    BY <1>4 DEF SentBy, Started, Working
  <2>2. t + Len(q) = SentBy(w, events)
    BY DEF OrderRow
  <2> QED BY <1>2, <2>1, <2>2
<1> QED BY <1>3, <1>4

\* Its first event is the next one of the merge.
LEMMA ItemReceived ==
  ASSUME EngineInv, NEW m, MergeOK(Streams, m), Tracks(m), NEW s \in Sources, Receiving(s),
         queue[s] # <<>>
  PROVE  /\ Head(queue[s]) = Item(Streams, m) /\ Item(Streams, m) \in Event
         /\ m.taken[Turn(m)] # Len(Streams[Turn(m)])
         /\ \A w : w.pc = worker[s].pc /\ w.next = worker[s].next /\ w.count = worker[s].count
                     /\ w.err = worker[s].err =>
              OrderRow(w, Tail(queue[s]), m.taken[s] + 1, request.script[s],
                       EventsOf(s, request.script[s]))
<1> DEFINE t == m.taken[s]
           q == queue[s]
           script == request.script[s]
           events == EventsOf(s, script)
<1>1. s = Turn(m) /\ t \in Nat /\ OrderRow(worker[s], q, t, script, events) /\ m.active # <<>>
  BY ReceivingFacts DEF Row
<1>2. q \in Seq(Event) /\ IsScript(script) /\ worker[s] \in WorkerRow
  BY HereFacts
<1>3. events = Streams[s] /\ Heard(Streams)
  BY HeardStreams DEF EngineInv
<1> HIDE DEF t, q, script, events
<1>4. q # <<>>
  BY DEF q
<1>5. Head(q) = events[t + 1]
  <2>1. Head(q) = q[1] /\ Len(q) \in Nat \ {0}
    BY <1>2, <1>4, TailFacts
  <2> QED BY <1>1, <2>1 DEF OrderRow
<1>6. ASSUME NEW w, w.pc = worker[s].pc, w.next = worker[s].next, w.count = worker[s].count,
             w.err = worker[s].err
      PROVE  OrderRow(w, Tail(q), t + 1, script, events)
  BY <1>1, <1>2, <1>4, <1>6, RowPops
<1>7. t # Len(events)
  <2>1. worker[s].pc \in Started
    <3>1. s \in ToSet(running) /\ running \in Seq(Sources)
      BY CurrentFacts DEF Receiving, EngineInv, EngineTypes
    <3> QED BY <3>1, Elements DEF EngineInv, PlanOK
  <2>2. t + Len(q) <= Len(events) /\ Len(events) \in Nat
    BY <1>1, <1>2, <2>1, SentBound DEF events
  <2>3. Len(q) \in Nat \ {0}
    BY <1>2, <1>4, Elements
  <2> QED BY <1>1, <2>2, <2>3
<1>8. Item(Streams, m) = events[t + 1]
  BY <1>1, <1>3 DEF Item, t
<1>9. m.taken[Turn(m)] # Len(Streams[Turn(m)])
  BY <1>1, <1>3, <1>7 DEF t
<1>10. Item(Streams, m) \in Event
  BY <1>1, <1>3, <1>9, AdvanceFacts
<1> QED BY <1>5, <1>6, <1>8, <1>9, <1>10 DEF q, t, script, events

\* An event is taken, and delivered or not.
LEMMA TakenTracks ==
  ASSUME EngineInv, NEW m, MergeOK(Streams, m), Tracks(m), NEW s \in Sources, Receiving(s),
         queue[s] # <<>>, queue' = Popped(s), worker' = Unparked(s),
         driver'.cursor = NextCursor, driver'.pc \notin {"dropped", "ended"},
         UNCHANGED <<request, initial, pending, running>>,
         NEW output, NEW keys, seen' = keys, out' = Diagnostics \o output, output \in Seq(Event)
  PROVE  Tracks(TakenState(m, keys, output))'
<1> DEFINE n == TakenState(m, keys, output)
<1>1. /\ ~At("dropped") /\ initial = <<>> /\ running = m.active /\ pending = m.waiting
      /\ m.active # <<>> /\ s = Turn(m) /\ NextCursor = (m.turn % Len(m.active)) + 1
      /\ m.taken[s] \in Nat
  BY ReceivingFacts
<1>2. \A r \in ToSet(running) : Row(r, m.taken[r])
  BY <1>1 DEF Tracks
<1>3. /\ n.active = m.active /\ n.waiting = m.waiting /\ n.turn = NextCursor
      /\ n.taken = Advance(m) /\ n.keys = keys /\ n.output = output
  BY <1>1 DEF TakenState, MergeState
<1>4. /\ n.taken[s] = m.taken[s] + 1 /\ \A r \in Sources : r # s => n.taken[r] = m.taken[r]
  <2>1. Heard(Streams) /\ m.taken[Turn(m)] # Len(Streams[Turn(m)])
    BY HeardStreams, ItemReceived DEF EngineInv
  <2> QED BY <1>1, <1>3, <2>1, AdvanceFacts
<1> HIDE DEF n
<1>5. Diagnostics' = Diagnostics /\ Asked' = Asked
  BY SameRequest
<1>6. out' \o initial' = Diagnostics' \o n.output
  <2>1. Diagnostics \in Seq(Event)
    <3>1. request.missing \in Seq(STRING)
      BY EngineAssumption DEF EngineInv, EngineTypes
    <3>2. \A i \in 1..Len(request.missing) : Failed(request.missing[i]) \in Event
      BY <3>1, Elements DEF Failed, Event
    <3>3. Len(request.missing) \in Nat
      BY <3>1, Elements
    <3> QED BY <3>2, <3>3 DEF Diagnostics
  <2>2. Diagnostics \o output \in Seq(Event)
    BY <2>1
  <2>3. (Diagnostics \o output) \o <<>> = Diagnostics \o output
    BY <2>2
  <2> QED BY <1>1, <1>3, <1>5, <2>3
<1>7. Asking(n)'
  BY <1>1, <1>3 DEF Asking
<1>8. /\ worker \in [Sources -> WorkerRow] /\ queue \in [Sources -> Seq(Event)]
      /\ running \in Seq(Sources)
  BY DEF EngineInv, EngineTypes
<1>9. /\ \A r \in Sources : r # s => worker'[r] = worker[r] /\ queue'[r] = queue[r]
      /\ queue'[s] = Tail(queue[s])
      /\ worker'[s].pc = worker[s].pc /\ worker'[s].count = worker[s].count
      /\ worker'[s].err = worker[s].err /\ worker'[s].next = worker[s].next
  BY <1>8 DEF Popped, Unparked, WorkerRow
<1>10. ASSUME NEW r \in ToSet(running) PROVE Row(r, n.taken[r])'
  <2>1. r \in Sources
    BY <1>8, Elements
  <2>2. CASE r = s
    <3>1. OrderRow(worker'[s], Tail(queue[s]), m.taken[s] + 1, request.script[s],
                   EventsOf(s, request.script[s]))
      BY <1>9, ItemReceived
    <3> QED BY <1>4, <1>9, <2>2, <3>1 DEF Row
  <2>3. CASE r # s
    BY <1>2, <1>4, <1>9, <2>1, <2>3 DEF Row
  <2> QED BY <2>2, <2>3
<1>11. ToSet(running)' = ToSet(running)
  OBVIOUS
<1>12. Tracks(n)'
  BY <1>3, <1>6, <1>7, <1>10, <1>11 DEF Tracks, At
<1> QED BY <1>12 DEF n

\* What is appended to the output.
LEMMA OutGrows ==
  ASSUME EngineInv, NEW m, MergeOK(Streams, m), Tracks(m), NEW s \in Sources, Receiving(s),
         queue[s] # <<>>
  PROVE  /\ Append(out, Head(queue[s])) = Diagnostics \o Append(m.output, Item(Streams, m))
         /\ Append(m.output, Item(Streams, m)) \in Seq(Event) /\ m.output \in Seq(Event)
         /\ Diagnostics \in Seq(Event)
<1>1. Head(queue[s]) = Item(Streams, m) /\ Item(Streams, m) \in Event
  BY ItemReceived
<1>2. out = Diagnostics \o m.output /\ m.output \in Seq(Event)
  BY ReceivingFacts DEF MergeOK
<1>3. Diagnostics \in Seq(Event)
  <2>1. request.missing \in Seq(STRING)
    BY EngineAssumption DEF EngineInv, EngineTypes
  <2>2. \A i \in 1..Len(request.missing) : Failed(request.missing[i]) \in Event
    BY <2>1, Elements DEF Failed, Event
  <2>3. Len(request.missing) \in Nat
    BY <2>1, Elements
  <2> QED BY <2>2, <2>3 DEF Diagnostics
<1>4. Append(Diagnostics \o m.output, Item(Streams, m))
        = Diagnostics \o Append(m.output, Item(Streams, m))
  <2> DEFINE a == Diagnostics
             b == m.output
             e == Item(Streams, m)
  <2>1. a \in Seq(Event) /\ b \in Seq(Event) /\ e \in Event
    BY <1>1, <1>2, <1>3
  <2> HIDE DEF a, b, e
  <2>2. Append(a \o b, e) = a \o Append(b, e)
    BY <2>1
  <2> QED BY <2>2 DEF a, b, e
<1> QED BY <1>1, <1>2, <1>3, <1>4, AppendFacts

\* A record is taken.
LEMMA RecordTracks ==
  ASSUME EngineInv, NEW m, MergeOK(Streams, m), Tracks(m), NEW s \in Sources, DrainRecord(s),
         NEW n, n = MergeNext(Streams, request.strict, m)
  PROVE  Tracks(n)'
<1> DEFINE e == Head(queue[s])
           keys == DedupeKeys(s, e.record)
<1>1. /\ Receiving(s) /\ queue[s] # <<>> /\ e.type = "record"
      /\ queue' = Popped(s) /\ worker' = Unparked(s)
      /\ UNCHANGED <<request, initial, pending, running>>
      /\ \/ /\ keys \cap seen = {} /\ seen' = seen \cup keys /\ out' = Append(out, e)
            /\ driver' = [driver EXCEPT !.pc = "rest", !.cursor = NextCursor]
         \/ /\ ~(keys \cap seen = {}) /\ seen' = seen /\ out' = out
            /\ driver' = [driver EXCEPT !.cursor = NextCursor]
  BY DEF DrainRecord
<1>2. driver'.cursor = NextCursor /\ driver'.pc \notin {"dropped", "ended"}
  <2>1. driver \in DriverRow /\ driver.pc \in {"drain", "drain2"}
    BY <1>1 DEF EngineInv, EngineTypes, Receiving, Draining, At
  <2> QED BY <1>1, <2>1 DEF DriverRow
<1>3. seen = m.keys /\ s = Turn(m) /\ m.active # <<>> /\ out = Diagnostics \o m.output
  BY <1>1, ReceivingFacts
<1>4. e = Item(Streams, m) /\ m.taken[Turn(m)] # Len(Streams[Turn(m)])
  BY <1>1, ItemReceived
<1>5. keys = DedupeKeys(Turn(m), Item(Streams, m).record) /\ Item(Streams, m).type # "failed"
  BY <1>1, <1>3, <1>4
<1>6. /\ Append(out, e) = Diagnostics \o Append(m.output, e)
      /\ Append(m.output, e) \in Seq(Event) /\ m.output \in Seq(Event)
  BY <1>1, <1>4, OutGrows
<1> HIDE DEF keys, e
<1>7. \E k : \E o \in Seq(Event) :
        n = TakenState(m, k, o) /\ seen' = k /\ out' = Diagnostics \o o
  <2>1. CASE keys \cap seen = {}
    <3>1. n = TakenState(m, m.keys \cup keys, Append(m.output, e))
      BY <1>3, <1>4, <1>5, <2>1, NextGives, ZenonT(30)
    <3>2. seen' = m.keys \cup keys /\ out' = Diagnostics \o Append(m.output, e)
      BY <1>1, <1>3, <1>6, <2>1
    <3> QED BY <1>6, <3>1, <3>2
  <2>2. CASE ~(keys \cap seen = {})
    <3>1. n = TakenState(m, m.keys, m.output)
      BY <1>3, <1>4, <1>5, <2>2, NextGives
    <3>2. seen' = m.keys /\ out' = Diagnostics \o m.output
      BY <1>1, <1>3, <2>2
    <3> QED BY <1>6, <3>1, <3>2
  <2> QED BY <2>1, <2>2
<1>8. PICK k : \E o \in Seq(Event) :
        n = TakenState(m, k, o) /\ seen' = k /\ out' = Diagnostics \o o
  BY <1>7
<1>9. PICK o \in Seq(Event) : n = TakenState(m, k, o) /\ seen' = k /\ out' = Diagnostics \o o
  BY <1>8
<1>10. Tracks(TakenState(m, k, o))'
  BY <1>1, <1>2, <1>9, TakenTracks
<1> QED BY <1>9, <1>10

\* A failure is taken; in strict mode it is the last event.
LEMMA FailureTracks ==
  ASSUME EngineInv, NEW m, MergeOK(Streams, m), Tracks(m), NEW s \in Sources, DrainFailure(s),
         NEW n, n = MergeNext(Streams, request.strict, m)
  PROVE  Tracks(n)'
<1> DEFINE e == Head(queue[s])
<1>1. /\ Receiving(s) /\ queue[s] # <<>> /\ e.type = "failed" /\ out' = Append(out, e)
      /\ UNCHANGED <<request, initial, seen>>
  BY DEF DrainFailure
<1>2. /\ seen = m.keys /\ s = Turn(m) /\ m.active # <<>> /\ initial = <<>>
      /\ out = Diagnostics \o m.output
  BY <1>1, ReceivingFacts
<1>3. e = Item(Streams, m) /\ m.taken[Turn(m)] # Len(Streams[Turn(m)])
  BY <1>1, ItemReceived
<1>4. /\ out' = Diagnostics \o Append(m.output, e) /\ Diagnostics \in Seq(Event)
      /\ Append(m.output, e) \in Seq(Event)
  BY <1>1, <1>3, OutGrows
<1>5. driver \in DriverRow
  BY DEF EngineInv, EngineTypes
<1> HIDE DEF e
<1>6. PICK o \in Seq(Event) : o = Append(m.output, e)
  BY <1>4
<1>7. CASE request.strict
  <2>1. pending' = <<>> /\ running' = <<>> /\ driver'.pc = "rest"
    BY <1>5, <1>7 DEF DrainFailure, Stop, DropRunning, Goto, DriverRow
  <2>2. n = StoppedState(m, o)
    BY <1>1, <1>2, <1>3, <1>6, <1>7, NextFails
  <2>3. n.active = <<>> /\ n.waiting = <<>> /\ n.keys = m.keys /\ n.output = o
    BY <2>2 DEF StoppedState, MergeState
  <2>4. Diagnostics' = Diagnostics
    BY <1>1, SameRequest
  <2>5. out' \o initial' = Diagnostics' \o n.output
    <3>1. Diagnostics \o o \in Seq(Event)
      BY <1>4
    <3>2. (Diagnostics \o o) \o <<>> = Diagnostics \o o
      BY <3>1
    <3> QED BY <1>1, <1>2, <1>4, <1>6, <2>3, <2>4, <3>2
  <2>6. Asking(n)'
    BY <1>1, <1>2, <2>1, <2>3 DEF Asking
  <2>7. ToSet(running)' = {}
    BY <2>1 DEF ToSet
  <2> QED BY <1>1, <1>2, <2>1, <2>3, <2>5, <2>6, <2>7 DEF Tracks, At
<1>8. CASE ~request.strict
  <2>1. /\ queue' = Popped(s) /\ worker' = Unparked(s)
        /\ driver' = [driver EXCEPT !.pc = "rest", !.cursor = NextCursor]
        /\ UNCHANGED <<pending, running>>
    BY <1>8 DEF DrainFailure
  <2>2. driver'.cursor = NextCursor /\ driver'.pc \notin {"dropped", "ended"}
    BY <1>5, <2>1 DEF DriverRow
  <2>3. PICK k : k = m.keys
    OBVIOUS
  <2>4. n = TakenState(m, k, o)
    BY <1>1, <1>2, <1>3, <1>6, <1>8, <2>3, NextFails
  <2>5. Tracks(TakenState(m, k, o))'
    BY <1>1, <1>2, <1>4, <1>6, <2>1, <2>2, <2>3, TakenTracks
  <2> QED BY <2>4, <2>5
<1> QED BY <1>7, <1>8

\* The rows of the sources that run after new ones have started.
LEMMA StartedRows ==
  ASSUME EngineInv, NEW m, MergeOK(Streams, m), Tracks(m), ~At("dropped"),
         NEW list \in Seq(Sources), ToSet(list) \subseteq ToSet(running),
         StartReadySources(list), UNCHANGED <<request, queue>>,
         \A r \in ToSet(pending) : m.taken[r] = 0
  PROVE  \A r \in ToSet(running') : Row(r, m.taken[r])'
<1> DEFINE starting == FirstOf(pending, Room(list))
<1>1. /\ running' = list \o starting
      /\ worker' = [r \in Sources |-> IF r \in ToSet(starting) THEN NewWorker("new") ELSE worker[r]]
  BY DEF StartReadySources
<1>2. /\ pending \in Seq(Sources) /\ running \in Seq(Sources)
      /\ Len(list) \in Nat /\ Room(list) \in Nat
  <2>1. Len(list) \in Nat /\ MaxActive \in Nat
    BY Elements, EngineAssumption
  <2> QED BY <2>1 DEF Room, EngineInv, EngineTypes
<1>3. starting \in Seq(Sources) /\ ToSet(starting) \subseteq ToSet(pending)
  <2>1. /\ starting \in Seq(Sources) /\ \A i \in 1..Len(starting) : starting[i] = pending[i]
        /\ Len(starting) = (IF Room(list) < Len(pending) THEN Room(list) ELSE Len(pending))
    BY <1>2, SplitFacts
  <2>2. Len(pending) \in Nat /\ \A i \in 1..Len(pending) : pending[i] \in ToSet(pending)
    BY <1>2, Elements
  <2> HIDE DEF starting
  <2>3. \A i \in 1..Len(starting) : starting[i] \in ToSet(pending)
    <3>1. Len(starting) <= Len(pending) /\ Len(starting) \in Nat
      BY <1>2, <2>1, <2>2
    <3> QED BY <2>1, <2>2, <3>1
  <2>4. ToSet(starting) = {starting[i] : i \in 1..Len(starting)}
    BY <2>1, Elements
  <2> QED BY <2>1, <2>3, <2>4
<1> HIDE DEF starting
<1>4. ASSUME NEW r \in ToSet(list \o starting) PROVE r \in ToSet(list) \cup ToSet(starting)
  BY <1>2, <1>3 DEF ToSet
<1>5. \A r \in ToSet(running) : Row(r, m.taken[r])
  BY DEF Tracks
<1>6. ASSUME NEW r \in ToSet(running') PROVE Row(r, m.taken[r])'
  <2>1. r \in ToSet(list) \cup ToSet(starting)
    BY <1>1, <1>4
  <2>2. r \in Sources
    BY <1>3, <2>1, Elements
  <2>3. CASE r \in ToSet(starting)
    <3>1. worker'[r] = NewWorker("new")
      BY <1>1, <2>2, <2>3
    <3>2. r \in ToSet(pending)
      BY <1>3, <2>3
    <3>3. worker[r].pc = "none"
      BY <1>2, <3>2, Elements DEF EngineInv, PlanOK
    <3>4. queue[r] = <<>>
      BY <2>2, <3>3 DEF EngineInv, ChannelOK
    <3>5. IsScript(request.script[r])
      BY <2>2, HereFacts
    <3>6. OrderRow(NewWorker("new"), <<>>, 0, request.script[r], EventsOf(r, request.script[r]))
      BY <3>5, RowBegins
    <3> QED BY <3>1, <3>2, <3>4, <3>6 DEF Row
  <2>4. CASE r \notin ToSet(starting)
    <3>1. worker'[r] = worker[r] /\ r \in ToSet(running)
      BY <1>1, <2>1, <2>2, <2>4
    <3> QED BY <1>5, <3>1 DEF Row
  <2> QED BY <2>3, <2>4
<1> QED BY <1>6

\* A source that has given everything leaves.
LEMMA ClosedTracks ==
  ASSUME EngineInv, NEW m, MergeOK(Streams, m), Tracks(m), NEW s \in Sources, DrainClosed(s),
         NEW n, n = MergeNext(Streams, request.strict, m)
  PROVE  Tracks(n)'
<1> DEFINE at == Normalize(driver.cursor, running)
           rest == RemoveAt(running, at)
<1>1. /\ Receiving(s) /\ queue[s] = <<>> /\ worker[s].pc = "done" /\ StartReadySources(rest)
      /\ driver' = [driver EXCEPT !.cursor = Normalize(at, rest)]
      /\ UNCHANGED <<request, initial, queue, seen, out>>
  BY DEF DrainClosed
<1>2. /\ ~At("dropped") /\ initial = <<>> /\ seen = m.keys
      /\ running = m.active /\ pending = m.waiting /\ m.active # <<>>
      /\ s = Turn(m) /\ at = m.turn /\ m.taken[s] \in Nat /\ Row(s, m.taken[s])
  BY <1>1, ReceivingFacts
<1>3. /\ at \in 1..Len(running) /\ rest \in Seq(Sources) /\ Len(rest) = Len(running) - 1
      /\ Len(rest) <= MaxActive /\ ToSet(rest) \subseteq ToSet(running)
  BY <1>1, LeaverFacts
<1>4. m.taken[s] = Len(Streams[s])
  <2>1. m.taken[s] + Len(queue[s]) = SentBy(worker[s], EventsOf(s, request.script[s]))
    BY <1>2 DEF Row, OrderRow
  <2>2. SentBy(worker[s], EventsOf(s, request.script[s])) = Len(EventsOf(s, request.script[s]))
    BY <1>1 DEF SentBy
  <2>3. Streams[s] = EventsOf(s, request.script[s])
    BY HeardStreams DEF EngineInv
  <2>4. Len(queue[s]) = 0
    BY <1>1
  <2> QED BY <1>2, <2>1, <2>2, <2>3, <2>4
<1>5. n = LeftState(m)
  BY <1>2, <1>4, NextLeaves
<1>6. /\ n.active = Joining(m.active, m.waiting, m.turn) /\ n.turn = NextTurn(m.active, m.turn)
      /\ n.waiting = RestOf(m.waiting, 1) /\ n.taken = m.taken /\ n.keys = m.keys
      /\ n.output = m.output
  BY <1>5 DEF LeftState, MergeState
<1>7. rest = RemoveAt(m.active, m.turn)
  BY <1>2
<1>8. /\ FirstOf(m.waiting, Room(rest)) = FirstOf(m.waiting, 1)
      /\ RestOf(m.waiting, Room(rest)) = RestOf(m.waiting, 1)
  <2>1. /\ m.waiting \in Seq(Sources) /\ Len(m.active) \in Nat /\ MaxActive \in Nat
        /\ (m.waiting # <<>> => Len(m.active) = MaxActive) /\ Len(m.active) <= MaxActive
    BY Elements, EngineAssumption DEF MergeOK
  <2>2. Len(rest) = Len(m.active) - 1
    BY <1>2, <1>3
  <2>3. Len(m.active) \in Nat \ {0}
    BY <1>2, <2>1, Elements DEF MergeOK
  <2> HIDE DEF rest
  <2>4. Room(rest) \in Nat /\ (m.waiting # <<>> => Room(rest) = 1)
    BY <2>1, <2>2, <2>3 DEF Room
  <2>5. CASE m.waiting = <<>>
    <3> DEFINE one == 1
    <3>1. one \in Nat
      OBVIOUS
    <3> HIDE DEF one
    <3>2. FirstOf(m.waiting, one) = <<>> /\ RestOf(m.waiting, one) = m.waiting
      BY <2>1, <2>5, <3>1, FirstOfNone
    <3>3. FirstOf(m.waiting, Room(rest)) = <<>> /\ RestOf(m.waiting, Room(rest)) = m.waiting
      BY <2>1, <2>4, <2>5, FirstOfNone
    <3> QED BY <3>2, <3>3 DEF one
  <2>6. CASE m.waiting # <<>>
    BY <2>4, <2>6
  <2> QED BY <2>5, <2>6
<1>9. running' = n.active /\ pending' = n.waiting
  BY <1>1, <1>2, <1>6, <1>7, <1>8 DEF StartReadySources, Joining
<1>10. driver'.cursor = n.turn /\ driver'.pc = driver.pc
  <2>1. driver \in DriverRow
    BY DEF EngineInv, EngineTypes
  <2>2. Normalize(at, rest) = NextTurn(m.active, m.turn)
    BY <1>2, <1>7 DEF Normalize, NextTurn
  <2> HIDE DEF at, rest
  <2> QED BY <1>1, <1>6, <2>1, <2>2 DEF DriverRow
<1>11. \A r \in ToSet(running') : Row(r, m.taken[r])'
  <2>1. \A r \in ToSet(pending) : m.taken[r] = 0
    BY <1>2 DEF MergeOK
  <2> HIDE DEF rest
  <2> QED BY <1>1, <1>2, <1>3, <2>1, StartedRows
<1>12. Asking(n)'
  BY <1>1, <1>2, <1>9, <1>10 DEF Asking
<1>13. Diagnostics' = Diagnostics
  BY <1>1, SameRequest
<1>14. out' \o initial' = Diagnostics' \o n.output
  BY <1>1, <1>6, <1>13 DEF Tracks
<1>15. ~At("ended")'
  BY <1>1, <1>10 DEF Receiving, Draining, At
<1> QED BY <1>1, <1>2, <1>6, <1>11, <1>12, <1>14, <1>15 DEF Tracks

\* The first sources start; later there is nobody to start here.
LEMMA DryTracks ==
  ASSUME EngineInv, NEW m, MergeOK(Streams, m), Tracks(m), DrainDry
  PROVE  Tracks(m)'
<1>1. /\ ~At("dropped") /\ initial = <<>> /\ StartReadySources(running)
      /\ driver' = [driver EXCEPT !.pc = "workers", !.at = 1, !.progressed = FALSE]
      /\ UNCHANGED <<request, initial, queue, seen, out>>
  BY DEF DrainDry, NothingAvailable, At
<1>2. driver'.pc = "workers" /\ driver'.cursor = driver.cursor
  BY <1>1, DriverPass DEF EngineInv
<1>3. /\ running' = running \o FirstOf(pending, Room(running))
      /\ pending' = RestOf(pending, Room(running))
  BY <1>1 DEF StartReadySources
<1>4. /\ running \in Seq(Sources) /\ pending \in Seq(Sources) /\ Len(running) \in Nat
      /\ MaxActive \in Nat \ {0} /\ Room(running) \in Nat
  <2>1. running \in Seq(Sources) /\ pending \in Seq(Sources) /\ MaxActive \in Nat \ {0}
    BY EngineAssumption DEF EngineInv, EngineTypes
  <2>2. Len(running) \in Nat
    BY <2>1, Elements
  <2> QED BY <2>1, <2>2 DEF Room
<1>5. seen = m.keys /\ (Unasked(m) \/ Asking(m))
  BY <1>1 DEF Tracks
<1>6. Asking(m)' /\ \A r \in ToSet(pending) : m.taken[r] = 0
  <2>1. CASE Unasked(m)
    <3>1. running = <<>> /\ pending = Asked /\ driver.cursor = 1 /\ m = MergeStart(Asked)
      BY <1>1, <2>1 DEF Unasked
    <3>2. /\ m.active = FirstOf(Asked, MaxActive) /\ m.turn = 1
          /\ m.waiting = RestOf(Asked, MaxActive) /\ m.taken = [r \in Sources |-> 0]
      BY <3>1 DEF MergeStart, MergeState
    <3>3. Room(running) = MaxActive
      BY <1>4, <3>1 DEF Room
    <3>4. FirstOf(pending, MaxActive) \in Seq(Sources)
      BY <1>4, SplitFacts
    <3>5. running' = m.active
      BY <1>3, <3>1, <3>2, <3>3, <3>4
    <3>6. pending' = m.waiting
      BY <1>3, <3>1, <3>2, <3>3
    <3>7. \A r \in ToSet(pending) : m.taken[r] = 0
      BY <1>4, <3>2, Elements
    <3> QED BY <1>1, <1>2, <3>1, <3>2, <3>5, <3>6, <3>7 DEF Asking
  <2>2. CASE Asking(m)
    <3>1. /\ running = m.active /\ pending = m.waiting
          /\ running # <<>> => driver.cursor = m.turn
      BY <2>2 DEF Asking
    <3>2. (pending # <<>> => Len(running) = MaxActive) /\ \A r \in ToSet(pending) : m.taken[r] = 0
      BY <3>1 DEF MergeOK
    <3>3. pending = <<>> \/ Room(running) = 0
      BY <1>4, <3>2 DEF Room
    <3>4. FirstOf(pending, Room(running)) = <<>> /\ RestOf(pending, Room(running)) = pending
      BY <1>4, <3>3, FirstOfNone
    <3>5. running' = running /\ pending' = pending
      BY <1>3, <1>4, <3>4
    <3> QED BY <1>1, <1>2, <3>1, <3>2, <3>5 DEF Asking
  <2> QED BY <1>5, <2>1, <2>2
<1>7. \A r \in ToSet(running') : Row(r, m.taken[r])'
  BY <1>1, <1>4, <1>6, StartedRows
<1>8. Diagnostics' = Diagnostics
  BY <1>1, SameRequest
<1>9. out' \o initial' = Diagnostics' \o m.output
  BY <1>1, <1>8 DEF Tracks
<1> QED BY <1>1, <1>2, <1>5, <1>6, <1>7, <1>9 DEF Tracks, At

-----------------------------------------------------------------------------
(* The whole search *)

\* Every step is a step of the merge, or none.
LEMMA StepTracks ==
  ASSUME EngineInv, NEW m, MergeOK(Streams, m), Tracks(m), [EngineNext]_engineVars,
         NEW n, n = MergeNext(Streams, request.strict, m)
  PROVE  UNCHANGED request /\ (Tracks(m)' \/ Tracks(n)')
<1>1. CASE UNCHANGED engineVars
  <2>1. UNCHANGED <<request, initial, pending, running, worker, queue, driver, seen, out>>
    BY <1>1 DEF engineVars
  <2>2. \A r \in ToSet(running) : Row(r, m.taken[r]) => Row(r, m.taken[r])'
    BY <2>1 DEF Row
  <2>3. driver'.pc = "ended" => IsComplete
    BY <2>1 DEF Tracks, At
  <2>4. Tracks(m)'
    BY <2>1, <2>2, <2>3, StillTracks
  <2> QED BY <2>1, <2>4
<1>2. ASSUME NEW s \in Sources, BeginCall(s) \/ AwaitUpstream(s) \/ UpstreamAnswers(s) \/ Finish(s)
      PROVE  UNCHANGED request /\ Tracks(m)'
  BY <1>2, WaitTracks DEF BeginCall, AwaitUpstream, UpstreamAnswers, Finish, workerUnchanged
<1>3. ASSUME NEW s \in Sources, BeginFinal(s) \/ Succeed(s) \/ Fail(s) \/ EmitRecord(s)
      PROVE  UNCHANGED request /\ Tracks(m)'
  BY <1>3, FinalTracks, SucceedTracks, FailTracks, EmitTracks
     DEF BeginFinal, Succeed, Fail, EmitRecord, workerUnchanged
<1>4. CASE PollNext \/ Decide \/ WorkersPolled \/ \E s \in Sources : SkipWorker(s)
  BY <1>4, PollTracks DEF PollNext, Decide, WorkersPolled, SkipWorker, workerUnchanged
<1>5. CASE Drop
  BY <1>5, DropTracks DEF Drop
<1>6. CASE DrainInitial
  BY <1>6, InitialTracks DEF DrainInitial
<1>7. CASE DrainDry
  BY <1>7, DryTracks DEF DrainDry
<1>8. ASSUME NEW s \in Sources, DrainRecord(s)
      PROVE  UNCHANGED request /\ Tracks(n)'
  BY <1>8, RecordTracks DEF DrainRecord
<1>9. ASSUME NEW s \in Sources, DrainFailure(s)
      PROVE  UNCHANGED request /\ Tracks(n)'
  BY <1>9, FailureTracks DEF DrainFailure
<1>10. ASSUME NEW s \in Sources, DrainClosed(s)
       PROVE  UNCHANGED request /\ Tracks(n)'
  BY <1>10, ClosedTracks DEF DrainClosed
<1> QED
  BY <1>1, <1>2, <1>3, <1>4, <1>5, <1>6, <1>7, <1>8, <1>9, <1>10
     DEF EngineNext, PollStep, DriverStep, WorkerStep

\* Hence the invariant is kept.
LEMMA StepKeepsOrder ==
  ASSUME EngineInv, OrderInv, [EngineNext]_engineVars
  PROVE  OrderInv'
<1>1. PICK k \in Nat : \E m \in {Whole[k]} : Tracks(m)
  BY DEF OrderInv
<1>2. PICK m \in {Whole[k]} : Tracks(m)
  BY <1>1
<1>3. /\ Heard(Streams) /\ Asked \in {<<>>, Order}
  BY HeardStreams DEF EngineInv
<1>4. MergeOK(Streams, m)
  BY <1>2, <1>3, MergeRuns DEF Whole
<1>5. PICK n : n = MergeNext(Streams, request.strict, m)
  OBVIOUS
<1>6. Whole[k + 1] = n
  BY <1>2, <1>5, MergeIs DEF Whole
<1>7. UNCHANGED request /\ (Tracks(m)' \/ Tracks(n)')
  BY <1>2, <1>4, <1>5, StepTracks
<1>8. Whole' = Whole
  BY <1>7, SameRequest
<1>9. CASE Tracks(m)'
  BY <1>2, <1>8, <1>9 DEF OrderInv
<1>10. CASE Tracks(n)'
  <2>1. k + 1 \in Nat /\ n \in {Whole'[k + 1]}
    BY <1>6, <1>8
  <2> QED BY <1>10, <2>1 DEF OrderInv
<1> QED BY <1>7, <1>9, <1>10

\* At first nothing has been asked.
LEMMA OrderBegins ==
  ASSUME EngineInit
  PROVE  OrderInv
<1>1. EngineInv /\ EngineTypes
  BY EngineBegins DEF EngineInv
<1>2. PICK m \in {Whole[0]} : TRUE
  OBVIOUS
<1>3. m = MergeStart(Asked)
  BY <1>2, MergeIs DEF Whole
<1>4. /\ initial = Diagnostics /\ pending = Order /\ running = <<>> /\ seen = {} /\ out = <<>>
      /\ driver.cursor = 1 /\ driver.pc = "rest"
  BY DEF EngineInit
<1>5. m.output = <<>> /\ m.keys = {}
  BY <1>3 DEF MergeStart, MergeState
<1>6. initial \in Seq(Event) /\ request.missing \in Seq(STRING)
  BY <1>1, EngineAssumption DEF EngineTypes
<1>7. out \o initial = Diagnostics \o m.output
  BY <1>4, <1>5, <1>6
<1>8. initial = <<>> => pending = Asked
  <2>1. initial = <<>> => request.missing = <<>>
    <3>1. Len(request.missing) \in Nat /\ Len(Diagnostics) = Len(request.missing)
      BY <1>6, Elements DEF Diagnostics
    <3> QED BY <1>4, <1>6, <3>1
  <2> QED BY <1>4, <2>1 DEF Asked
<1>9. Unasked(m)
  BY <1>3, <1>4, <1>8 DEF Unasked
<1>10. ToSet(running) = {}
  BY <1>4 DEF ToSet
<1>11. Tracks(m)
  BY <1>4, <1>5, <1>7, <1>9, <1>10 DEF Tracks, At
<1> QED BY <1>2, <1>11 DEF OrderInv

\* A merge in progress has delivered the beginning of the whole output.
LEMMA TrackedIsStable ==
  ASSUME EngineInv, OrderInv
  PROVE  OrderStable
<1>1. PICK k \in Nat : \E m \in {Whole[k]} : Tracks(m)
  BY DEF OrderInv
<1>2. PICK m \in {Whole[k]} : Tracks(m)
  BY <1>1
<1>3. /\ Heard(Streams) /\ Asked \in {<<>>, Order}
  BY HeardStreams DEF EngineInv
<1> DEFINE all == Whole[MergeSteps].output
<1>4. /\ Extends(m, Whole[MergeSteps]) /\ MergeOK(Streams, m)
      /\ MergeOK(Streams, Whole[MergeSteps]) /\ (m.active = <<>> => Whole[MergeSteps] = m)
  BY <1>2, <1>3, MergeEnds DEF Whole
<1>5. /\ m.output \in Seq(Event) /\ all \in Seq(Event) /\ Len(m.output) <= Len(all)
      /\ \A i \in 1..Len(m.output) : all[i] = m.output[i]
  BY <1>4 DEF MergeOK, Extends
<1>6. out \in Seq(Event) /\ initial \in Seq(Event) /\ out \o initial = Diagnostics \o m.output
  BY <1>2 DEF EngineInv, EngineTypes, Tracks
<1>7. Diagnostics \in Seq(Event)
  <2>1. request.missing \in Seq(STRING)
    BY EngineAssumption DEF EngineInv, EngineTypes
  <2>2. \A i \in 1..Len(request.missing) : Failed(request.missing[i]) \in Event
    BY <2>1, Elements DEF Failed, Event
  <2>3. Len(request.missing) \in Nat
    BY <2>1, Elements
  <2> QED BY <2>2, <2>3 DEF Diagnostics
<1>8. IsPrefix(out, Reference)
  <2> DEFINE d == Diagnostics
             o == m.output
             w == Diagnostics \o all
  <2> HIDE DEF all
  <2>1. /\ Len(d) \in Nat /\ Len(o) \in Nat /\ Len(all) \in Nat /\ Len(out) \in Nat
        /\ Len(initial) \in Nat
    BY <1>5, <1>6, <1>7, Elements
  <2>2. w \in Seq(Event) /\ Len(w) = Len(d) + Len(all)
    BY <1>5, <1>7
  <2>3. Len(out) + Len(initial) = Len(d) + Len(o)
    BY <1>5, <1>6, <1>7
  <2>4. Len(out) <= Len(w)
    BY <1>5, <2>1, <2>2, <2>3
  <2>5. ASSUME NEW i \in 1..Len(out) PROVE out[i] = w[i]
    <3>1. (out \o initial)[i] = out[i]
      BY <1>6
    <3>2. i \in 1..(Len(d) + Len(o))
      BY <2>1, <2>3
    <3>3. (d \o o)[i] = w[i]
      <4>1. CASE i <= Len(d)
        <5>1. (d \o o)[i] = d[i] /\ (d \o all)[i] = d[i]
          BY <1>5, <1>7, <2>1, <3>2, <4>1
        <5> QED BY <5>1
      <4>2. CASE ~(i <= Len(d))
        <5>1. i - Len(d) \in 1..Len(o) /\ i - Len(d) \in 1..Len(all)
          BY <1>5, <2>1, <3>2, <4>2
        <5>2. (d \o o)[i] = o[i - Len(d)] /\ (d \o all)[i] = all[i - Len(d)]
          BY <1>5, <1>7, <2>1, <3>2, <4>2, <5>1
        <5> QED BY <1>5, <5>1, <5>2
      <4> QED BY <4>1, <4>2
    <3> QED BY <1>6, <3>1, <3>3
  <2>6. Reference = w
    BY DEF Reference, all
  <2> HIDE DEF w, d, o
  <2>7. out = SubSeq(w, 1, Len(out))
    <3>1. SubSeq(w, 1, Len(out)) \in Seq(Event) /\ Len(SubSeq(w, 1, Len(out))) = Len(out)
          /\ \A i \in 1..Len(out) : SubSeq(w, 1, Len(out))[i] = w[i]
      BY <2>1, <2>2, <2>4
    <3> QED BY <1>6, <2>5, <3>1
  <2>8. IsPrefix(out, w)
    BY <2>1, <2>2, <2>4, <2>5, <2>7 DEF IsPrefix
  <2> QED BY <2>6, <2>8
<1>9. ASSUME At("ended") PROVE out = Reference
  <2>1. initial = <<>> /\ running = <<>> /\ pending = <<>>
    BY <1>2, <1>9 DEF Tracks, IsComplete
  <2>2. Unasked(m) \/ Asking(m)
    BY <1>2, <1>9 DEF Tracks, At
  <2>3. m.active = <<>>
    <3>1. CASE Asking(m)
      BY <2>1, <3>1 DEF Asking
    <3>2. CASE Unasked(m)
      <4>1. m = MergeStart(<<>>)
        BY <2>1, <3>2 DEF Unasked
      <4>2. MergeStart(<<>>).active = <<>>
        BY <1>3, MergeBegins
      <4> QED BY <4>1, <4>2
    <3> QED BY <2>2, <3>1, <3>2
  <2>4. all = m.output
    BY <1>4, <2>3
  <2>5. out \o <<>> = out
    BY <1>6
  <2> QED BY <1>6, <2>1, <2>4, <2>5 DEF Reference
<1> QED BY <1>8, <1>9 DEF OrderStable

\* What the consumer of a search sees is a beginning of one order, and at the end all of
\* it: the order, which of two duplicates is kept and where a strict search stops do
\* not depend on which upstream answers first, on the size of the channels or on when
\* the task is polled.
THEOREM OrderIsStable == EngineSpec => []OrderStable
<1>1. EngineSpec => []EngineInv
  BY EngineKeepsInv
<1>2. EngineInit => OrderInv
  BY OrderBegins
<1>3. EngineInv /\ OrderInv /\ [EngineNext]_engineVars => OrderInv'
  BY StepKeepsOrder
<1>4. EngineInv /\ OrderInv => OrderStable
  BY TrackedIsStable
<1> QED BY <1>1, <1>2, <1>3, <1>4, PTL DEF EngineSpec

=============================================================================
