-------------------------- MODULE BroadcastProofs --------------------------
(***************************************************************************)
(* Proofs about Broadcast, for any number of connections, of runs and of      *)
(* queue entries.                                                          *)
(***************************************************************************)
EXTENDS Broadcast, QueueLemmas, FiniteSetTheorems

\* The queues in q that the iteration of p has passed over and not put to; or,
\* when it is over, all it was to put to.
Passed(p, q) ==
    {c \in p.due : \E i \in DOMAIN q : q[i] = c /\ (p.at \in Looping => i < p.index)}

\* What an iteration came to lies behind it, and it passes over no more queues
\* than left; it holds one queue at most, one it has not found full; and what it
\* found full and has not removed it has removed nowhere.
Iterates(p, q) ==
    /\ p.left \cap Range(q) = {}
    /\ \A i \in DOMAIN q : q[i] \in p.visited => i < p.index
    /\ Cardinality(Passed(p, q)) <= Cardinality(p.left)
    /\ IsInjective(p.dead) /\ Range(p.dead) \cap p.pruned = {}
    /\ p.q \cap Range(p.dead) = {} /\ \A c, d \in p.q : c = d
    /\ p.at \in Looping => Range(p.dead) \cup p.q \subseteq p.visited /\ p.pruned = {}

\* What it knows was once there, and what it found full is marked so.
Informed(p, a, f) ==
    /\ p.due \cup p.visited \cup p.left \subseteq {c \in Conns : a[c] # "none"}
    /\ Range(p.dead) \subseteq f

\* A listed queue is of a connection that came, and one that is served and not
\* listed was full.
Listed(q, a, f) ==
    /\ \A c \in Range(q) : a[c] # "none"
    /\ \A c \in Conns : a[c] \notin {"none", "gone"} => c \in Range(q) \cup f

RunRecords ==
    [at : Looping \cup {"working", "pruning", "over"},
     status : Statuses \cup {"none"}, index : Nat \ {0},
     q : SUBSET Conns, dead : Seq(Conns), due : SUBSET Conns,
     visited : SUBSET Conns, left : SUBSET Conns, pruned : SUBSET Conns]

\* The types, with nothing said about how long a queue may be.
Shape ==
    /\ queues \in Seq(Conns) /\ IsInjective(queues)
    /\ inbox \in [Conns -> Nat]
    /\ at \in [Conns -> {"none", "starting", "serving", "stopping", "removing", "gone"}]
    /\ client \in [Conns -> BOOLEAN] /\ listening \in [Conns -> BOOLEAN]
    /\ run \in [Runs -> RunRecords]
    /\ full \subseteq Conns

BroadcastInv ==
    /\ Shape
    /\ Listed(queues, at, full)
    /\ \A r \in Runs : Iterates(run[r], queues) /\ Informed(run[r], at, full)

-----------------------------------------------------------------------------
(* The list without one queue, and with one more *)

\* Removing a queue moves those behind it up by one, and leaves the others.
LEMMA WithoutFact ==
    ASSUME queues \in Seq(Conns), IsInjective(queues), NEW c \in Range(queues)
    PROVE  /\ Without(c) \in Seq(Conns) /\ IsInjective(Without(c))
           /\ Range(Without(c)) = Range(queues) \ {c}
           /\ \A i \in DOMAIN Without(c) :
                 \/ i \in DOMAIN queues /\ Without(c)[i] = queues[i]
                 \/ i + 1 \in DOMAIN queues /\ Without(c)[i] = queues[i + 1]
<1> DEFINE n == Len(queues)
           k == CHOOSE i \in DOMAIN queues : queues[i] = c
           p == SubSeq(queues, 1, k - 1)
           s == SubSeq(queues, k + 1, n)
           w == p \o s
<1>1. n \in Nat /\ DOMAIN queues = 1..n /\ \A i \in 1..n : queues[i] \in Conns
  BY ElementOfSeq
<1>2. k \in 1..n /\ queues[k] = c
  <2>1. \E i \in DOMAIN queues : queues[i] = c
    BY DEF Range
  <2> QED  BY <2>1, <1>1
<1>3. Without(c) = w
  BY DEF Without, RemoveAt
<1> HIDE DEF k
<1>4. /\ p \in Seq(Conns) /\ Len(p) = k - 1
      /\ \A i \in 1..(k - 1) : p[i] = queues[i]
  BY <1>1, <1>2
<1>5. /\ s \in Seq(Conns) /\ Len(s) = n - k
      /\ \A i \in 1..(n - k) : s[i] = queues[k + i]
  <2>1. k + 1 \in Int /\ n \in Int /\ \A i \in (k + 1)..n : queues[i] \in Conns
    BY <1>1, <1>2
  <2>2. /\ s \in Seq(Conns) /\ Len(s) = IF k + 1 <= n THEN n - (k + 1) + 1 ELSE 0
        /\ \A i \in 1..(n - (k + 1) + 1) : s[i] = queues[(k + 1) + i - 1]
    BY <2>1, SubSeqProperties
  <2>3. n - (k + 1) + 1 = n - k /\ \A i \in 1..(n - k) : (k + 1) + i - 1 = k + i
    BY <1>1, <1>2
  <2> HIDE DEF s
  <2>4. Len(s) = n - k
    <3>1. CASE k + 1 <= n
      BY <2>2, <2>3, <3>1
    <3>2. CASE ~(k + 1 <= n)
      <4>1. n - k = 0
        <5>1. n \in Int /\ k \in Int /\ k <= n
          BY <1>1, <1>2
        <5> HIDE DEF n
        <5> QED  BY <3>2, <5>1
      <4> QED  BY <2>2, <3>2, <4>1
    <3> QED  BY <3>1, <3>2
  <2>5. \A i \in 1..(n - k) : s[i] = queues[k + i]
    BY <2>2, <2>3
  <2> QED  BY <2>2, <2>4, <2>5
<1> HIDE DEF p, s
<1>6. /\ w \in Seq(Conns) /\ Len(w) = n - 1 /\ DOMAIN w = 1..(n - 1)
      /\ \A i \in 1..(n - 1) : w[i] = IF i < k THEN queues[i] ELSE queues[i + 1]
  <2>1. w \in Seq(Conns) /\ Len(w) = n - 1
    <3>1. w \in Seq(Conns) /\ Len(w) = Len(p) + Len(s)
      BY <1>4, <1>5, ConcatProperties
    <3> QED  BY <3>1, <1>1, <1>2, <1>4, <1>5
  <2>2. DOMAIN w = 1..(n - 1)
    BY <2>1
  <2>3. ASSUME NEW i \in 1..(n - 1)
        PROVE  w[i] = IF i < k THEN queues[i] ELSE queues[i + 1]
    <3>1. CASE i < k
      <4>1. i \in 1..Len(p)
        BY <1>1, <1>2, <1>4, <3>1
      <4> QED  BY <4>1, <3>1, <1>4, <1>5, ConcatProperties
    <3>2. CASE ~(i < k)
      <4>1. i \in (Len(p) + 1)..(Len(p) + Len(s)) /\ i - Len(p) \in 1..(n - k)
            /\ k + (i - Len(p)) = i + 1
        BY <1>1, <1>2, <1>4, <1>5, <3>2
      <4>2. w[i] = s[i - Len(p)]
        <5>1. i \in 1..(Len(p) + Len(s)) /\ ~(i <= Len(p))
          BY <1>1, <1>2, <1>4, <1>5, <3>2
        <5> QED  BY <5>1, <1>4, <1>5, ConcatProperties
      <4> QED  BY <4>1, <4>2, <1>5, <3>2
    <3> QED  BY <3>1, <3>2
  <2> QED  BY <2>1, <2>2, <2>3
<1> HIDE DEF w
<1>7. IsInjective(w)
  <2>1. ASSUME NEW i \in 1..(n - 1), NEW j \in 1..(n - 1), w[i] = w[j]
        PROVE  i = j
    <3>1. \A x, y \in 1..n : queues[x] = queues[y] => x = y
      BY <1>1 DEF IsInjective
    <3>2. i \in 1..n /\ j \in 1..n /\ i + 1 \in 1..n /\ j + 1 \in 1..n
      BY <1>1
    <3> QED  BY <3>1, <3>2, <2>1, <1>6, <1>2, <1>1
  <2> QED  BY <2>1, <1>6 DEF IsInjective
<1>8. Range(w) = Range(queues) \ {c}
  <2>1. ASSUME NEW i \in 1..(n - 1)
        PROVE  w[i] \in Range(queues) \ {c}
    <3>1. \A x, y \in 1..n : queues[x] = queues[y] => x = y
      BY <1>1 DEF IsInjective
    <3>2. PICK j \in 1..n : j # k /\ w[i] = queues[j]
      <4>1. CASE i < k
        BY <4>1, <1>6, <1>1, <1>2, i \in 1..n
      <4>2. CASE ~(i < k)
        <5>1. i + 1 \in 1..n /\ i + 1 # k /\ w[i] = queues[i + 1]
          BY <4>2, <1>6, <1>1, <1>2
        <5> QED  BY <5>1
      <4> QED  BY <4>1, <4>2
    <3>3. queues[j] # c
      BY <3>1, <3>2, <1>2
    <3> QED  BY <3>2, <3>3, <1>1 DEF Range
  <2>2. ASSUME NEW j \in 1..n, queues[j] # c
        PROVE  queues[j] \in Range(w)
    <3>1. CASE j < k
      <4>1. j \in 1..(n - 1) /\ w[j] = queues[j]
        BY <3>1, <1>1, <1>2, <1>6
      <4> QED  BY <4>1, <1>6 DEF Range
    <3>2. CASE ~(j < k)
      <4>1. j - 1 \in 1..(n - 1) /\ ~(j - 1 < k) /\ (j - 1) + 1 = j
        BY <3>2, <2>2, <1>1, <1>2
      <4>2. w[j - 1] = queues[j]
        BY <4>1, <1>6
      <4> QED  BY <4>1, <4>2, <1>6 DEF Range
    <3> QED  BY <3>1, <3>2
  <2> QED  BY <2>1, <2>2, <1>1, <1>6 DEF Range
<1>9. ASSUME NEW i \in DOMAIN w
      PROVE  \/ i \in DOMAIN queues /\ w[i] = queues[i]
             \/ i + 1 \in DOMAIN queues /\ w[i] = queues[i + 1]
  <2>1. i \in 1..n /\ i + 1 \in 1..n
    BY <1>6, <1>1
  <2> QED  BY <2>1, <1>6, <1>1
<1> QED  BY <1>3, <1>6, <1>7, <1>8, <1>9

\* A queue that others remove costs an iteration no more than one queue it
\* passes over.
LEMMA OtherRemoves ==
    ASSUME Shape, NEW p \in RunRecords, Iterates(p, queues),
           NEW c \in Range(queues)
    PROVE  LET p2 == IF p.at \in Looping THEN [p EXCEPT !.left = @ \cup {c}] ELSE p
           IN  p2 \in RunRecords /\ Iterates(p2, Without(c))
<1> DEFINE w == Without(c)
           p2 == IF p.at \in Looping THEN [p EXCEPT !.left = @ \cup {c}] ELSE p
<1>0. queues \in Seq(Conns) /\ IsInjective(queues) /\ c \in Conns
  <2>1. queues \in Seq(Conns) /\ IsInjective(queues)
    BY DEF Shape
  <2> QED  BY <2>1, ElementOfSeq DEF Range
<1>1. /\ w \in Seq(Conns) /\ Range(w) = Range(queues) \ {c}
      /\ \A i \in DOMAIN w :
            \/ i \in DOMAIN queues /\ w[i] = queues[i]
            \/ i + 1 \in DOMAIN queues /\ w[i] = queues[i + 1]
  BY <1>0, WithoutFact
<1> HIDE DEF w
<1>2. /\ p2 \in RunRecords
      /\ p2.at = p.at /\ p2.index = p.index /\ p2.q = p.q /\ p2.dead = p.dead /\ p2.due = p.due
      /\ p2.visited = p.visited /\ p2.pruned = p.pruned
      /\ p2.left = IF p.at \in Looping THEN p.left \cup {c} ELSE p.left
  BY <1>0 DEF RunRecords
<1> HIDE DEF p2
<1>3. p.index \in Nat /\ p.due \subseteq Conns /\ p.left \subseteq Conns
  BY DEF RunRecords
<1>4. DOMAIN w \subseteq Nat /\ DOMAIN queues \subseteq Nat
  <2>1. Len(w) \in Nat /\ DOMAIN w = 1..Len(w) /\ Len(queues) \in Nat /\ DOMAIN queues = 1..Len(queues)
    BY <1>1, <1>0
  <2> QED  BY <2>1
<1>5. p2.left \cap Range(w) = {}
  BY <1>1, <1>2 DEF Iterates
<1>6. \A i \in DOMAIN w : w[i] \in p2.visited => i < p2.index
  <2>1. \A i \in DOMAIN queues : queues[i] \in p.visited => i < p.index
    BY DEF Iterates
  <2> QED  BY <2>1, <1>1, <1>2, <1>3, <1>4
<1>7. IsFiniteSet(p.left) /\ IsFiniteSet(Passed(p, queues)) /\ IsFiniteSet(Passed(p2, w))
  <2>1. Passed(p, queues) \subseteq Conns /\ Passed(p2, w) \subseteq Conns
    BY <1>2, <1>3 DEF Passed
  <2> QED  BY <2>1, <1>3, BroadcastAssumption, FS_Subset DEF BroadcastAssumption
<1>8. Cardinality(Passed(p2, w)) <= Cardinality(p2.left)
  <2>1. /\ Cardinality(p.left) \in Nat /\ Cardinality(Passed(p, queues)) \in Nat
        /\ Cardinality(Passed(p2, w)) \in Nat
        /\ Cardinality(Passed(p, queues)) <= Cardinality(p.left)
    BY <1>7, FS_CardinalityType DEF Iterates
  <2>2. CASE p.at \in Looping
    <3>1. Cardinality(p2.left) = Cardinality(p.left) + 1
      <4>1. c \notin p.left
        BY DEF Iterates
      <4> QED  BY <4>1, <1>2, <1>7, <2>2, FS_AddElement
    <3>2. PICK x : Passed(p2, w) \subseteq Passed(p, queues) \cup {x}
      <4> SUFFICES Passed(p2, w) \subseteq Passed(p, queues) \cup {queues[p.index]}
        OBVIOUS
      <4> SUFFICES ASSUME NEW d \in p.due, NEW i \in DOMAIN w, w[i] = d, i < p.index,
                          d # queues[p.index]
                   PROVE  \E j \in DOMAIN queues : queues[j] = d /\ j < p.index
        BY <1>2, <2>2 DEF Passed
      <4>1. CASE i \in DOMAIN queues /\ w[i] = queues[i]
        BY <4>1
      <4>2. CASE i + 1 \in DOMAIN queues /\ w[i] = queues[i + 1]
        <5>1. i + 1 < p.index
          BY <4>2, <1>3, <1>4
        <5> QED  BY <5>1, <4>2
      <4> QED  BY <4>1, <4>2, <1>1
    <3>3. Cardinality(Passed(p, queues) \cup {x}) <= Cardinality(Passed(p, queues)) + 1
          /\ IsFiniteSet(Passed(p, queues) \cup {x})
          /\ Cardinality(Passed(p, queues) \cup {x}) \in Nat
      <4>1. /\ IsFiniteSet(Passed(p, queues) \cup {x})
            /\ Cardinality(Passed(p, queues) \cup {x})
                 = IF x \in Passed(p, queues) THEN Cardinality(Passed(p, queues))
                   ELSE Cardinality(Passed(p, queues)) + 1
        BY <1>7, FS_AddElement
      <4> QED  BY <4>1, <2>1
    <3>4. Cardinality(Passed(p2, w)) <= Cardinality(Passed(p, queues) \cup {x})
      BY <3>2, <3>3, FS_Subset
    <3> QED  BY <3>1, <3>3, <3>4, <2>1
  <2>3. CASE p.at \notin Looping
    <3>1. Passed(p2, w) \subseteq Passed(p, queues)
      BY <1>1, <1>2, <2>3 DEF Passed
    <3>2. Cardinality(Passed(p2, w)) <= Cardinality(Passed(p, queues))
      BY <3>1, <1>7, FS_Subset
    <3> QED  BY <3>2, <2>1, <1>2, <2>3
  <2> QED  BY <2>2, <2>3
<1>9. /\ IsInjective(p2.dead) /\ Range(p2.dead) \cap p2.pruned = {}
      /\ p2.q \cap Range(p2.dead) = {} /\ \A x, y \in p2.q : x = y
      /\ p2.at \in Looping => Range(p2.dead) \cup p2.q \subseteq p2.visited /\ p2.pruned = {}
  BY <1>2 DEF Iterates
<1>10. p2 \in RunRecords /\ Iterates(p2, w)
  BY <1>2, <1>5, <1>6, <1>8, <1>9 DEF Iterates
<1> QED  BY <1>10 DEF p2, w

\* A new queue is none an iteration knows of.
LEMMA OneMore ==
    ASSUME Shape, NEW p \in RunRecords, Iterates(p, queues),
           NEW c \in Conns, c \notin p.due \cup p.visited \cup p.left
    PROVE  Iterates(p, Append(queues, c))
<1> DEFINE q == Append(queues, c)
<1>1. /\ queues \in Seq(Conns) /\ Range(q) = Range(queues) \cup {c}
      /\ Len(queues) \in Nat /\ DOMAIN queues = 1..Len(queues)
      /\ DOMAIN q = 1..(Len(queues) + 1)
      /\ \A i \in 1..Len(queues) : q[i] = queues[i]
      /\ q[Len(queues) + 1] = c
  BY AppendInjects, AppendProperties DEF Shape
<1> HIDE DEF q
<1>2. \A i \in DOMAIN q : (i \in DOMAIN queues /\ q[i] = queues[i]) \/ q[i] = c
  BY <1>1
<1>3. \A i \in DOMAIN queues : i \in DOMAIN q /\ q[i] = queues[i]
  BY <1>1
<1>4. Passed(p, q) = Passed(p, queues)
  BY <1>2, <1>3 DEF Passed
<1>5. p.left \cap Range(q) = {}
  BY <1>1 DEF Iterates
<1>6. \A i \in DOMAIN q : q[i] \in p.visited => i < p.index
  BY <1>2 DEF Iterates
<1> QED  BY <1>4, <1>5, <1>6 DEF Iterates, q

-----------------------------------------------------------------------------
(* A run's own bookkeeping *)

\* No publication is under way.
LEMMA IdleFact ==
    ASSUME queues \in Seq(Conns), NEW x \in {"working", "over"}
    PROVE  Idle(x) \in RunRecords /\ Iterates(Idle(x), queues) /\ Informed(Idle(x), at, full)
<1> DEFINE p == Idle(x)
<1>1. /\ <<>> \in Seq(Conns) /\ IsInjective(<<>>) /\ Range(<<>>) = {}
  BY EmptyInjects
<1>2. /\ p \in RunRecords /\ p.at \notin Looping /\ p.index = 1 /\ p.q = {} /\ p.dead = <<>>
      /\ p.due = {} /\ p.visited = {} /\ p.left = {} /\ p.pruned = {}
  BY <1>1 DEF Idle, RunRecords, Looping
<1> HIDE DEF p
<1>3. Passed(p, queues) = {}
  BY <1>2 DEF Passed
<1>4. Iterates(p, queues)
  <2>1. Cardinality(Passed(p, queues)) <= Cardinality(p.left)
    BY <1>2, <1>3, FS_EmptySet
  <2> QED  BY <1>1, <1>2, <2>1 DEF Iterates
<1>5. Informed(p, at, full)
  BY <1>1, <1>2 DEF Informed
<1> QED  BY <1>2, <1>4, <1>5 DEF p

\* A publication that begins.
LEMMA FreshRun ==
    ASSUME queues \in Seq(Conns), Listed(queues, at, full), NEW w \in Statuses
    PROVE  LET p == Publication(w)
           IN  p \in RunRecords /\ Iterates(p, queues) /\ Informed(p, at, full)
<1> DEFINE p == Publication(w)
<1>1. /\ <<>> \in Seq(Conns) /\ IsInjective(<<>>) /\ Range(<<>>) = {}
  BY EmptyInjects
<1>2. Range(queues) \subseteq Conns
  BY ElementOfSeq DEF Range
<1>3. Len(queues) \in Nat /\ DOMAIN queues = 1..Len(queues)
  BY <1>2
<1>4. /\ p \in RunRecords /\ p.at \in Looping /\ p.index = 1 /\ p.q = {} /\ p.dead = <<>>
      /\ p.due = Range(queues) /\ p.visited = {} /\ p.left = {} /\ p.pruned = {}
  BY <1>1, <1>2 DEF Publication, RunRecords, Looping
<1> HIDE DEF p
<1>5. Passed(p, queues) = {}
  BY <1>4, <1>3 DEF Passed
<1>6. Cardinality(Passed(p, queues)) <= Cardinality(p.left)
  BY <1>4, <1>5, FS_EmptySet
<1>7. Iterates(p, queues)
  BY <1>1, <1>4, <1>6 DEF Iterates
<1>8. Informed(p, at, full)
  BY <1>1, <1>2, <1>4 DEF Informed, Listed
<1> QED  BY <1>4, <1>7, <1>8 DEF p

\* A queue that is taken is behind the iteration.
LEMMA TakeFact ==
    ASSUME BroadcastInv, NEW r \in Runs, NEW c \in Conns, AtQueue(r, c),
           NEW p \in RunRecords,
           p.at = "testing", p.index = run[r].index + 1, p.q = {c}, p.dead = run[r].dead,
           p.due = run[r].due \ {c}, p.visited = run[r].visited \cup {c},
           p.left = run[r].left, p.pruned = run[r].pruned
    PROVE  Iterates(p, queues) /\ Informed(p, at, full)
<1> DEFINE o == run[r]
<1>1. /\ o \in RunRecords /\ Iterates(o, queues) /\ Informed(o, at, full)
      /\ o.at = "iterating" /\ o.index <= Len(queues) /\ c = queues[o.index]
      /\ queues \in Seq(Conns) /\ IsInjective(queues)
  BY DEF BroadcastInv, Shape, AtQueue
<1>2. /\ p.at = "testing" /\ p.index = o.index + 1 /\ p.q = {c} /\ p.dead = o.dead
      /\ p.due = o.due \ {c} /\ p.visited = o.visited \cup {c}
      /\ p.left = o.left /\ p.pruned = o.pruned
  OBVIOUS
<1> HIDE DEF o
<1>3. /\ o.index \in Nat \ {0} /\ o.left \subseteq Conns /\ o.due \subseteq Conns
      /\ Len(queues) \in Nat /\ DOMAIN queues = 1..Len(queues)
  BY <1>1 DEF RunRecords
<1>4. o.at \in Looping /\ p.at \in Looping
  BY <1>1, <1>2 DEF Looping
<1>5. o.index \in DOMAIN queues /\ c \in Range(queues) /\ c \notin o.visited
  <2>1. o.index \in DOMAIN queues
    BY <1>1, <1>3
  <2> QED  BY <2>1, <1>1, <1>3 DEF Iterates, Range
<1>6. \A i \in DOMAIN queues : queues[i] \in p.visited => i < p.index
  <2> SUFFICES ASSUME NEW i \in DOMAIN queues, queues[i] \in p.visited
               PROVE  i < p.index
    OBVIOUS
  <2>1. CASE queues[i] \in o.visited
    BY <2>1, <1>1, <1>2, <1>3 DEF Iterates
  <2>2. CASE queues[i] = c
    <3>1. i = o.index
      BY <2>2, <1>1, <1>5 DEF IsInjective
    <3> QED  BY <3>1, <1>2, <1>3
  <2> QED  BY <2>1, <2>2, <1>2
<1>7. Passed(p, queues) \subseteq Passed(o, queues)
  <2> SUFFICES ASSUME NEW d \in o.due, d # c, NEW i \in DOMAIN queues, queues[i] = d, i < o.index + 1
               PROVE  i < o.index
    BY <1>2, <1>4 DEF Passed
  <2>1. i # o.index
    BY <1>1
  <2> QED  BY <2>1, <1>3
<1>8. Cardinality(Passed(p, queues)) <= Cardinality(p.left)
  <2>1. IsFiniteSet(o.left) /\ IsFiniteSet(Passed(o, queues))
    <3>1. Passed(o, queues) \subseteq Conns
      BY <1>3 DEF Passed
    <3> QED  BY <3>1, <1>3, BroadcastAssumption, FS_Subset DEF BroadcastAssumption
  <2>2. /\ Cardinality(o.left) \in Nat /\ Cardinality(Passed(o, queues)) \in Nat
        /\ Cardinality(Passed(p, queues)) <= Cardinality(Passed(o, queues))
        /\ Cardinality(Passed(p, queues)) \in Nat
    BY <2>1, <1>7, FS_CardinalityType, FS_Subset
  <2>3. Cardinality(Passed(o, queues)) <= Cardinality(o.left)
    BY <1>1 DEF Iterates
  <2> QED  BY <2>2, <2>3, <1>2
<1>9. /\ p.left \cap Range(queues) = {} /\ p.pruned = {}
      /\ IsInjective(p.dead) /\ Range(p.dead) \cup p.q \subseteq p.visited
      /\ p.q \cap Range(p.dead) = {} /\ \A x, y \in p.q : x = y
  BY <1>1, <1>2, <1>4, <1>5 DEF Iterates
<1>10. Iterates(p, queues)
  BY <1>6, <1>8, <1>9 DEF Iterates
<1>11. Informed(p, at, full)
  <2>1. at[c] # "none"
    BY <1>5 DEF BroadcastInv, Listed
  <2> QED  BY <2>1, <1>1, <1>2 DEF Informed
<1> QED  BY <1>10, <1>11

\* The steps on the queue that was taken move no queue to behind the index; one
\* that is found full is put on the list of those.
LEMMA PhaseFact ==
    ASSUME BroadcastInv, NEW r \in Runs, NEW p \in RunRecords, NEW f, full \subseteq f,
           run[r].at \in Looping, p.at \in Looping, p.q \subseteq run[r].q,
           \/ p.dead = run[r].dead
           \/ p.q = {} /\ \E c \in run[r].q \cap f : p.dead = Append(run[r].dead, c),
           p.index = run[r].index, p.due = run[r].due, p.visited = run[r].visited,
           p.left = run[r].left, p.pruned = run[r].pruned
    PROVE  Iterates(p, queues) /\ Informed(p, at, f)
<1> DEFINE o == run[r]
<1>1. o \in RunRecords /\ Iterates(o, queues) /\ Informed(o, at, full)
  BY DEF BroadcastInv, Shape
<1>2. /\ o.at \in Looping /\ p.at \in Looping /\ p.q \subseteq o.q
      /\ p.index = o.index /\ p.due = o.due /\ p.visited = o.visited
      /\ p.left = o.left /\ p.pruned = o.pruned
      /\ \/ p.dead = o.dead
         \/ p.q = {} /\ \E c \in o.q \cap f : p.dead = Append(o.dead, c)
  OBVIOUS
<1> HIDE DEF o
<1>3. /\ IsInjective(p.dead) /\ Range(p.dead) \subseteq Range(o.dead) \cup (o.q \cap f)
      /\ p.q \cap Range(p.dead) = {}
  <2>1. CASE p.dead = o.dead
    BY <2>1, <1>1, <1>2 DEF Iterates
  <2>2. ASSUME p.q = {}, NEW c \in o.q \cap f, p.dead = Append(o.dead, c)
        PROVE  /\ IsInjective(p.dead) /\ Range(p.dead) \subseteq Range(o.dead) \cup (o.q \cap f)
               /\ p.q \cap Range(p.dead) = {}
    <3>1. o.dead \in Seq(Conns) /\ c \in Conns
      BY <1>1 DEF RunRecords
    <3>2. IsInjective(o.dead) /\ c \notin Range(o.dead)
      BY <1>1 DEF Iterates
    <3> QED  BY <3>1, <3>2, <2>2, AppendInjects
  <2> QED  BY <2>1, <2>2, <1>2
<1>4. Passed(p, queues) = Passed(o, queues)
  BY <1>2 DEF Passed
<1>5. /\ p.left \cap Range(queues) = {}
      /\ \A i \in DOMAIN queues : queues[i] \in p.visited => i < p.index
      /\ Cardinality(Passed(p, queues)) <= Cardinality(p.left)
      /\ p.pruned = {} /\ Range(o.dead) \cup o.q \subseteq p.visited
      /\ \A x, y \in p.q : x = y
  BY <1>1, <1>2, <1>4 DEF Iterates
<1>6. Iterates(p, queues)
  BY <1>2, <1>3, <1>5 DEF Iterates
<1>7. Informed(p, at, f)
  BY <1>1, <1>2, <1>3 DEF Informed
<1> QED  BY <1>6, <1>7

\* What is known stays known while endpoints go on and end.
LEMMA InformedOn ==
    ASSUME NEW p, NEW a, NEW f, NEW a2, NEW f2, Informed(p, a, f),
           f \subseteq f2,
           \A c \in Conns : a[c] # "none" => a2[c] # "none"
    PROVE  Informed(p, a2, f2)
BY DEF Informed

\* A removal, seen by all runs.
LEMMA AllNotice ==
    ASSUME BroadcastInv, NEW c \in Range(queues),
           NEW runs \in [Runs -> RunRecords],
           \A r \in Runs : Iterates(runs[r], queues) /\ Informed(runs[r], at, full)
    PROVE  /\ Noticing(c, runs) \in [Runs -> RunRecords]
           /\ \A r \in Runs : Iterates(Noticing(c, runs)[r], Without(c))
                              /\ Informed(Noticing(c, runs)[r], at, full)
<1>1. c \in Conns /\ at[c] # "none"
  <2>1. queues \in Seq(Conns)
    BY DEF BroadcastInv, Shape
  <2> QED  BY <2>1, ElementOfSeq DEF Range, BroadcastInv, Listed
<1>2. ASSUME NEW r \in Runs
      PROVE  LET p == Noticing(c, runs)[r]
             IN  p \in RunRecords /\ Iterates(p, Without(c)) /\ Informed(p, at, full)
  <2> DEFINE o == runs[r]
             p == IF o.at \in Looping THEN [o EXCEPT !.left = @ \cup {c}] ELSE o
  <2>1. Noticing(c, runs)[r] = p
    BY DEF Noticing
  <2>2. o \in RunRecords /\ Iterates(o, queues) /\ Informed(o, at, full)
    OBVIOUS
  <2>3. p \in RunRecords /\ Iterates(p, Without(c))
    BY <2>2, OtherRemoves DEF BroadcastInv
  <2>4. /\ p.due = o.due /\ p.visited = o.visited /\ p.dead = o.dead
        /\ p.left \subseteq o.left \cup {c}
    BY <2>2 DEF RunRecords
  <2>5. Informed(p, at, full)
    BY <2>2, <2>4, <1>1 DEF Informed
  <2> QED  BY <2>1, <2>3, <2>5
<1>3. Noticing(c, runs) = [r \in Runs |-> Noticing(c, runs)[r]]
  BY DEF Noticing
<1> QED  BY <1>2, <1>3

-----------------------------------------------------------------------------
(* The invariant *)

\* A step of an endpoint that leaves the list alone.
LEMMA ConnKeeps ==
    ASSUME BroadcastInv, Shape', UNCHANGED <<queues, run, full>>,
           \A c \in Conns : at[c] # "none" <=> at'[c] # "none",
           \A c \in Conns : at[c] = "gone" => at'[c] = "gone"
    PROVE  BroadcastInv'
<1>1. Range(queues) \subseteq Conns
  <2>1. queues \in Seq(Conns)
    BY DEF BroadcastInv, Shape
  <2> QED  BY <2>1, ElementOfSeq DEF Range
<1>2. Listed(queues, at', full')
  BY <1>1 DEF BroadcastInv, Listed
<1>3. ASSUME NEW r \in Runs
      PROVE  Iterates(run[r], queues) /\ Informed(run[r], at', full')
  <2>1. Iterates(run[r], queues) /\ Informed(run[r], at, full)
    BY DEF BroadcastInv
  <2> QED  BY <2>1, InformedOn
<1> QED  BY <1>2, <1>3 DEF BroadcastInv

\* A step of a run that leaves the list alone.
LEMMA RunKeeps ==
    ASSUME BroadcastInv, NEW r \in Runs, NEW p \in RunRecords,
           run' = [run EXCEPT ![r] = p], UNCHANGED <<queues, connVars>>,
           inbox' \in [Conns -> Nat], full \subseteq full', full' \subseteq Conns,
           Iterates(p, queues), Informed(p, at, full')
    PROVE  BroadcastInv'
<1>1. Shape'
  BY DEF BroadcastInv, Shape, connVars
<1>2. Listed(queues, at, full')
  BY DEF BroadcastInv, Listed
<1>3. ASSUME NEW q \in Runs
      PROVE  Iterates(run'[q], queues) /\ Informed(run'[q], at, full')
  <2>1. CASE q = r
    BY <2>1 DEF BroadcastInv, Shape
  <2>2. CASE q # r
    <3>1. run'[q] = run[q] /\ Iterates(run[q], queues) /\ Informed(run[q], at, full)
      BY <2>2 DEF BroadcastInv, Shape
    <3> QED  BY <3>1, InformedOn
  <2> QED  BY <2>1, <2>2
<1> QED  BY <1>1, <1>2, <1>3 DEF BroadcastInv, connVars

LEMMA BroadcastStart == Init => BroadcastInv
<1> SUFFICES ASSUME Init PROVE BroadcastInv
  OBVIOUS
<1>1. PICK s \in Scenarios :
        LET Served == Range(s.served)
        IN  /\ queues = s.served
            /\ inbox = [c \in Conns |-> IF c \in Served THEN s.backlog[c] ELSE 0]
            /\ at = [c \in Conns |-> IF c \in Served THEN "serving"
                                     ELSE IF c \in s.coming THEN "none" ELSE "gone"]
            /\ client = [c \in Conns |-> c \in Served]
            /\ listening = client
            /\ run = [r \in Runs |-> IF r \in s.reporting THEN Publication("failed")
                                     ELSE Idle(IF r \in s.working THEN "working" ELSE "over")]
            /\ full = {}
  BY DEF Init
<1>2. /\ queues \in Seq(Conns) /\ IsInjective(queues) /\ QueueCap \in Nat
      /\ s.backlog \in [Conns -> 0..QueueCap]
  BY <1>1, BroadcastAssumption DEF BroadcastAssumption
<1>3. Range(queues) \subseteq Conns
  BY <1>2, ElementOfSeq DEF Range
<1>4. Listed(queues, at, full)
  BY <1>1, <1>3 DEF Listed
<1>5. ASSUME NEW x \in {"working", "over"}
      PROVE  Idle(x) \in RunRecords /\ Iterates(Idle(x), queues) /\ Informed(Idle(x), at, full)
  BY <1>2, IdleFact
<1>6. LET p == Publication("failed")
      IN  p \in RunRecords /\ Iterates(p, queues) /\ Informed(p, at, full)
  BY <1>2, <1>4, FreshRun DEF Statuses
<1>7. run \in [Runs -> RunRecords] /\ \A r \in Runs : Iterates(run[r], queues) /\ Informed(run[r], at, full)
  BY <1>1, <1>5, <1>6
<1>8. Shape
  <2>1. inbox \in [Conns -> Nat]
    BY <1>1, <1>2
  <2>2. at \in [Conns -> {"none", "starting", "serving", "stopping", "removing", "gone"}]
    BY <1>1
  <2>3. client \in [Conns -> BOOLEAN] /\ listening \in [Conns -> BOOLEAN] /\ full \subseteq Conns
    BY <1>1
  <2> QED  BY <1>2, <1>7, <2>1, <2>2, <2>3 DEF Shape
<1> QED  BY <1>4, <1>7, <1>8 DEF BroadcastInv

\* Endpoints.
LEMMA StepAccept == ASSUME BroadcastInv, NEW c \in Conns, Accept(c) PROVE BroadcastInv'
<1>1. /\ at[c] = "none" /\ at' = [at EXCEPT ![c] = "starting"]
      /\ client' = [client EXCEPT ![c] = TRUE] /\ queues' = Append(queues, c)
      /\ UNCHANGED <<inbox, listening, run, full>>
  BY DEF Accept
<1>2. queues \in Seq(Conns) /\ IsInjective(queues) /\ Shape /\ Listed(queues, at, full)
  BY DEF BroadcastInv, Shape
<1>3. c \notin Range(queues)
  BY <1>1, <1>2 DEF Listed
<1>4. queues' \in Seq(Conns) /\ IsInjective(queues') /\ Range(queues') = Range(queues) \cup {c}
  BY <1>1, <1>2, <1>3, AppendInjects, AppendProperties
<1>5. Shape'
  BY <1>1, <1>2, <1>4 DEF Shape
<1>6. \A d \in Conns : at'[d] = IF d = c THEN "starting" ELSE at[d]
  BY <1>1, <1>2 DEF Shape
<1>7. Range(queues) \subseteq Conns
  BY <1>2, ElementOfSeq DEF Range
<1>8. Listed(queues', at', full')
  BY <1>1, <1>2, <1>4, <1>6, <1>7 DEF Listed
<1>9. ASSUME NEW r \in Runs
      PROVE  Iterates(run[r], queues') /\ Informed(run[r], at', full)
  <2>1. Iterates(run[r], queues) /\ Informed(run[r], at, full) /\ run[r] \in RunRecords
    BY <1>2 DEF BroadcastInv, Shape
  <2>2. c \notin run[r].due \cup run[r].visited \cup run[r].left
    BY <2>1, <1>1 DEF Informed
  <2>3. Iterates(run[r], queues')
    BY <2>1, <2>2, <1>1, <1>2, OneMore
  <2>4. \A d \in Conns : at[d] # "none" => at'[d] # "none"
    BY <1>6
  <2>5. Informed(run[r], at', full)
    BY <2>1, <2>4, InformedOn
  <2> QED  BY <2>3, <2>5
<1> QED  BY <1>1, <1>5, <1>8, <1>9 DEF BroadcastInv

LEMMA StepConn ==
    ASSUME BroadcastInv, NEW c \in Conns,
           \/ ClientLeaves(c) \/ SendInit(c) \/ StartFails(c) \/ ReaderLeaves(c)
           \/ BadMessage(c) \/ Forward(c) \/ Gathered(c)
    PROVE  BroadcastInv'
<1>1. Shape
  BY DEF BroadcastInv
<1>3. CASE ClientLeaves(c) \/ Forward(c)
  <2>1. /\ UNCHANGED <<queues, at, run, full>>
        /\ client' \in [Conns -> BOOLEAN] /\ listening' \in [Conns -> BOOLEAN]
        /\ inbox' \in [Conns -> Nat]
    <3>1. CASE ClientLeaves(c)
      BY <3>1, <1>1 DEF ClientLeaves, Shape
    <3>2. CASE Forward(c)
      <4>1. inbox[c] - 1 \in Nat
        BY <3>2, <1>1 DEF Forward, Shape
      <4> QED  BY <4>1, <3>2, <1>1 DEF Forward, Shape
    <3> QED  BY <3>1, <3>2, <1>3
  <2>2. Shape'
    BY <1>1, <2>1 DEF Shape
  <2> QED  BY <2>1, <2>2, ConnKeeps
<1>4. CASE SendInit(c) \/ ReaderLeaves(c) \/ BadMessage(c)
  <2>1. /\ UNCHANGED <<queues, inbox, run, full>>
        /\ at[c] \in {"starting", "serving"}
        /\ \E x \in {"serving", "stopping"} : at' = [at EXCEPT ![c] = x]
        /\ client' \in [Conns -> BOOLEAN] /\ listening' \in [Conns -> BOOLEAN]
    BY <1>1, <1>4 DEF SendInit, ReaderLeaves, BadMessage, ReaderStops, Shape
  <2>2. Shape'
    BY <1>1, <2>1 DEF Shape
  <2>3. \A d \in Conns : at'[d] = at[d] \/ (d = c /\ at'[d] \in {"serving", "stopping"})
    BY <1>1, <2>1 DEF Shape
  <2> QED  BY <2>1, <2>2, <2>3, ConnKeeps
<1>5. CASE StartFails(c) \/ Gathered(c)
  <2>1. /\ UNCHANGED <<queues, inbox, run, full>> /\ at[c] \in {"starting", "stopping"}
        /\ client' \in [Conns -> BOOLEAN] /\ listening' \in [Conns -> BOOLEAN]
        /\ \E x \in {"removing", "gone"} : at' = [at EXCEPT ![c] = x]
    BY <1>1, <1>5 DEF StartFails, Gathered, Leave, Gone, Shape
  <2>2. Shape'
    BY <1>1, <2>1 DEF Shape
  <2>3. \A d \in Conns : at'[d] = at[d] \/ (d = c /\ at'[d] \in {"removing", "gone"})
    BY <1>1, <2>1 DEF Shape
  <2> QED  BY <2>1, <2>2, <2>3, ConnKeeps
<1> QED  BY <1>3, <1>4, <1>5

LEMMA StepRemoveOwn == ASSUME BroadcastInv, NEW c \in Conns, RemoveOwn(c) PROVE BroadcastInv'
<1>1. /\ Shape /\ Listed(queues, at, full)
      /\ run \in [Runs -> RunRecords]
      /\ \A r \in Runs : Iterates(run[r], queues) /\ Informed(run[r], at, full)
      /\ queues \in Seq(Conns) /\ IsInjective(queues)
  BY DEF BroadcastInv, Shape
<1>2. at[c] = "removing" /\ Gone(c) /\ UNCHANGED <<inbox, client, listening, full>>
  BY DEF RemoveOwn
<1>3. /\ queues' \in Seq(Conns) /\ IsInjective(queues') /\ Range(queues') = Range(queues) \ {c}
      /\ run' \in [Runs -> RunRecords]
      /\ \A r \in Runs : Iterates(run'[r], queues') /\ Informed(run'[r], at, full)
  <2>1. CASE c \in Range(queues)
    <3>1. queues' = Without(c) /\ run' = Noticing(c, run)
      BY <2>1 DEF RemoveOwn
    <3> QED  BY <3>1, <2>1, <1>1, AllNotice, WithoutFact
  <2>2. CASE c \notin Range(queues)
    BY <2>2, <1>1 DEF RemoveOwn
  <2> QED  BY <2>1, <2>2
<1>4. /\ \A d \in Conns : at'[d] = IF d = c THEN "gone" ELSE at[d]
      /\ at' \in [Conns -> {"none", "starting", "serving", "stopping", "removing", "gone"}]
  BY <1>1, <1>2 DEF Gone, Shape
<1>5. Shape'
  BY <1>1, <1>2, <1>3, <1>4 DEF Shape
<1>6. Range(queues) \subseteq Conns
  BY <1>1, ElementOfSeq DEF Range
<1>7. Listed(queues', at', full')
  BY <1>1, <1>2, <1>3, <1>4, <1>6 DEF Listed
<1>8. ASSUME NEW r \in Runs
      PROVE  Informed(run'[r], at', full')
  <2>1. Informed(run'[r], at, full)
    BY <1>3
  <2>2. \A d \in Conns : at[d] # "none" => at'[d] # "none"
    BY <1>4
  <2> QED  BY <2>1, <2>2, <1>2, InformedOn
<1> QED  BY <1>3, <1>5, <1>7, <1>8 DEF BroadcastInv

\* Runs.
LEMMA StepTake ==
    ASSUME BroadcastInv, NEW r \in Runs, NEW c \in Conns, Take(r, c)
    PROVE  BroadcastInv'
<1> DEFINE o == run[r]
           p1 == [o EXCEPT !.at = "testing", !.index = @ + 1, !.q = {c}]
           p == [p1 EXCEPT !.due = @ \ {c}, !.visited = @ \cup {c}]
<1>1. Shape /\ o \in RunRecords /\ AtQueue(r, c) /\ UNCHANGED <<queues, inbox, connVars, full>>
  BY DEF BroadcastInv, Shape, Take
<1>2. run' = [run EXCEPT ![r] = p]
  <2>1. run' = [run EXCEPT ![r] = [o EXCEPT !.at = "testing", !.index = @ + 1, !.q = {c},
                                            !.due = @ \ {c}, !.visited = @ \cup {c}]]
    BY <1>1 DEF Take, Shape
  <2> QED  BY <2>1
<1> HIDE DEF o
<1>3. /\ p1 \in RunRecords /\ p1.at = "testing" /\ p1.index = o.index + 1 /\ p1.q = {c}
      /\ p1.dead = o.dead /\ p1.due = o.due /\ p1.visited = o.visited
      /\ p1.left = o.left /\ p1.pruned = o.pruned
  <2>1. o.index + 1 \in Nat \ {0} /\ {c} \in SUBSET Conns /\ "testing" \in Looping
    BY <1>1 DEF RunRecords, Looping
  <2> QED  BY <2>1, <1>1 DEF RunRecords
<1> HIDE DEF p1
<1>4. /\ p \in RunRecords /\ p.at = "testing" /\ p.index = o.index + 1 /\ p.q = {c}
      /\ p.dead = o.dead /\ p.due = o.due \ {c} /\ p.visited = o.visited \cup {c}
      /\ p.left = o.left /\ p.pruned = o.pruned
  <2>1. p1.due \ {c} \in SUBSET Conns /\ p1.visited \cup {c} \in SUBSET Conns
    BY <1>3 DEF RunRecords
  <2> QED  BY <2>1, <1>3 DEF RunRecords
<1> HIDE DEF p
<1>5. Iterates(p, queues) /\ Informed(p, at, full)
  BY <1>1, <1>4, TakeFact DEF o
<1> QED  BY <1>1, <1>2, <1>4, <1>5, RunKeeps DEF Shape

LEMMA StepPhase ==
    ASSUME BroadcastInv, NEW r \in Runs,
           Woken(r) \/ \E c \in Conns : HasRoom(r, c) \/ Put(r, c) \/ QueueFull(r, c)
    PROVE  BroadcastInv'
<1> DEFINE o == run[r]
<1>1. Shape /\ o \in RunRecords
  BY DEF BroadcastInv, Shape
<1>2. /\ UNCHANGED <<queues, connVars>> /\ inbox' \in [Conns -> Nat]
      /\ full \subseteq full' /\ full' \subseteq Conns
  <2>1. CASE Woken(r)
    BY <2>1, <1>1 DEF Woken, Shape
  <2>2. ASSUME NEW c \in Conns, HasRoom(r, c)
        PROVE  /\ UNCHANGED <<queues, connVars>> /\ inbox' \in [Conns -> Nat]
               /\ full' = full /\ full \subseteq Conns
    BY <2>2, <1>1 DEF HasRoom, Shape
  <2>3. ASSUME NEW c \in Conns, Put(r, c)
        PROVE  /\ UNCHANGED <<queues, connVars>> /\ inbox' \in [Conns -> Nat]
               /\ full' = full /\ full \subseteq Conns
    BY <2>3, <1>1 DEF Put, Shape
  <2>4. ASSUME NEW c \in Conns, QueueFull(r, c)
        PROVE  /\ UNCHANGED <<queues, connVars>> /\ inbox' \in [Conns -> Nat]
               /\ full' = full \cup {c} /\ full' \subseteq Conns
    BY <2>4, <1>1 DEF QueueFull, Shape
  <2> QED  BY <2>1, <2>2, <2>3, <2>4
<1>3. PICK x \in Looping, z \in {o.q, {}}, d \in Seq(Conns) :
        /\ run' = [run EXCEPT ![r] = [o EXCEPT !.at = x, !.q = z, !.dead = d]]
        /\ d = o.dead \/ (z = {} /\ \E c \in o.q \cap full' : d = Append(o.dead, c))
  <2>1. /\ o.dead \in Seq(Conns) /\ o.q \subseteq Conns
        /\ "iterating" \in Looping /\ "putting" \in Looping /\ "waking" \in Looping
    BY <1>1 DEF RunRecords, Looping
  <2>2. \A x \in Looping, z \in {o.q, {}} :
          [o EXCEPT !.at = x, !.q = z] = [o EXCEPT !.at = x, !.q = z, !.dead = o.dead]
    BY <1>1 DEF RunRecords
  <2>3. \A x \in Looping : [o EXCEPT !.at = x] = [o EXCEPT !.at = x, !.q = o.q]
    BY <1>1 DEF RunRecords
  <2>4. CASE Woken(r)
    <3>1. run' = [run EXCEPT ![r] = [o EXCEPT !.at = "iterating", !.q = {}]]
      BY <2>4, <1>1 DEF Woken, Shape
    <3> QED  BY <3>1, <2>1, <2>2
  <2>5. ASSUME NEW c \in Conns, HasRoom(r, c) \/ Put(r, c)
        PROVE  \E x \in Looping :
                  run' = [run EXCEPT ![r] = [o EXCEPT !.at = x, !.q = o.q, !.dead = o.dead]]
    <3>1. PICK x \in Looping : run' = [run EXCEPT ![r] = [o EXCEPT !.at = x]]
      BY <2>5, <2>1, <1>1 DEF HasRoom, Put, Shape
    <3> QED  BY <3>1, <2>2, <2>3
  <2>6. ASSUME NEW c \in Conns, QueueFull(r, c)
        PROVE  /\ run' = [run EXCEPT ![r] = [o EXCEPT !.at = "iterating", !.q = {},
                                                      !.dead = Append(o.dead, c)]]
               /\ c \in o.q \cap full' /\ Append(o.dead, c) \in Seq(Conns)
    <3>1. c \in o.q \cap full' /\ Append(o.dead, c) \in Seq(Conns)
      BY <2>6, <2>1, AppendProperties DEF QueueFull
    <3>2. run' = [run EXCEPT ![r] = [o EXCEPT !.at = "iterating", !.q = {}, !.dead = Append(@, c)]]
      BY <2>6, <1>1 DEF QueueFull, Shape
    <3> QED  BY <3>1, <3>2
  <2> QED  BY <2>1, <2>4, <2>5, <2>6
<1>4. o.at \in Looping
  BY DEF Woken, HasRoom, Put, QueueFull, Looping
<1> DEFINE p == [o EXCEPT !.at = x, !.q = z, !.dead = d]
<1>5. /\ p \in RunRecords /\ p.at = x /\ p.q = z /\ p.dead = d /\ p.index = o.index
      /\ p.due = o.due /\ p.visited = o.visited /\ p.left = o.left /\ p.pruned = o.pruned
  <2>1. z \in SUBSET Conns
    BY <1>1 DEF RunRecords
  <2> HIDE DEF o
  <2> QED  BY <2>1, <1>1, <1>3 DEF RunRecords
<1>6. run' = [run EXCEPT ![r] = p]
  BY <1>3
<1> HIDE DEF p
<1>7. Iterates(p, queues) /\ Informed(p, at, full')
  BY <1>2, <1>3, <1>4, <1>5, PhaseFact
<1> QED  BY <1>2, <1>5, <1>6, <1>7, RunKeeps

LEMMA StepBegins ==
    ASSUME BroadcastInv, NEW r \in Runs, Orchestrated(r) \/ PruneRaises(r)
                                         \/ \E c \in Conns : WakeRaises(r, c)
    PROVE  BroadcastInv'
<1>1. Shape /\ Listed(queues, at, full) /\ UNCHANGED <<queues, inbox, connVars, full>>
  BY DEF BroadcastInv, Orchestrated, PruneRaises, WakeRaises
<1>2. PICK p : /\ p \in {Publication("completed"), Publication("failed"), Idle("over")}
               /\ run' = [run EXCEPT ![r] = p]
  BY DEF Orchestrated, PruneRaises, WakeRaises, Raised, Statuses
<1>3. p \in RunRecords /\ Iterates(p, queues) /\ Informed(p, at, full)
  <2>1. CASE p = Idle("over")
    BY <2>1, <1>1, IdleFact DEF Shape
  <2>2. CASE \E w \in Statuses : p = Publication(w)
    BY <2>2, <1>1, FreshRun DEF Shape
  <2> QED  BY <2>1, <2>2, <1>2 DEF Statuses
<1> QED  BY <1>1, <1>2, <1>3, RunKeeps DEF Shape

LEMMA StepEnds ==
    ASSUME BroadcastInv, NEW r \in Runs, LoopEnds(r) \/ RunOver(r)
    PROVE  BroadcastInv'
<1> DEFINE o == run[r]
<1>1. /\ Shape /\ o \in RunRecords /\ Iterates(o, queues) /\ Informed(o, at, full)
      /\ UNCHANGED <<queues, inbox, connVars, full>>
  BY DEF BroadcastInv, Shape, LoopEnds, RunOver
<1>2. CASE RunOver(r)
  <2>1. Idle("over") \in RunRecords /\ Iterates(Idle("over"), queues) /\ Informed(Idle("over"), at, full)
    BY <1>1, IdleFact DEF Shape
  <2>2. run' = [run EXCEPT ![r] = Idle("over")]
    BY <1>2 DEF RunOver
  <2> QED  BY <2>1, <2>2, <1>1, RunKeeps DEF Shape
<1>3. CASE LoopEnds(r)
  <2> DEFINE p == [o EXCEPT !.at = "pruning", !.index = 1, !.visited = {}]
  <2>1. run' = [run EXCEPT ![r] = p] /\ o.at \in Looping /\ o.index > Len(queues)
    BY <1>3, <1>1 DEF LoopEnds, Shape, Looping
  <2>2. /\ p \in RunRecords /\ p.at = "pruning" /\ p.at \notin Looping
        /\ p.q = o.q /\ p.visited = {} /\ p.dead = o.dead
        /\ p.due = o.due /\ p.left = o.left /\ p.pruned = o.pruned
    <3> DEFINE p1 == [o EXCEPT !.at = "pruning"]
               p2 == [p1 EXCEPT !.index = 1]
    <3> HIDE DEF o
    <3>1. /\ p1 \in RunRecords /\ p1.at = "pruning" /\ p1.q = o.q /\ p1.dead = o.dead /\ p1.due = o.due
          /\ p1.left = o.left /\ p1.pruned = o.pruned
      BY <1>1 DEF RunRecords
    <3>2. p = [p2 EXCEPT !.visited = {}]
      OBVIOUS
    <3> HIDE DEF p1
    <3>3. /\ p2 \in RunRecords /\ p2.at = "pruning" /\ p2.q = o.q /\ p2.dead = o.dead /\ p2.due = o.due
          /\ p2.left = o.left /\ p2.pruned = o.pruned
      BY <3>1 DEF RunRecords
    <3> HIDE DEF p2
    <3> QED  BY <3>2, <3>3 DEF RunRecords, Looping
  <2> HIDE DEF p, o
  <2>3. Passed(p, queues) \subseteq Passed(o, queues)
    <3>1. \A i \in DOMAIN queues : i < o.index
      <4>1. Len(queues) \in Nat /\ DOMAIN queues = 1..Len(queues) /\ o.index \in Nat
        BY <1>1 DEF Shape, RunRecords
      <4> QED  BY <4>1, <2>1
    <3> QED  BY <3>1, <2>2 DEF Passed
  <2>4. Cardinality(Passed(p, queues)) <= Cardinality(p.left)
    <3>1. IsFiniteSet(o.left) /\ IsFiniteSet(Passed(o, queues))
      <4>1. Passed(o, queues) \subseteq Conns /\ o.left \subseteq Conns
        BY <1>1 DEF Passed, RunRecords
      <4> QED  BY <4>1, BroadcastAssumption, FS_Subset DEF BroadcastAssumption
    <3>2. /\ Cardinality(Passed(p, queues)) <= Cardinality(Passed(o, queues))
          /\ Cardinality(Passed(p, queues)) \in Nat /\ Cardinality(Passed(o, queues)) \in Nat
          /\ Cardinality(o.left) \in Nat
      BY <3>1, <2>3, FS_Subset, FS_CardinalityType
    <3>3. Cardinality(Passed(o, queues)) <= Cardinality(o.left)
      BY <1>1 DEF Iterates
    <3> QED  BY <3>2, <3>3, <2>2
  <2>5. Iterates(p, queues) /\ Informed(p, at, full)
    BY <1>1, <2>2, <2>4 DEF Iterates, Informed
  <2> QED  BY <2>1, <2>2, <2>5, <1>1, RunKeeps DEF Shape
<1> QED  BY <1>2, <1>3

\* A run removes a queue it found full: others notice, and it is off its list.
LEMMA StepPrune == ASSUME BroadcastInv, NEW r \in Runs, Prune(r) PROVE BroadcastInv'
<1> DEFINE o == run[r]
           c == Head(o.dead)
           p == [o EXCEPT !.dead = Tail(@), !.pruned = @ \cup {c}]
           runs == [run EXCEPT ![r] = p]
<1>1. /\ Shape /\ Listed(queues, at, full)
      /\ run \in [Runs -> RunRecords] /\ o \in RunRecords
      /\ \A q \in Runs : Iterates(run[q], queues) /\ Informed(run[q], at, full)
      /\ queues \in Seq(Conns) /\ IsInjective(queues)
  BY DEF BroadcastInv, Shape
<1>2. /\ o.at = "pruning" /\ o.dead # <<>> /\ c \in Range(queues)
      /\ queues' = Without(c) /\ UNCHANGED <<inbox, connVars, full>>
  BY DEF Prune
<1>3. run' = Noticing(c, runs)
  <2>1. runs = [run EXCEPT ![r].dead = Tail(@), ![r].pruned = @ \cup {c}]
    BY <1>1
  <2> QED  BY <2>1 DEF Prune
<1>4. /\ o.dead \in Seq(Conns) /\ c \in Range(o.dead) /\ c \in Conns
      /\ Tail(o.dead) \in Seq(Conns) /\ IsInjective(Tail(o.dead))
      /\ Range(Tail(o.dead)) = Range(o.dead) \ {c}
  <2>1. o.dead \in Seq(Conns) /\ IsInjective(o.dead)
    BY <1>1 DEF RunRecords, Iterates
  <2> QED  BY <2>1, <1>2, TailInjects, HeadTailProperties
<1>5. /\ p \in RunRecords /\ p.at = "pruning" /\ p.dead = Tail(o.dead)
      /\ p.pruned = o.pruned \cup {c} /\ p.due = o.due /\ p.visited = o.visited
      /\ p.left = o.left /\ p.index = o.index /\ p.q = o.q
      /\ o.at \notin Looping /\ p.at \notin Looping
  BY <1>1, <1>2, <1>4 DEF RunRecords, Looping
<1> HIDE DEF p
<1>6. Iterates(p, queues)
  <2>1. Iterates(o, queues)
    BY <1>1
  <2>2. Passed(p, queues) = Passed(o, queues)
    BY <1>2, <1>5 DEF Passed
  <2>3. Range(p.dead) \cap p.pruned = {}
    BY <1>4, <1>5, <2>1 DEF Iterates
  <2> QED  BY <1>4, <1>5, <2>1, <2>2, <2>3 DEF Iterates
<1>7. Informed(p, at, full)
  BY <1>1, <1>4, <1>5 DEF Informed
<1>8. runs \in [Runs -> RunRecords] /\ \A q \in Runs : Iterates(runs[q], queues) /\ Informed(runs[q], at, full)
  BY <1>1, <1>5, <1>6, <1>7
<1> HIDE DEF runs
<1>9. /\ run' \in [Runs -> RunRecords]
      /\ \A q \in Runs : Iterates(run'[q], queues') /\ Informed(run'[q], at, full)
  BY <1>2, <1>3, <1>8, AllNotice
<1>10. /\ queues' \in Seq(Conns) /\ IsInjective(queues')
       /\ Range(queues') = Range(queues) \ {c}
  BY <1>1, <1>2, WithoutFact
<1>11. Shape'
  BY <1>1, <1>2, <1>9, <1>10 DEF Shape, connVars
<1>12. Listed(queues', at, full)
  <2>1. c \in full
    BY <1>1, <1>4 DEF Informed
  <2> QED  BY <2>1, <1>1, <1>10 DEF Listed
<1> QED  BY <1>2, <1>9, <1>11, <1>12 DEF BroadcastInv, connVars

LEMMA BroadcastStep == BroadcastInv /\ [Next]_vars => BroadcastInv'
<1> SUFFICES ASSUME BroadcastInv, [Next]_vars PROVE BroadcastInv'
  OBVIOUS
<1>1. ASSUME NEW c \in Conns, Accept(c) \/ ClientLeaves(c) \/ BadMessage(c) \/ ConnStep(c)
      PROVE  BroadcastInv'
  BY <1>1, StepAccept, StepConn, StepRemoveOwn DEF ConnStep
<1>2. ASSUME NEW r \in Runs, RunStep(r)
      PROVE  BroadcastInv'
  BY <1>2, StepBegins, StepEnds, StepPrune, StepTake, StepPhase DEF RunStep
<1>3. CASE UNCHANGED vars
  BY <1>3 DEF vars, connVars, BroadcastInv, Shape
<1> QED  BY <1>1, <1>2, <1>3 DEF Next

LEMMA BroadcastInvariant == SafeSpec => []BroadcastInv
BY BroadcastStart, BroadcastStep, PTL DEF SafeSpec

-----------------------------------------------------------------------------
(* The length of a queue *)

\* The runs that have found room in c and have not appended to it yet.
Putting(c) == {r \in Runs : run[r].at = "putting" /\ c \in run[r].q}

\* Each may append, whatever the length has become since.
Fits ==
    \A c \in Conns :
        inbox[c] + Cardinality(Putting(c)) <= QueueCap + Cardinality(Runs) - 1

LEMMA PuttingFinite ==
    ASSUME NEW c
    PROVE  /\ IsFiniteSet(Putting(c)) /\ Cardinality(Putting(c)) \in Nat
           /\ Cardinality(Putting(c)) <= Cardinality(Runs)
<1>1. Putting(c) \subseteq Runs
  BY DEF Putting
<1> QED  BY <1>1, BroadcastAssumption, FS_Subset, FS_CardinalityType DEF BroadcastAssumption

\* Nothing is added to a queue, and nobody comes to put to it.
Eases(c) == inbox'[c] <= inbox[c] /\ Putting(c)' \subseteq Putting(c)

LEMMA EasesFits ==
    ASSUME BroadcastInv, BroadcastInv', Fits, NEW c \in Conns, Eases(c)
    PROVE  inbox'[c] + Cardinality(Putting(c)') <= QueueCap + Cardinality(Runs) - 1
<1>1. /\ inbox[c] \in Nat /\ inbox'[c] \in Nat /\ QueueCap \in Nat /\ Cardinality(Runs) \in Nat
  BY BroadcastAssumption, FS_CardinalityType DEF BroadcastInv, Shape, BroadcastAssumption
<1>2. /\ Cardinality(Putting(c)) \in Nat /\ Cardinality(Putting(c)') \in Nat
      /\ Cardinality(Putting(c)') <= Cardinality(Putting(c))
  BY PuttingFinite, FS_Subset, FS_CardinalityType DEF Eases
<1>3. inbox'[c] <= inbox[c] /\ inbox[c] + Cardinality(Putting(c)) <= QueueCap + Cardinality(Runs) - 1
  BY DEF Eases, Fits
<1> HIDE DEF Putting
<1> QED  BY <1>1, <1>2, <1>3

\* A run that has found room may be one of all.
LEMMA RoomFits ==
    ASSUME BroadcastInv, BroadcastInv', NEW c \in Conns, inbox[c] < QueueCap, inbox' = inbox
    PROVE  inbox'[c] + Cardinality(Putting(c)') <= QueueCap + Cardinality(Runs) - 1
<1>1. /\ inbox[c] \in Nat /\ QueueCap \in Nat /\ Cardinality(Runs) \in Nat
  BY BroadcastAssumption, FS_CardinalityType DEF BroadcastInv, Shape, BroadcastAssumption
<1>2. Putting(c)' \subseteq Runs
  BY DEF Putting
<1>3. Cardinality(Putting(c)') \in Nat /\ Cardinality(Putting(c)') <= Cardinality(Runs)
  BY <1>2, BroadcastAssumption, FS_Subset, FS_CardinalityType DEF BroadcastAssumption
<1> HIDE DEF Putting
<1> QED  BY <1>1, <1>3

\* A run that appends has its place no more.
LEMMA PutFits ==
    ASSUME BroadcastInv, Fits, NEW c \in Conns, NEW r \in Putting(c),
           inbox'[c] = inbox[c] + 1, Putting(c)' = Putting(c) \ {r}
    PROVE  inbox'[c] + Cardinality(Putting(c)') <= QueueCap + Cardinality(Runs) - 1
<1>1. /\ inbox[c] \in Nat /\ QueueCap \in Nat /\ Cardinality(Runs) \in Nat
  BY BroadcastAssumption, FS_CardinalityType DEF BroadcastInv, Shape, BroadcastAssumption
<1>2. Cardinality(Putting(c)') = Cardinality(Putting(c)) - 1 /\ Cardinality(Putting(c)) \in Nat
  BY PuttingFinite, FS_RemoveElement
<1>3. inbox[c] + Cardinality(Putting(c)) <= QueueCap + Cardinality(Runs) - 1
  BY DEF Fits
<1> HIDE DEF Putting
<1> QED  BY <1>1, <1>2, <1>3

LEMMA FitsStart == Init => Fits
<1> SUFFICES ASSUME Init, NEW c \in Conns
             PROVE  inbox[c] + Cardinality(Putting(c)) <= QueueCap + Cardinality(Runs) - 1
  BY DEF Fits
<1>1. inbox[c] \in 0..QueueCap /\ QueueCap \in Nat
  BY BroadcastAssumption DEF Init, BroadcastAssumption
<1>2. Cardinality(Runs) \in Nat /\ Cardinality(Runs) # 0
  BY BroadcastAssumption, FS_CardinalityType, FS_EmptySet DEF BroadcastAssumption
<1>3. Putting(c) = {}
  <2>1. \A r \in Runs : run[r].at # "putting"
    BY DEF Init, Publication, Idle
  <2> QED  BY <2>1 DEF Putting
<1>4. Cardinality(Putting(c)) = 0
  BY <1>3, FS_EmptySet
<1> QED  BY <1>1, <1>2, <1>4

\* What any step but a test and an append does to the runs and the queues.
LEMMA OthersEase ==
    ASSUME BroadcastInv, [Next]_vars,
           \A r \in Runs, c \in Conns : ~HasRoom(r, c) /\ ~Put(r, c)
    PROVE  \A c \in Conns : Eases(c)
<1>1. Shape
  BY DEF BroadcastInv
<1> SUFFICES ASSUME NEW c \in Conns PROVE Eases(c)
  OBVIOUS
<1>2. inbox'[c] <= inbox[c]
  <2>1. \A d \in Conns : inbox[d] \in Nat /\ inbox[d] - 1 <= inbox[d] /\ inbox[d] <= inbox[d]
    BY <1>1 DEF Shape
  <2>2. CASE inbox' = inbox
    BY <2>1, <2>2
  <2>3. ASSUME NEW d \in Conns, Forward(d) PROVE inbox'[c] <= inbox[c]
    BY <2>1, <2>3, <1>1 DEF Forward, Shape
  <2>4. ASSUME NEW d \in Conns, Accept(d) \/ ClientLeaves(d) \/ BadMessage(d) \/ ConnStep(d)
        PROVE  inbox' = inbox \/ Forward(d)
    BY <2>4 DEF Accept, ClientLeaves, BadMessage, ReaderStops, ConnStep, SendInit,
                StartFails, Leave, ReaderLeaves, Gathered, RemoveOwn
  <2>5. ASSUME NEW r \in Runs, RunStep(r)
        PROVE  inbox' = inbox
    BY <2>5 DEF RunStep, Orchestrated, Take, QueueFull, WakeRaises, Woken, LoopEnds,
                Prune, PruneRaises, RunOver
  <2>6. UNCHANGED vars => inbox' = inbox
    BY DEF vars
  <2>7. inbox' = inbox \/ \E d \in Conns : Forward(d)
    BY <2>4, <2>5, <2>6 DEF Next
  <2>8. CASE \E d \in Conns : Forward(d)
    BY <2>3, <2>8
  <2> QED  BY <2>2, <2>7, <2>8
<1>3. ASSUME NEW q \in Runs, run'[q].at = "putting"
      PROVE  run[q].at = "putting" /\ run'[q].q = run[q].q
  <2>0. run \in [Runs -> RunRecords]
    BY <1>1 DEF Shape
  <2>1. CASE run' = run
    BY <2>1, <1>3
  <2>2. ASSUME NEW r \in Runs, NEW p, run' = [run EXCEPT ![r] = p], p.at # "putting"
        PROVE  run'[q] = run[q]
    BY <2>0, <2>2, <1>3
  <2>3. ASSUME NEW d, NEW runs \in [Runs -> RunRecords], run' = Noticing(d, runs)
        PROVE  run'[q].at = runs[q].at /\ run'[q].q = runs[q].q
    <3>1. runs[q] \in RunRecords
      OBVIOUS
    <3> QED  BY <2>3, <3>1 DEF Noticing, RunRecords
  <2>4. ASSUME NEW r \in Runs, RunStep(r), ~Prune(r)
        PROVE  \E p : run' = [run EXCEPT ![r] = p] /\ p.at # "putting"
    <3>1. run[r] \in RunRecords
      BY <2>0
    <3>2. CASE Orchestrated(r) \/ PruneRaises(r) \/ RunOver(r) \/ \E d \in Conns : WakeRaises(r, d)
      BY <3>2 DEF Orchestrated, PruneRaises, RunOver, WakeRaises, Raised, Publication, Idle
    <3>3. CASE Woken(r) \/ LoopEnds(r)
      BY <3>1, <3>3, <2>0 DEF Woken, LoopEnds, RunRecords
    <3>4. ASSUME NEW d \in Conns, Take(r, d) \/ QueueFull(r, d)
          PROVE  \E p : run' = [run EXCEPT ![r] = p] /\ p.at # "putting"
      BY <3>1, <3>4, <2>0 DEF Take, QueueFull, RunRecords
    <3> QED  BY <2>4, <3>2, <3>3, <3>4 DEF RunStep
  <2>5. ASSUME NEW r \in Runs, Prune(r)
        PROVE  run[q].at = "putting" /\ run'[q].q = run[q].q
    <3> DEFINE o == run[r]
               p == [o EXCEPT !.dead = Tail(@), !.pruned = @ \cup {Head(o.dead)}]
               runs == [run EXCEPT ![r] = p]
    <3>1. o \in RunRecords /\ o.at = "pruning" /\ o.dead # <<>> /\ Head(o.dead) \in Conns
      <4>1. o \in RunRecords /\ o.at = "pruning" /\ o.dead # <<>>
        BY <2>0, <2>5 DEF Prune
      <4> QED  BY <4>1, HeadTailProperties DEF RunRecords
    <3>2. p \in RunRecords /\ p.at = "pruning"
      BY <3>1, HeadTailProperties DEF RunRecords
    <3>3. run' = Noticing(Head(o.dead), runs)
      <4>1. runs = [run EXCEPT ![r].dead = Tail(@), ![r].pruned = @ \cup {Head(o.dead)}]
        BY <2>0
      <4> QED  BY <4>1, <2>5 DEF Prune
    <3> HIDE DEF p
    <3>4. runs \in [Runs -> RunRecords] /\ \A x \in Runs : runs[x] = IF x = r THEN p ELSE run[x]
      BY <2>0, <3>2
    <3> HIDE DEF runs
    <3> QED  BY <2>3, <3>2, <3>3, <3>4, <1>3
  <2>6. ASSUME NEW d \in Conns, Accept(d) \/ ClientLeaves(d) \/ BadMessage(d) \/ ConnStep(d)
        PROVE  run' = run \/ run' = Noticing(d, run)
    BY <2>6 DEF Accept, ClientLeaves, BadMessage, ReaderStops, ConnStep, SendInit,
                StartFails, Leave, ReaderLeaves, Forward, Gathered, RemoveOwn
  <2>7. CASE UNCHANGED vars
    BY <2>7, <2>1 DEF vars
  <2> QED  BY <2>0, <2>1, <2>2, <2>3, <2>4, <2>5, <2>6, <2>7, <1>3 DEF Next
<1> QED  BY <1>2, <1>3 DEF Eases, Putting

LEMMA FitsStep == BroadcastInv /\ BroadcastInv' /\ Fits /\ [Next]_vars => Fits'
<1> SUFFICES ASSUME BroadcastInv, BroadcastInv', Fits, [Next]_vars, NEW c \in Conns
             PROVE  inbox'[c] + Cardinality(Putting(c)') <= QueueCap + Cardinality(Runs) - 1
  BY DEF Fits
<1>1. Shape /\ run \in [Runs -> RunRecords]
  BY DEF BroadcastInv, Shape
<1>2. ASSUME NEW r \in Runs, NEW d \in Conns, HasRoom(r, d) \/ Put(r, d), d # c
      PROVE  Eases(c)
  <2>1. d \in run[r].q /\ c \notin run[r].q
    BY <1>2 DEF HasRoom, Put, BroadcastInv, Iterates
  <2>2. inbox'[c] = inbox[c] /\ inbox[c] \in Nat
    BY <1>1, <1>2 DEF HasRoom, Put, Shape
  <2>3. \A x \in Runs : run'[x].q = run[x].q /\ (x # r => run'[x] = run[x])
    <3>1. PICK a : run' = [run EXCEPT ![r].at = a]
      BY <1>2 DEF HasRoom, Put
    <3>2. run[r] \in RunRecords
      BY <1>1
    <3> QED  BY <1>1, <3>1, <3>2 DEF RunRecords
  <2>4. Putting(c)' \subseteq Putting(c)
    BY <2>1, <2>3 DEF Putting
  <2> QED  BY <2>2, <2>4 DEF Eases
<1>3. ASSUME NEW r \in Runs, HasRoom(r, c)
      PROVE  inbox'[c] + Cardinality(Putting(c)') <= QueueCap + Cardinality(Runs) - 1
  BY <1>3, RoomFits DEF HasRoom
<1>4. ASSUME NEW r \in Runs, Put(r, c)
      PROVE  inbox'[c] + Cardinality(Putting(c)') <= QueueCap + Cardinality(Runs) - 1
  <2>1. inbox'[c] = inbox[c] + 1 /\ r \in Putting(c)
    BY <1>1, <1>4 DEF Put, Shape, Putting
  <2>2. \A x \in Runs : IF x = r THEN run'[x].at = "waking" ELSE run'[x] = run[x]
    <3>1. run[r] \in RunRecords
      BY <1>1
    <3> QED  BY <1>1, <1>4, <3>1 DEF Put, RunRecords
  <2>3. Putting(c)' = Putting(c) \ {r}
    BY <2>2 DEF Putting
  <2> QED  BY <2>1, <2>3, PutFits
<1>5. CASE \A r \in Runs, d \in Conns : ~HasRoom(r, d) /\ ~Put(r, d)
  BY <1>5, OthersEase, EasesFits
<1> QED  BY <1>2, <1>3, <1>4, <1>5, EasesFits

LEMMA FitsInvariant == SafeSpec => []Fits
BY BroadcastInvariant, FitsStart, FitsStep, PTL DEF SafeSpec

-----------------------------------------------------------------------------
(* The theorems *)

\* Types, and no queue is listed twice, or longer than its capacity and the runs
\* but one that may have seen its last place free.
THEOREM BroadcastTypes == SafeSpec => []BroadcastTypeOK
<1>1. BroadcastInv /\ Fits => BroadcastTypeOK
  <2> SUFFICES ASSUME BroadcastInv, Fits PROVE BroadcastTypeOK
    OBVIOUS
  <2>1. ASSUME NEW c \in Conns
        PROVE  inbox[c] \in 0..(QueueCap + Cardinality(Runs) - 1)
    <3>1. inbox[c] \in Nat /\ Cardinality(Putting(c)) \in Nat
      BY PuttingFinite DEF BroadcastInv, Shape
    <3>2. QueueCap \in Nat /\ Cardinality(Runs) \in Nat
      BY BroadcastAssumption, FS_CardinalityType DEF BroadcastAssumption
    <3>3. inbox[c] + Cardinality(Putting(c)) <= QueueCap + Cardinality(Runs) - 1
      BY DEF Fits
    <3> HIDE DEF Putting
    <3> QED  BY <3>1, <3>2, <3>3
  <2>2. inbox \in [Conns -> 0..(QueueCap + Cardinality(Runs) - 1)]
    BY <2>1 DEF BroadcastInv, Shape
  <2> QED  BY <2>2 DEF BroadcastTypeOK, BroadcastInv, Shape, RunRecords
<1> QED  BY <1>1, BroadcastInvariant, FitsInvariant, PTL

\* A publication passes over no more of the queues that stay than leave while
\* it goes on, and a client that is out of the list had a full queue.
THEOREM EveryoneHeardOrAReason == SafeSpec => []HeardOnceOrForAReason
<1>1. BroadcastInv => HeardOnceOrForAReason
  <2> SUFFICES ASSUME BroadcastInv PROVE HeardOnceOrForAReason
    OBVIOUS
  <2>1. ASSUME NEW r \in Runs, NEW c \in Conns, AtQueue(r, c)
        PROVE  c \notin run[r].visited
    <3>1. /\ run[r].index \in Nat \ {0} /\ run[r].index <= Len(queues) /\ Len(queues) \in Nat
          /\ DOMAIN queues = 1..Len(queues) /\ c = queues[run[r].index]
      BY <2>1 DEF AtQueue, BroadcastInv, Shape, RunRecords
    <3>2. run[r].index \in DOMAIN queues
      BY <3>1
    <3> QED  BY <3>1, <3>2 DEF BroadcastInv, Iterates
  <2>2. ASSUME NEW r \in Runs, run[r].at = "pruning"
        PROVE  Cardinality(run[r].due \cap Range(queues)) <= Cardinality(run[r].left)
    <3>1. Passed(run[r], queues) = run[r].due \cap Range(queues)
      BY <2>2 DEF Passed, Range, Looping
    <3> QED  BY <3>1 DEF BroadcastInv, Iterates
  <2> QED  BY <2>1, <2>2 DEF HeardOnceOrForAReason, BroadcastInv, Listed
<1> QED  BY <1>1, BroadcastInvariant, PTL

\* A run fails over a queue only if somebody else removed it.
THEOREM RunsTripOnOthersOnly == SafeSpec => []TripsOnOthersOnly
<1>1. BroadcastInv => TripsOnOthersOnly
  <2> SUFFICES ASSUME BroadcastInv, NEW r \in Runs, run[r].at = "pruning", run[r].dead # <<>>
               PROVE  LET c == Head(run[r].dead)
                      IN  /\ c \in full
                          /\ c \notin Range(queues) => c \notin run[r].pruned
    BY DEF TripsOnOthersOnly
  <2>1. Head(run[r].dead) \in Range(run[r].dead)
    BY TailInjects DEF BroadcastInv, Shape, RunRecords
  <2> QED  BY <2>1 DEF BroadcastInv, Iterates, Informed
<1> QED  BY <1>1, BroadcastInvariant, PTL
=============================================================================
