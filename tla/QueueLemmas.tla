---------------------------- MODULE QueueLemmas ----------------------------
(***************************************************************************)
(* Facts about queues without repetition: what Append, Tail and \o do to    *)
(* the range of an injective sequence.                                     *)
(***************************************************************************)
EXTENDS Naturals, Sequences, Functions, SequenceTheorems, TLAPS

\* Appending an element that is not in an injective sequence keeps it
\* injective, and adds that element to its range.
LEMMA AppendInjects ==
    ASSUME NEW S, NEW q \in Seq(S), NEW e \in S
    PROVE  /\ Range(Append(q, e)) = Range(q) \cup {e}
           /\ IsInjective(q) /\ e \notin Range(q) => IsInjective(Append(q, e))
<1>1. DOMAIN Append(q, e) = 1 .. Len(q) + 1 /\ DOMAIN q = 1 .. Len(q)
    BY AppendProperties
<1>2. /\ \A i \in 1 .. Len(q) : Append(q, e)[i] = q[i]
      /\ Append(q, e)[Len(q) + 1] = e
      /\ Len(q) \in Nat
    BY AppendProperties
<1>3. Range(Append(q, e)) = Range(q) \cup {e}
    BY <1>1, <1>2 DEF Range
<1>4. ASSUME IsInjective(q), e \notin Range(q)
      PROVE  IsInjective(Append(q, e))
    <2>1. ASSUME NEW i \in 1 .. Len(q) + 1, NEW j \in 1 .. Len(q) + 1,
                 Append(q, e)[i] = Append(q, e)[j]
          PROVE  i = j
        <3>1. CASE i \in 1 .. Len(q) /\ j \in 1 .. Len(q)
            BY <1>1, <1>2, <1>4, <2>1, <3>1 DEF IsInjective
        <3>2. CASE i = Len(q) + 1 /\ j \in 1 .. Len(q)
            BY <1>1, <1>2, <1>4, <2>1, <3>2 DEF Range
        <3>3. CASE j = Len(q) + 1 /\ i \in 1 .. Len(q)
            BY <1>1, <1>2, <1>4, <2>1, <3>3 DEF Range
        <3>4. CASE i = Len(q) + 1 /\ j = Len(q) + 1
            BY <3>4
        <3>5. QED  BY <3>1, <3>2, <3>3, <3>4, <1>2
    <2>2. QED  BY <2>1, <1>1 DEF IsInjective
<1>5. QED  BY <1>3, <1>4

\* A prefix of an injective sequence is injective and has fewer elements.
LEMMA PrefixInjects ==
    ASSUME NEW S, NEW p \in Seq(S), NEW q \in Seq(S)
    PROVE  /\ Range(p) \subseteq Range(p \o q)
           /\ IsInjective(p \o q) => IsInjective(p)
<1>1. /\ DOMAIN p = 1 .. Len(p)
      /\ DOMAIN (p \o q) = 1 .. Len(p) + Len(q)
      /\ Len(p) \in Nat /\ Len(q) \in Nat
    BY ConcatProperties
<1>2. \A i \in 1 .. Len(p) : i \in 1 .. Len(p) + Len(q) /\ (p \o q)[i] = p[i]
    BY <1>1, ConcatProperties
<1>3. QED  BY <1>1, <1>2 DEF Range, IsInjective

\* Taking the head of an injective queue removes exactly that element.
LEMMA TailInjects ==
    ASSUME NEW S, NEW q \in Seq(S), q # <<>>
    PROVE  /\ Head(q) \in Range(q)
           /\ Range(q) = Range(Tail(q)) \cup {Head(q)}
           /\ IsInjective(q) =>
                IsInjective(Tail(q)) /\ Range(Tail(q)) = Range(q) \ {Head(q)}
<1>1. /\ Len(q) \in Nat /\ Len(q) >= 1
      /\ DOMAIN q = 1 .. Len(q) /\ DOMAIN Tail(q) = 1 .. Len(q) - 1
      /\ q[1] = Head(q)
      /\ \A i \in 1 .. Len(q) - 1 : Tail(q)[i] = q[i + 1]
    BY HeadTailProperties, EmptySeq
<1>2. Range(q) = Range(Tail(q)) \cup {Head(q)}
    <2>1. ASSUME NEW i \in 1 .. Len(q)
          PROVE  q[i] \in Range(Tail(q)) \cup {Head(q)}
        <3>1. CASE i = 1
            BY <1>1, <3>1
        <3>2. CASE i # 1
            <4>1. i - 1 \in 1 .. Len(q) - 1 /\ Tail(q)[i - 1] = q[i]
                BY <1>1, <3>2
            <4>2. QED  BY <4>1, <1>1 DEF Range
        <3>3. QED  BY <3>1, <3>2
    <2>2. ASSUME NEW i \in 1 .. Len(q) - 1
          PROVE  Tail(q)[i] \in Range(q)
        BY <1>1, i + 1 \in 1 .. Len(q) DEF Range
    <2>3. Head(q) \in Range(q)
        BY <1>1, 1 \in 1 .. Len(q) DEF Range
    <2>4. QED  BY <1>1, <2>1, <2>2, <2>3 DEF Range
<1>3. ASSUME IsInjective(q)
      PROVE  IsInjective(Tail(q)) /\ Head(q) \notin Range(Tail(q))
    <2>1. ASSUME NEW i \in 1 .. Len(q) - 1, NEW j \in 1 .. Len(q) - 1,
                 Tail(q)[i] = Tail(q)[j]
          PROVE  i = j
        <3>1. i + 1 \in 1 .. Len(q) /\ j + 1 \in 1 .. Len(q) /\ q[i + 1] = q[j + 1]
            BY <1>1, <2>1
        <3>2. i + 1 = j + 1
            BY <3>1, <1>1, <1>3 DEF IsInjective
        <3>3. QED  BY <3>2, <1>1
    <2>2. ASSUME NEW i \in 1 .. Len(q) - 1
          PROVE  Tail(q)[i] # Head(q)
        <3>1. i + 1 \in 1 .. Len(q) /\ i + 1 # 1 /\ 1 \in 1 .. Len(q)
            BY <1>1
        <3>2. QED  BY <3>1, <1>1, <1>3 DEF IsInjective
    <2>3. QED  BY <1>1, <2>1, <2>2 DEF IsInjective, Range
<1>4. QED  BY <1>2, <1>3

\* The empty queue is injective and holds nothing.
LEMMA EmptyInjects == IsInjective(<<>>) /\ Range(<<>>) = {}
BY DEF IsInjective, Range
=============================================================================
