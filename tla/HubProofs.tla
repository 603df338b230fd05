----------------------------- MODULE HubProofs -----------------------------
(***************************************************************************)
(* Proofs about Hub, for every configuration AppConfig.validate lets       *)
(* through, every set of documents and every stream.                       *)
(***************************************************************************)
EXTENDS Hub, QueueLemmas, FiniteSetTheorems

\* The chunks that are somewhere.
Held == Range(group) \cup Range(batch) \cup stored

\* A chunk that exists was cut before the loop's present position.
BehindLoop ==
    \A c \in Held : c.msg < taken \/ (c.msg = taken /\ c.from < start)

\* No chunk is twice in the hub, or in the hub and in the collection.
HeldOnce ==
    /\ IsInjective(group) /\ IsInjective(batch)
    /\ batch = <<>> \/ group = <<>>
    /\ Running => (Range(group) \cup Range(batch)) \cap stored = {}

\* While no batch has failed, the count is the size of the collection.
Counted ==
    /\ IsFiniteSet(stored)
    /\ Live => processed <= Cardinality(stored)
    /\ Live /\ failed = 0 /\ reply \in {"none", "success"}
         => processed = Cardinality(stored)

\* While no batch has failed, each position the loop has passed is in a chunk
\* that is somewhere.
Covered ==
    Live /\ failed = 0 /\ Step > 0 =>
        \A n \in 1 .. taken : \A p \in 0 .. Size[received[n]] - 1 :
            (n = taken /\ p >= start) \/ \E c \in Held : Covers(c, n, p)

SuccessIsEnd ==
    reply = "success" => failed = 0 /\ Exhausted /\ group = <<>> /\ batch = <<>>

\* The loop is inside a long text only if its windows advance.
Advancing == MidDocument /\ Current > ChunkSize => Step > 0

\* Inside a text the next window begins where chunkText has one: at 0 in a text
\* that fits a chunk, at a multiple of the step in a longer one.
OnGrid ==
    MidDocument =>
        IF Current <= ChunkSize THEN start = 0 ELSE \E k \in Nat : start = k * Step

\* Nothing is held that chunkText would not cut from a message that arrived.
HeldAreWindows == Held \subseteq AllWindows

\* While no batch has failed, each window the loop has passed is somewhere.
NoneMissing ==
    Live /\ failed = 0 =>
        \A n \in 1 .. taken : \A c \in WindowsOf(n, Size[received[n]]) :
            c \in Held \/ (n = taken /\ c.from >= start)

HubInv ==
    /\ HubTypeOK /\ Advancing /\ BehindLoop /\ HeldOnce /\ Counted /\ Covered /\ SuccessIsEnd
    /\ OnGrid /\ HeldAreWindows /\ NoneMissing

---------------------------------------------------------------------------
\* An injective sequence has as many elements as its length says.
LEMMA InjectiveSize ==
    ASSUME NEW S, NEW q \in Seq(S), IsInjective(q)
    PROVE  IsFiniteSet(Range(q)) /\ Cardinality(Range(q)) = Len(q)
<1>1. Len(q) \in Nat /\ DOMAIN q = 1 .. Len(q)
    BY ElementOfSeq
<1>2. q \in [1 .. Len(q) -> Range(q)]
    BY <1>1 DEF Range
<1>3. q \in Bijection(1 .. Len(q), Range(q))
    BY <1>1, <1>2 DEF Bijection, Injection, Surjection, IsInjective, Range
<1>4. IsFiniteSet(1 .. Len(q)) /\ Cardinality(1 .. Len(q)) = Len(q)
    BY <1>1, FS_Interval, SMTT(30)
<1>5. QED  BY <1>3, <1>4, FS_Bijection DEF ExistsBijection

\* Storing more chunks never lowers the size of the collection.
LEMMA StoreMore ==
    ASSUME NEW S, NEW T, IsFiniteSet(S), IsFiniteSet(T)
    PROVE  /\ IsFiniteSet(S \cup T)
           /\ Cardinality(S) \in Nat /\ Cardinality(S \cup T) \in Nat
           /\ Cardinality(S) <= Cardinality(S \cup T)
           /\ S \cap T = {} => Cardinality(S \cup T) = Cardinality(S) + Cardinality(T)
<1>1. IsFiniteSet(S \cup T)
    BY FS_Union
<1>2. Cardinality(S) <= Cardinality(S \cup T)
    BY <1>1, FS_Subset, S \in SUBSET (S \cup T)
<1>3. Cardinality(S) \in Nat /\ Cardinality(T) \in Nat /\ Cardinality(S \cup T) \in Nat
    BY <1>1, FS_CardinalityType
<1>4. ASSUME S \cap T = {}
      PROVE  Cardinality(S \cup T) = Cardinality(S) + Cardinality(T)
    <2>1. Cardinality(S \cap T) = 0
        BY <1>4, FS_EmptySet
    <2>2. Cardinality(S \cup T) = Cardinality(S) + Cardinality(T) - Cardinality(S \cap T)
        BY FS_Union
    <2>3. QED  BY <1>3, <2>1, <2>2
<1>5. QED  BY <1>1, <1>2, <1>3, <1>4

LEMMA EmptyChunks ==
    <<>> \in Seq(Chunks) /\ Len(<<>>) = 0 /\ Range(<<>>) = {} /\ IsInjective(<<>>)
<1>1. <<>> \in Seq(Chunks) /\ Len(<<>>) = 0
    OBVIOUS
<1>2. DOMAIN <<>> = {}
    OBVIOUS
<1>3. QED  BY <1>1, <1>2 DEF Range, IsInjective

---------------------------------------------------------------------------
LEMMA HubInitInv == HubInit => HubInv
<1> SUFFICES ASSUME HubInit PROVE HubInv
    OBVIOUS
<1>1. <<>> \in Seq(Docs) /\ Len(received) = 0
    BY DEF HubInit
<1>2. HubTypeOK
    BY <1>1, EmptyChunks, HubAssumption DEF HubInit, HubTypeOK, Replies
<1>3. Held = {}
    BY EmptyChunks DEF HubInit, Held
<1>4. Advancing /\ BehindLoop /\ HeldOnce /\ SuccessIsEnd
    BY <1>3, EmptyChunks DEF HubInit, Advancing, MidDocument, BehindLoop, HeldOnce, SuccessIsEnd
<1>5. Counted
    BY FS_EmptySet DEF HubInit, Counted
<1>6. Covered /\ OnGrid /\ NoneMissing
    BY DEF HubInit, Covered, OnGrid, NoneMissing, MidDocument
<1>7. HeldAreWindows
    BY <1>3 DEF HeldAreWindows
<1>8. QED  BY <1>2, <1>4, <1>5, <1>6, <1>7 DEF HubInv

\* What the text being chunked is.
LEMMA CurrentSize ==
    ASSUME HubTypeOK
    PROVE  /\ Len(received) \in Nat /\ taken \in Nat /\ taken <= Len(received)
           /\ \A n \in 1 .. Len(received) : Size[received[n]] \in Nat
           /\ taken > 0 => Current \in Nat
           /\ Step \in Int /\ ChunkSize \in Nat \ {0} /\ BatchSize \in Nat \ {0}
<1>1. Len(received) \in Nat /\ DOMAIN received = 1 .. Len(received)
    BY DEF HubTypeOK
<1>2. \A n \in 1 .. Len(received) : received[n] \in Docs
    BY DEF HubTypeOK
<1>3. QED  BY <1>1, <1>2, HubAssumption DEF HubTypeOK, Current, Step

LEMMA HubTypeStep == HubTypeOK /\ Advancing /\ [HubNext]_hubVars => HubTypeOK'
<1> SUFFICES ASSUME HubTypeOK, Advancing, [HubNext]_hubVars PROVE HubTypeOK'
    OBVIOUS
<1> USE CurrentSize
<1>0. Range(batch) \subseteq Chunks /\ Range(group) \subseteq Chunks
    <2>1. /\ DOMAIN batch = 1 .. Len(batch) /\ DOMAIN group = 1 .. Len(group)
          /\ \A i \in 1 .. Len(batch) : batch[i] \in Chunks
          /\ \A i \in 1 .. Len(group) : group[i] \in Chunks
        BY DEF HubTypeOK
    <2>2. QED  BY <2>1 DEF Range
<1>1. ASSUME NEW d \in Docs, ClientSends(d) PROVE HubTypeOK'
    <2>1. received' \in Seq(Docs) /\ Len(received') = Len(received) + 1
        BY <1>1 DEF ClientSends, HubTypeOK
    <2>2. QED  BY <1>1, <2>1 DEF ClientSends, pipelineVars, foldVars, HubTypeOK
<1>2. CASE ClientEnds
    BY <1>2 DEF ClientEnds, pipelineVars, foldVars, HubTypeOK
<1>3. CASE Interrupted
    BY <1>0, <1>3 DEF Interrupted, clientVars, pipelineVars, foldVars, HubTypeOK, Replies
<1>4. CASE Pull
    <2>1. taken + 1 \in 1 .. Len(received)
        BY <1>4 DEF Pull
    <2>2. start' \in Nat
        BY <1>4, <2>1 DEF Pull, FirstWindow
    <2>3. QED  BY <1>4, <2>1, <2>2 DEF Pull, clientVars, foldVars, HubTypeOK
<1>5. CASE PullDies
    BY <1>0, <1>5 DEF PullDies, clientVars, pipelineVars, foldVars, HubTypeOK, Replies
<1>6. CASE EmitChunk
    <2>1. /\ taken \in Nat /\ start \in Nat /\ Current \in Nat /\ start < Current
          /\ WindowEnd \in Nat
        BY <1>6 DEF EmitChunk, MidDocument, HubTypeOK, WindowEnd
    <2>2. group' \in Seq(Chunks) /\ Len(group') = Len(group) + 1 /\ Len(group') <= BatchSize
        BY <1>6, <2>1 DEF EmitChunk, Producing, HubTypeOK, Chunks
    <2>3. start' \in Nat
        <3>1. CASE Current <= ChunkSize
            BY <1>6, <2>1, <3>1 DEF EmitChunk
        <3>2. CASE Current > ChunkSize
            BY <1>6, <2>1, <3>2 DEF EmitChunk, Advancing
        <3>3. QED  BY <2>1, <3>1, <3>2
    <2>4. QED  BY <1>6, <2>2, <2>3 DEF EmitChunk, clientVars, foldVars, HubTypeOK
<1>7. CASE Post
    BY <1>7, EmptyChunks DEF Post, clientVars, foldVars, HubTypeOK
<1>8. CASE BatchOk
    BY <1>0, <1>8, EmptyChunks DEF BatchOk, clientVars, pipelineVars, HubTypeOK
<1>9. CASE BatchFails
    BY <1>0, <1>9, EmptyChunks DEF BatchFails, clientVars, pipelineVars, HubTypeOK
<1>10. CASE Reply
    BY <1>10 DEF Reply, clientVars, pipelineVars, foldVars, HubTypeOK, Replies
<1>11. CASE ReplyError
    BY <1>11 DEF ReplyError, clientVars, pipelineVars, foldVars, HubTypeOK, Replies
<1>12. CASE UNCHANGED hubVars
    BY <1>12 DEF hubVars, clientVars, pipelineVars, foldVars, HubTypeOK
<1>13. QED
    BY <1>1, <1>2, <1>3, <1>4, <1>5, <1>6, <1>7, <1>8, <1>9, <1>10, <1>11, <1>12
       DEF HubNext, HubStep, Answered

---------------------------------------------------------------------------
\* Messages that arrived stay what they are.
LEMMA SameMessages ==
    ASSUME HubTypeOK, [HubNext]_hubVars
    PROVE  /\ Len(received) <= Len(received') /\ Len(received') \in Nat
           /\ DOMAIN received' = 1 .. Len(received')
           /\ \A n \in 1 .. Len(received) : received'[n] = received[n]
<1>1. CASE UNCHANGED received
    BY <1>1, CurrentSize DEF HubTypeOK
<1>2. ASSUME NEW d \in Docs, ClientSends(d)
      PROVE  /\ Len(received) <= Len(received') /\ Len(received') \in Nat
             /\ DOMAIN received' = 1 .. Len(received')
             /\ \A n \in 1 .. Len(received) : received'[n] = received[n]
    BY <1>2, AppendProperties DEF ClientSends, HubTypeOK
<1>3. QED
    BY <1>1, <1>2 DEF HubNext, HubStep, Answered, ClientEnds, Interrupted, Pull,
        PullDies, EmitChunk, Post, BatchOk, BatchFails, Reply, ReplyError,
        hubVars, clientVars

\* The overlap, and with it the step of the windows, is that of the process.
LEMMA OverlapStays ==
    ASSUME [HubNext]_hubVars
    PROVE  overlap' = overlap /\ Step' = Step
<1>1. overlap' = overlap
    BY DEF HubNext, HubStep, Answered, ClientSends, ClientEnds, Interrupted, Pull,
        PullDies, EmitChunk, Post, BatchOk, BatchFails, Reply, ReplyError, hubVars
<1>2. QED  BY <1>1 DEF Step

\* A step of the chunk loop, or one that leaves it where it is.
LEMMA LoopStep ==
    ASSUME HubTypeOK, [HubNext]_hubVars
    PROVE  Pull \/ EmitChunk \/ UNCHANGED <<taken, start>>
BY DEF HubNext, HubStep, Answered, ClientSends, ClientEnds, Interrupted,
    PullDies, Post, BatchOk, BatchFails, Reply, ReplyError, hubVars, pipelineVars

\* Where chunks go: a step cuts one, moves a group, stores a batch or part of
\* one, or leaves every place as it is.
LEMMA ChunkStep ==
    ASSUME HubTypeOK, [HubNext]_hubVars
    PROVE  \/ EmitChunk \/ Post \/ BatchOk \/ BatchFails
           \/ /\ (Interrupted \/ PullDies) /\ reply' # "none" /\ reply' # "success"
              /\ UNCHANGED <<group, batch, foldVars>>
              /\ \E S \in SUBSET Held : stored' = stored \cup S
           \/ UNCHANGED <<group, batch, stored, foldVars>>
<1>1. CASE Interrupted
    <2>1. PICK S \in SUBSET Range(batch) : stored' = IF Live THEN stored \cup S ELSE stored
        BY <1>1 DEF Interrupted
    <2>2. \E T \in SUBSET Held : stored' = stored \cup T
        BY <2>1, S \in SUBSET Held, {} \in SUBSET Held DEF Held
    <2>3. QED  BY <1>1, <2>2 DEF Interrupted, pipelineVars
<1>2. CASE PullDies
    <2>1. PICK S \in SUBSET Range(group) : stored' = IF Live THEN stored \cup S ELSE stored
        BY <1>2 DEF PullDies
    <2>2. \E T \in SUBSET Held : stored' = stored \cup T
        BY <2>1, S \in SUBSET Held, {} \in SUBSET Held DEF Held
    <2>3. QED  BY <1>2, <2>2 DEF PullDies, pipelineVars
<1>3. QED
    BY <1>1, <1>2 DEF HubNext, HubStep, Answered, ClientSends, ClientEnds, Pull,
        Reply, ReplyError, hubVars, pipelineVars, foldVars

LEMMA AdvancingStep == HubTypeOK /\ Advancing /\ [HubNext]_hubVars => Advancing'
<1> SUFFICES ASSUME HubTypeOK, Advancing, [HubNext]_hubVars PROVE Advancing'
    OBVIOUS
<1> USE CurrentSize, OverlapStays
<1>1. CASE UNCHANGED <<taken, start>>
    <2>1. taken > 0 => Current' = Current
        BY <1>1, SameMessages DEF Current
    <2>2. QED  BY <1>1, <2>1 DEF Advancing, MidDocument
<1>2. CASE Pull
    <2>1. /\ taken + 1 \in 1 .. Len(received) /\ taken' = taken + 1
          /\ Current' = Size[received[taken + 1]]
        BY <1>2 DEF Pull, clientVars, Current
    <2>2. QED  BY <1>2, <2>1 DEF Pull, FirstWindow, Advancing, MidDocument
<1>3. CASE EmitChunk
    <2>1. Current' = Current /\ taken' = taken
        BY <1>3 DEF EmitChunk, clientVars, Current
    <2>2. QED  BY <1>3, <2>1 DEF EmitChunk, Advancing, MidDocument
<1>4. QED  BY <1>1, <1>2, <1>3, LoopStep

\* Every chunk held after a step was held before, or is the one just cut.
LEMMA HeldStep ==
    ASSUME HubTypeOK, [HubNext]_hubVars
    PROVE  /\ EmitChunk =>
                Held' = Held \cup {[msg |-> taken, from |-> start, to |-> WindowEnd]}
           /\ ~EmitChunk => Held' \subseteq Held
           /\ ~BatchFails /\ Live => Held \subseteq Held'
<1>1. CASE EmitChunk
    <2>1. [msg |-> taken, from |-> start, to |-> WindowEnd] \in Chunks
        BY <1>1, CurrentSize DEF EmitChunk, MidDocument, HubTypeOK, Chunks, WindowEnd
    <2>2. Range(group') = Range(group) \cup {[msg |-> taken, from |-> start, to |-> WindowEnd]}
        BY <1>1, <2>1, AppendInjects DEF EmitChunk, HubTypeOK
    <2>3. Range(batch') = Range(batch) /\ stored' = stored
        BY <1>1 DEF EmitChunk
    <2>4. QED  BY <1>1, <2>2, <2>3 DEF Held
<1>2. CASE Post
    <2>1. /\ Range(group') = {} /\ Range(batch') = Range(group)
          /\ Range(batch) = {} /\ stored' = stored
        BY <1>2, EmptyChunks DEF Post
    <2>2. QED  BY <2>1, <1>1 DEF Held
<1>3. CASE BatchOk
    <2>1. /\ group' = group /\ Range(batch') = {}
          /\ stored' = IF Live THEN stored \cup Range(batch) ELSE stored
        BY <1>3, EmptyChunks DEF BatchOk, pipelineVars
    <2>2. QED  BY <2>1, <1>1 DEF Held
<1>4. CASE BatchFails
    <2>1. /\ group' = group /\ Range(batch') = {}
          /\ \E S \in SUBSET Range(batch) : stored' = stored \cup S
        BY <1>4, EmptyChunks DEF BatchFails, pipelineVars
    <2>2. QED  BY <2>1, <1>1, <1>4 DEF Held
<1>5. CASE /\ UNCHANGED <<group, batch>>
           /\ \E S \in SUBSET Held : stored' = stored \cup S
    BY <1>5, <1>1 DEF Held
<1>6. CASE UNCHANGED <<group, batch, stored>>
    BY <1>6, <1>1 DEF Held
<1>7. QED  BY <1>1, <1>2, <1>3, <1>4, <1>5, <1>6, ChunkStep

\* Everything held is a chunk.
LEMMA HeldTypes == HubTypeOK => Held \subseteq Chunks
<1> SUFFICES ASSUME HubTypeOK PROVE Held \subseteq Chunks
    OBVIOUS
<1>1. /\ DOMAIN batch = 1 .. Len(batch) /\ DOMAIN group = 1 .. Len(group)
      /\ \A i \in 1 .. Len(batch) : batch[i] \in Chunks
      /\ \A i \in 1 .. Len(group) : group[i] \in Chunks
    BY DEF HubTypeOK
<1>2. QED  BY <1>1 DEF Held, Range, HubTypeOK

LEMMA BehindLoopStep ==
    HubTypeOK /\ Advancing /\ BehindLoop /\ [HubNext]_hubVars => BehindLoop'
<1> SUFFICES ASSUME HubTypeOK, Advancing, BehindLoop, [HubNext]_hubVars,
                    NEW c \in Held'
             PROVE  c.msg < taken' \/ (c.msg = taken' /\ c.from < start')
    BY DEF BehindLoop
<1> USE CurrentSize
<1>1. CASE EmitChunk
    <2>1. /\ taken' = taken /\ start < start'
        <3>1. /\ start < Current /\ taken' = taken /\ start \in Nat /\ Current \in Nat
              /\ start' = IF Current <= ChunkSize THEN Current ELSE start + Step
            BY <1>1 DEF EmitChunk, MidDocument, HubTypeOK
        <3>2. Current > ChunkSize => Step > 0
            BY <1>1 DEF EmitChunk, Advancing
        <3>3. QED  BY <3>1, <3>2
    <2>2. c \in Held \/ c = [msg |-> taken, from |-> start, to |-> WindowEnd]
        BY <1>1, HeldStep
    <2>3. CASE c \in Held
        <3>1. c.msg < taken \/ (c.msg = taken /\ c.from < start)
            BY <2>3 DEF BehindLoop
        <3>2. c.from \in Nat
            BY <2>3, HeldTypes DEF Chunks
        <3>3. start \in Nat /\ start' \in Int
            BY <1>1 DEF HubTypeOK, EmitChunk, MidDocument
        <3>4. QED  BY <2>1, <3>1, <3>2, <3>3
    <2>4. CASE c = [msg |-> taken, from |-> start, to |-> WindowEnd]
        BY <2>1, <2>4
    <2>5. QED  BY <2>2, <2>3, <2>4
<1>2. CASE ~EmitChunk
    <2>1. c \in Held /\ c.msg \in Nat
        BY <1>2, HeldStep, HeldTypes DEF Chunks
    <2>2. c.msg < taken \/ (c.msg = taken /\ c.from < start)
        BY <2>1 DEF BehindLoop
    <2>3. taken' = taken + 1 \/ UNCHANGED <<taken, start>>
        BY <1>2, LoopStep DEF Pull
    <2>4. QED  BY <2>1, <2>2, <2>3
<1>3. QED  BY <1>1, <1>2

LEMMA HeldOnceStep ==
    HubTypeOK /\ BehindLoop /\ HeldOnce /\ [HubNext]_hubVars => HeldOnce'
<1> SUFFICES ASSUME HubTypeOK, BehindLoop, HeldOnce, [HubNext]_hubVars
             PROVE  HeldOnce'
    OBVIOUS
<1>1. CASE EmitChunk
    <2> DEFINE c == [msg |-> taken, from |-> start, to |-> WindowEnd]
    <2>1. c \in Chunks
        BY <1>1, CurrentSize DEF EmitChunk, MidDocument, HubTypeOK, Chunks, WindowEnd
    <2>2. c \notin Held
        <3>1. taken \in Nat /\ start \in Nat /\ c.msg = taken /\ c.from = start
            BY CurrentSize DEF HubTypeOK
        <3>2. QED  BY <3>1 DEF BehindLoop
    <2>3. /\ group' = Append(group, c) /\ batch = <<>>
          /\ UNCHANGED <<batch, stored, reply>>
        BY <1>1 DEF EmitChunk, Producing
    <2>4. Range(group') = Range(group) \cup {c} /\ IsInjective(group')
        BY <2>1, <2>2, <2>3, AppendInjects DEF HubTypeOK, HeldOnce, Held
    <2>5. (Range(group') \cup Range(batch')) \cap stored' = {} \/ ~Running'
        BY <2>2, <2>3, <2>4 DEF HeldOnce, Held, Running
    <2>6. QED  BY <2>3, <2>4, <2>5 DEF HeldOnce
<1>2. CASE Post
    <2>1. /\ group' = <<>> /\ batch' = group /\ stored' = stored
          /\ Range(group') = {} /\ IsInjective(group') /\ Running
        BY <1>2, EmptyChunks DEF Post
    <2>2. QED  BY <2>1 DEF HeldOnce
<1>3. CASE BatchOk \/ BatchFails
    <2>1. /\ batch # <<>> /\ group' = group /\ batch' = <<>> /\ Running
        BY <1>3 DEF BatchOk, BatchFails, pipelineVars
    <2>2. Range(group) = {} /\ Range(batch') = {} /\ IsInjective(batch') /\ group = <<>>
        BY <2>1, EmptyChunks DEF HeldOnce
    <2>3. QED  BY <2>1, <2>2 DEF HeldOnce
<1>4. CASE UNCHANGED <<group, batch>> /\ (reply' # "none" \/ UNCHANGED stored)
    <2>1. Running' => Running
        BY DEF Running, HubNext, HubStep, Answered, ClientSends, ClientEnds, Interrupted, Pull,
            PullDies, EmitChunk, Post, BatchOk, BatchFails, Reply, ReplyError, hubVars
    <2>2. QED  BY <1>4, <2>1 DEF HeldOnce, Running
<1>5. QED  BY <1>1, <1>2, <1>3, <1>4, ChunkStep

LEMMA CountedStep ==
    HubTypeOK /\ HeldOnce /\ Counted /\ [HubNext]_hubVars => Counted'
<1> SUFFICES ASSUME HubTypeOK, HeldOnce, Counted, [HubNext]_hubVars
             PROVE  Counted'
    OBVIOUS
<1>0. /\ IsFiniteSet(Range(batch)) /\ Cardinality(Range(batch)) = Len(batch)
      /\ IsFiniteSet(Range(group))
      /\ processed \in Nat /\ failed \in Nat /\ Len(batch) \in Nat
      /\ Cardinality(stored) \in Nat
    BY InjectiveSize, FS_CardinalityType DEF HubTypeOK, HeldOnce, Counted
<1>1. \A S : S \subseteq Held =>
        /\ IsFiniteSet(stored \cup S)
        /\ Cardinality(stored \cup S) \in Nat
        /\ Cardinality(stored) <= Cardinality(stored \cup S)
    <2>1. IsFiniteSet(Held)
        BY <1>0, FS_Union DEF Held, Counted
    <2>2. ASSUME NEW S, S \subseteq Held
          PROVE  IsFiniteSet(S)
        BY <2>1, <2>2, FS_Subset, S \in SUBSET Held
    <2>3. QED  BY <2>2, StoreMore DEF Counted
<1>2. CASE UNCHANGED <<stored, processed, failed>>
    <2>1. reply' \in {"none", "success"} /\ failed = 0 => reply \in {"none", "success"}
        BY DEF Running, HubNext, HubStep, Answered, ClientSends, ClientEnds, Interrupted, Pull,
            PullDies, EmitChunk, Post, BatchOk, BatchFails, Reply, ReplyError, hubVars
    <2>2. QED  BY <1>2, <2>1 DEF Counted
<1>3. CASE BatchOk
    <2>1. /\ Running /\ processed' = processed + Len(batch) /\ failed' = failed
          /\ stored' = IF Live THEN stored \cup Range(batch) ELSE stored
          /\ reply' = reply
        BY <1>3 DEF BatchOk
    <2>2. Range(batch) \cap stored = {}
        BY <2>1 DEF HeldOnce
    <2>3. /\ IsFiniteSet(stored \cup Range(batch))
          /\ Cardinality(stored \cup Range(batch)) = Cardinality(stored) + Len(batch)
        <3>1. IsFiniteSet(stored)
            BY DEF Counted
        <3>2. /\ IsFiniteSet(stored \cup Range(batch))
              /\ Cardinality(stored \cup Range(batch))
                    = Cardinality(stored) + Cardinality(Range(batch))
            <4>1. stored \cap Range(batch) = {} /\ IsFiniteSet(Range(batch))
                BY <1>0, <2>2
            <4>2. QED  BY <3>1, <4>1, StoreMore
        <3>3. QED  BY <1>0, <3>2
    <2>4. QED  BY <1>0, <2>1, <2>3 DEF Counted
<1>4. CASE BatchFails
    <2>1. /\ processed' = processed /\ failed' = failed + 1
          /\ \E S \in SUBSET Held : stored' = stored \cup S
        BY <1>4 DEF BatchFails, Held
    <2>2. PICK S \in SUBSET Held : stored' = stored \cup S
        BY <2>1
    <2>3. /\ IsFiniteSet(stored') /\ Cardinality(stored') \in Nat
          /\ Cardinality(stored) <= Cardinality(stored')
        BY <1>1, <2>2
    <2>4. QED  BY <1>0, <2>1, <2>3 DEF Counted
<1>5. CASE /\ reply' # "none" /\ reply' # "success" /\ UNCHANGED foldVars
           /\ \E S \in SUBSET Held : stored' = stored \cup S
    <2>1. PICK S \in SUBSET Held : stored' = stored \cup S
        BY <1>5
    <2>2. /\ IsFiniteSet(stored') /\ Cardinality(stored') \in Nat
          /\ Cardinality(stored) <= Cardinality(stored')
        BY <1>1, <2>1
    <2>3. QED  BY <1>0, <1>5, <2>2 DEF Counted, foldVars
<1>6. QED
    BY <1>2, <1>3, <1>4, <1>5, ChunkStep DEF EmitChunk, Post, foldVars

LEMMA CoveredStep ==
    HubTypeOK /\ Covered /\ [HubNext]_hubVars => Covered'
<1> SUFFICES ASSUME HubTypeOK, Covered, [HubNext]_hubVars,
                    Live, failed' = 0, Step' > 0,
                    NEW n \in 1 .. taken', NEW p \in 0 .. Size[received'[n]] - 1
             PROVE  (n = taken' /\ p >= start') \/ \E c \in Held' : Covers(c, n, p)
    BY DEF Covered
<1> USE CurrentSize, OverlapStays
<1>1. failed = 0 /\ ~BatchFails
    <2>1. failed \in Nat
        BY DEF HubTypeOK
    <2>2. BatchFails => failed' = failed + 1
        BY DEF BatchFails
    <2>3. BatchFails \/ failed' = failed
        BY DEF HubNext, HubStep, Answered, ClientSends, ClientEnds, Interrupted, Pull,
            PullDies, EmitChunk, Post, BatchOk, Reply, ReplyError, hubVars, foldVars
    <2>4. QED  BY <2>1, <2>2, <2>3
\* A position covered before stays covered.
<1>2. Held \subseteq Held'
    BY <1>1, HeldStep
<1>3. ASSUME n \in 1 .. taken, received'[n] = received[n]
      PROVE  (n = taken /\ p >= start) \/ \E c \in Held' : Covers(c, n, p)
    BY <1>1, <1>2, <1>3 DEF Covered
<1>4. n \in 1 .. taken => received'[n] = received[n]
    BY SameMessages
<1>5. CASE Pull
    <2>1. taken' = taken + 1 /\ ~MidDocument /\ received' = received
        BY <1>5 DEF Pull, clientVars
    <2>2. CASE n = taken'
        <3>1. start' = 0
            BY <1>5 DEF Pull, FirstWindow
        <3>2. QED  BY <2>2, <3>1
    <2>3. CASE n \in 1 .. taken
        <3>1. ~(n = taken /\ p >= start)
            <4>1. n = taken => ~(start < Size[received[taken]])
                BY <2>1, <2>3 DEF MidDocument, Current
            <4>2. Size[received[n]] \in Nat /\ start \in Nat
                BY <2>3 DEF HubTypeOK
            <4>3. QED  BY <2>1, <4>1, <4>2
        <3>2. QED  BY <1>3, <1>4, <2>3, <3>1
    <2>4. QED  BY <2>1, <2>2, <2>3
<1>6. CASE EmitChunk
    <2> DEFINE c == [msg |-> taken, from |-> start, to |-> WindowEnd]
    <2>1. /\ taken' = taken /\ received' = received /\ start < Current
          /\ taken > 0 /\ start \in Nat /\ Current \in Nat
          /\ start' = IF Current <= ChunkSize THEN Current ELSE start + Step
        BY <1>6 DEF EmitChunk, MidDocument, clientVars, HubTypeOK
    <2>2. c \in Held'
        BY <1>6, HeldStep
    <2>3. ASSUME n = taken, p >= start, p < start'
          PROVE  Covers(c, n, p)
        <3>1. p < Current
            BY <2>1, <2>3 DEF Current
        <3>2. Step <= ChunkSize
            BY HubAssumption DEF HubTypeOK, Step
        <3>3. p < WindowEnd
            BY <2>1, <2>3, <3>1, <3>2 DEF WindowEnd
        <3>4. QED  BY <2>3, <3>3 DEF Covers
    <2>4. start' \in Int
        BY <2>1
    <2>5. QED  BY <1>3, <1>4, <2>1, <2>2, <2>3, <2>4
<1>7. CASE UNCHANGED <<taken, start>>
    BY <1>3, <1>4, <1>7
<1>8. QED  BY <1>5, <1>6, <1>7, LoopStep

LEMMA SuccessIsEndStep ==
    HubTypeOK /\ SuccessIsEnd /\ [HubNext]_hubVars => SuccessIsEnd'
<1> SUFFICES ASSUME HubTypeOK, SuccessIsEnd, [HubNext]_hubVars,
                    reply' = "success"
             PROVE  failed' = 0 /\ Exhausted' /\ group' = <<>> /\ batch' = <<>>
    BY DEF SuccessIsEnd
<1>1. Reply \/ UNCHANGED hubVars
    <2>1. CASE reply = "none"
        <3>1. UNCHANGED hubVars => reply' = reply
            BY DEF hubVars
        <3>2. Reply
            BY <2>1, <3>1 DEF HubNext, HubStep, Answered, ClientSends, ClientEnds,
                Interrupted, Pull, PullDies, EmitChunk, Post, BatchOk, BatchFails, ReplyError
        <3>3. QED  BY <3>2
    <2>2. CASE reply # "none"
        BY <2>2 DEF HubNext, HubStep, Answered, Running, ClientSends, ClientEnds, Interrupted,
            Pull, PullDies, EmitChunk, Post, BatchOk, BatchFails, Reply, ReplyError, Producing
    <2>3. QED  BY <2>1, <2>2
<1>2. UNCHANGED <<clientVars, pipelineVars, batch, foldVars>>
    BY <1>1 DEF Reply, hubVars
<1>3. Exhausted' = Exhausted /\ failed' = failed /\ group' = group /\ batch' = batch
    BY <1>2 DEF Exhausted, MidDocument, Current, clientVars, pipelineVars, foldVars
<1>4. CASE Reply
    BY <1>3, <1>4 DEF Reply
<1>5. CASE UNCHANGED hubVars
    BY <1>3, <1>5 DEF SuccessIsEnd, hubVars
<1>6. QED  BY <1>1, <1>4, <1>5

---------------------------------------------------------------------------
\* Multiples of a step: of two, the larger is at least one step further.
LEMMA NextMultiple ==
    ASSUME NEW s \in Nat \ {0}, NEW j \in Nat, NEW k \in Nat, j * s > k * s
    PROVE  j * s >= k * s + s
<1>1. CASE j <= k
    <2>1. PICK d \in Nat : k = j + d
        BY <1>1
    <2>2. k * s = j * s + d * s /\ d * s >= 0 /\ j * s \in Nat /\ k * s \in Nat
        BY <2>1
    <2>3. QED  BY <2>2
<1>2. CASE j > k
    <2>1. PICK d \in Nat : j = k + 1 + d
        BY <1>2
    <2>2. j * s = k * s + s + d * s /\ d * s >= 0 /\ j * s \in Nat /\ k * s \in Nat
        BY <2>1
    <2>3. QED  BY <2>2
<1>3. QED  BY <1>1, <1>2

\* The windows of chunkText, without the division: those that begin inside the
\* text, at 0 if it fits a chunk and at a multiple of a positive step otherwise.
LEMMA WindowIs ==
    ASSUME HubTypeOK, NEW n \in Nat, NEW size \in Nat, NEW c
    PROVE  c \in WindowsOf(n, size) <=>
             \E from \in Nat :
                /\ c = [msg |-> n, from |-> from,
                        to |-> IF from + ChunkSize < size THEN from + ChunkSize ELSE size]
                /\ from < size
                /\ IF size <= ChunkSize THEN from = 0
                   ELSE Step > 0 /\ \E k \in Nat : from = k * Step
<1> DEFINE W(from) == [msg |-> n, from |-> from,
                       to |-> IF from + ChunkSize < size THEN from + ChunkSize ELSE size]
<1>0. Step \in Int /\ ChunkSize \in Nat \ {0}
    BY CurrentSize
<1>1. CASE size = 0
    BY <1>1 DEF WindowsOf
<1>2. CASE size # 0 /\ size <= ChunkSize
    <2>1. WindowsOf(n, size) = {W(0)}
        BY <1>2 DEF WindowsOf
    <2> HIDE DEF W
    <2>2. c \in WindowsOf(n, size) <=>
            \E from \in Nat : c = W(from) /\ from < size /\ from = 0
        BY <1>2, <2>1
    <2>3. size <= ChunkSize
        BY <1>2
    <2>4. \A from \in Nat :
            from = 0 <=> IF size <= ChunkSize THEN from = 0
                         ELSE Step > 0 /\ \E k \in Nat : from = k * Step
        BY <2>3, Zenon
    <2>5. c \in WindowsOf(n, size) <=>
            \E from \in Nat :
                /\ c = W(from)
                /\ from < size
                /\ IF size <= ChunkSize THEN from = 0
                   ELSE Step > 0 /\ \E k \in Nat : from = k * Step
        BY <2>2, <2>4, Zenon
    <2>6. QED  BY <2>5 DEF W
<1>3. CASE size > ChunkSize /\ Step <= 0
    <2>1. WindowsOf(n, size) = {}
        BY <1>0, <1>3 DEF WindowsOf
    <2>2. QED  BY <1>0, <1>3, <2>1
<1>4. CASE size > ChunkSize /\ Step > 0
    <2>1. WindowsOf(n, size) = {W(k * Step) : k \in {i \in 0 .. size : i * Step < size}}
        BY <1>0, <1>4 DEF WindowsOf
    <2>2. \A k \in Nat : k * Step \in Nat /\ k <= k * Step
        BY <1>0, <1>4
    <2> HIDE DEF W
    <2>3. c \in WindowsOf(n, size) <=>
            \E k \in Nat : k * Step < size /\ c = W(k * Step)
        BY <2>1, <2>2
    <2>4. (\E k \in Nat : k * Step < size /\ c = W(k * Step))
            <=> \E from \in Nat : c = W(from) /\ from < size /\ \E k \in Nat : from = k * Step
        BY <2>2
    <2>5. ~(size <= ChunkSize) /\ Step > 0
        BY <1>0, <1>4
    <2>6. c \in WindowsOf(n, size) <=>
            \E from \in Nat :
                /\ c = W(from)
                /\ from < size
                /\ IF size <= ChunkSize THEN from = 0
                   ELSE Step > 0 /\ \E k \in Nat : from = k * Step
        BY <2>3, <2>4, <2>5, Zenon
    <2>7. QED  BY <2>6 DEF W
<1>5. QED  BY <1>0, <1>1, <1>2, <1>3, <1>4

\* Where a window may begin.
LEMMA WindowBegins ==
    ASSUME HubTypeOK, NEW n \in Nat, NEW size \in Nat, NEW c \in WindowsOf(n, size)
    PROVE  /\ c.from \in Nat /\ c.from < size
           /\ size <= ChunkSize => c.from = 0
           /\ size > ChunkSize => Step > 0 /\ \E k \in Nat : c.from = k * Step
<1>1. PICK from \in Nat :
        /\ c = [msg |-> n, from |-> from,
                to |-> IF from + ChunkSize < size THEN from + ChunkSize ELSE size]
        /\ from < size
        /\ IF size <= ChunkSize THEN from = 0
           ELSE Step > 0 /\ \E k \in Nat : from = k * Step
    BY WindowIs
<1>2. c.from = from /\ ChunkSize \in Nat
    BY <1>1, CurrentSize
<1>3. QED  BY <1>1, <1>2

\* The chunk EmitChunk cuts is a window of the text it is cut from.
LEMMA CutsAWindow ==
    ASSUME HubTypeOK, Advancing, OnGrid, EmitChunk
    PROVE  [msg |-> taken, from |-> start, to |-> WindowEnd] \in WindowsOf(taken, Current)
<1>1. /\ MidDocument /\ start < Current /\ start \in Nat /\ taken \in Nat /\ Current \in Nat
      /\ ChunkSize \in Nat
    BY CurrentSize DEF EmitChunk, MidDocument, HubTypeOK
<1>2. IF Current <= ChunkSize THEN start = 0
      ELSE Step > 0 /\ \E k \in Nat : start = k * Step
    BY <1>1 DEF OnGrid, Advancing
<1>3. QED  BY <1>1, <1>2, WindowIs DEF WindowEnd

LEMMA OnGridStep == HubTypeOK /\ Advancing /\ OnGrid /\ [HubNext]_hubVars => OnGrid'
<1> SUFFICES ASSUME HubTypeOK, Advancing, OnGrid, [HubNext]_hubVars, MidDocument'
             PROVE  IF Current' <= ChunkSize THEN start' = 0
                    ELSE \E k \in Nat : start' = k * Step'
    BY DEF OnGrid
<1> USE CurrentSize, OverlapStays
<1>1. CASE UNCHANGED <<taken, start>>
    <2>1. taken > 0 => Current' = Current
        BY <1>1, SameMessages DEF Current
    <2>2. QED  BY <1>1, <2>1 DEF OnGrid, MidDocument
<1>2. CASE Pull
    <2>1. Current' = Size[received[taken + 1]] /\ start' = FirstWindow(Current')
        BY <1>2 DEF Pull, clientVars, Current
    <2>2. start' < Current'
        BY DEF MidDocument
    <2>3. taken + 1 \in 1 .. Len(received) /\ Current' \in Nat
        BY <1>2, <2>1 DEF Pull
    <2>4. start' = 0
        BY <2>1, <2>2, <2>3 DEF FirstWindow
    <2>5. start' = 0 * Step'
        BY <2>4
    <2>6. QED  BY <2>4, <2>5
<1>3. CASE EmitChunk
    <2>1. /\ Current' = Current /\ MidDocument /\ start' < Current' /\ Current \in Nat
          /\ start' = IF Current <= ChunkSize THEN Current ELSE start + Step
        BY <1>3 DEF EmitChunk, MidDocument, clientVars, Current
    <2>2. Current > ChunkSize /\ start' = start + Step
        BY <2>1
    <2>3. PICK k \in Nat : start = k * Step
        BY <2>1, <2>2 DEF OnGrid
    <2>4. start' = (k + 1) * Step'
        BY <2>2, <2>3
    <2>5. QED  BY <2>1, <2>2, <2>4
<1>4. QED  BY <1>1, <1>2, <1>3, LoopStep

\* Messages keep their windows when more arrive.
LEMMA WindowsStay ==
    ASSUME HubTypeOK, [HubNext]_hubVars
    PROVE  /\ AllWindows \subseteq AllWindows'
           /\ \A n \in 1 .. Len(received) :
                WindowsOf(n, Size[received[n]])' = WindowsOf(n, Size[received[n]])
<1>1. \A n \in 1 .. Len(received) :
        WindowsOf(n, Size[received[n]])' = WindowsOf(n, Size[received[n]])
    <2> SUFFICES ASSUME NEW n \in 1 .. Len(received)
                 PROVE  WindowsOf(n, Size[received[n]])' = WindowsOf(n, Size[received[n]])
        OBVIOUS
    <2>1. Size[received'[n]] = Size[received[n]] /\ Step' = Step
        BY SameMessages, OverlapStays
    <2> DEFINE size == Size[received[n]]
               W(from) == [msg |-> n, from |-> from,
                           to |-> IF from + ChunkSize < size THEN from + ChunkSize ELSE size]
    <2>2. WindowsOf(n, Size[received[n]])' =
            IF size = 0 THEN {}
            ELSE IF size <= ChunkSize THEN {W(0)}
            ELSE IF Step <= 0 THEN {}
            ELSE {W(k * Step) : k \in {i \in 0 .. size : i * Step < size}}
        BY <2>1 DEF WindowsOf
    <2>3. QED  BY <2>2 DEF WindowsOf
<1>2. DOMAIN received = 1 .. Len(received) /\ DOMAIN received \subseteq DOMAIN received'
    BY SameMessages DEF HubTypeOK
<1>3. QED  BY <1>1, <1>2 DEF AllWindows

LEMMA HeldAreWindowsStep ==
    HubTypeOK /\ Advancing /\ OnGrid /\ HeldAreWindows /\ [HubNext]_hubVars => HeldAreWindows'
<1> SUFFICES ASSUME HubTypeOK, Advancing, OnGrid, HeldAreWindows, [HubNext]_hubVars
             PROVE  Held' \subseteq AllWindows'
    BY DEF HeldAreWindows
<1>1. CASE EmitChunk
    <2>1. taken \in DOMAIN received
        BY <1>1, CurrentSize DEF EmitChunk, MidDocument, HubTypeOK
    <2>2. [msg |-> taken, from |-> start, to |-> WindowEnd] \in AllWindows
        BY <1>1, <2>1, CutsAWindow DEF AllWindows, Current
    <2>3. QED  BY <1>1, <2>2, HeldStep, WindowsStay DEF HeldAreWindows
<1>2. CASE ~EmitChunk
    BY <1>2, HeldStep, WindowsStay DEF HeldAreWindows
<1>3. QED  BY <1>1, <1>2

LEMMA NoneMissingStep ==
    HubTypeOK /\ Advancing /\ OnGrid /\ NoneMissing /\ [HubNext]_hubVars => NoneMissing'
<1> SUFFICES ASSUME HubTypeOK, Advancing, OnGrid, NoneMissing, [HubNext]_hubVars,
                    Live, failed' = 0,
                    NEW n \in 1 .. taken', NEW c \in WindowsOf(n, Size[received[n]])'
             PROVE  c \in Held' \/ (n = taken' /\ c.from >= start')
    BY DEF NoneMissing
<1> USE CurrentSize, OverlapStays
<1>1. failed = 0 /\ ~BatchFails
    <2>1. failed \in Nat
        BY DEF HubTypeOK
    <2>2. BatchFails => failed' = failed + 1
        BY DEF BatchFails
    <2>3. BatchFails \/ failed' = failed
        BY DEF HubNext, HubStep, Answered, ClientSends, ClientEnds, Interrupted, Pull,
            PullDies, EmitChunk, Post, BatchOk, Reply, ReplyError, hubVars, foldVars
    <2>4. QED  BY <2>1, <2>2, <2>3
<1>2. Held \subseteq Held'
    BY <1>1, HeldStep
<1>3. taken' <= Len(received) /\ n \in 1 .. Len(received)
    BY LoopStep DEF Pull, EmitChunk
<1>4. c \in WindowsOf(n, Size[received[n]]) /\ Size[received[n]] \in Nat
    BY <1>3, WindowsStay
<1>5. c.from \in Nat /\ c.from < Size[received[n]]
    BY <1>3, <1>4, WindowBegins
\* A window the loop passed before is still somewhere.
<1>6. n \in 1 .. taken => c \in Held' \/ (n = taken /\ c.from >= start)
    BY <1>1, <1>2, <1>4 DEF NoneMissing
<1>7. CASE Pull
    <2>1. taken' = taken + 1 /\ ~MidDocument /\ start' = FirstWindow(Size[received[taken + 1]])
        BY <1>7 DEF Pull
    <2>2. CASE n = taken'
        <3>1. Size[received[n]] > ChunkSize => Step > 0
            BY <1>3, <1>4, WindowBegins
        <3>2. start' = 0
            BY <1>4, <2>1, <2>2, <3>1 DEF FirstWindow
        <3>3. QED  BY <1>5, <2>2, <3>2
    <2>3. CASE n \in 1 .. taken
        <3>1. n = taken => ~(start < Size[received[n]])
            BY <2>1, <2>3 DEF MidDocument, Current
        <3>2. start \in Nat
            BY DEF HubTypeOK
        <3>3. QED  BY <1>4, <1>5, <1>6, <2>3, <3>1, <3>2
    <2>4. QED  BY <2>1, <2>2, <2>3
<1>8. CASE EmitChunk
    <2>1. /\ taken' = taken /\ start < Current /\ MidDocument
          /\ start' = IF Current <= ChunkSize THEN Current ELSE start + Step
          /\ start \in Nat /\ Current \in Nat /\ Step \in Int
        BY <1>8 DEF EmitChunk, MidDocument, HubTypeOK
    <2>2. CASE n = taken /\ c.from = start
        <3>1. c = [msg |-> taken, from |-> start, to |-> WindowEnd]
            BY <1>3, <1>4, <2>2, WindowIs DEF WindowEnd, Current
        <3>2. QED  BY <1>8, <3>1, HeldStep
    <2>3. CASE n = taken /\ c.from > start
        <3>1. Current > ChunkSize /\ Step > 0 /\ \E j \in Nat : c.from = j * Step
            <4>1. /\ Current <= ChunkSize => c.from = 0
                  /\ Current > ChunkSize => Step > 0 /\ \E j \in Nat : c.from = j * Step
                BY <1>3, <1>4, <2>3, WindowBegins DEF Current
            <4>2. c.from > 0 /\ start < Current
                BY <1>5, <2>1, <2>3
            <4>3. Current > ChunkSize
                BY <1>5, <2>1, <4>1, <4>2, HubAssumption
            <4>4. QED  BY <4>1, <4>3
        <3>2. ~(Current <= ChunkSize)
            BY <2>1, <3>1, HubAssumption
        <3>3. PICK k \in Nat : start = k * Step
            BY <2>1, <3>2, Zenon DEF OnGrid
        <3>4. PICK j \in Nat : c.from = j * Step
            BY <3>1, Zenon
        <3>5. c.from >= start + Step
            BY <2>1, <2>3, <3>1, <3>3, <3>4, NextMultiple
        <3>6. QED  BY <2>1, <2>3, <3>2, <3>5
    <2>4. QED  BY <1>5, <1>6, <2>1, <2>2, <2>3
<1>9. CASE UNCHANGED <<taken, start>>
    BY <1>6, <1>9
<1>10. QED  BY <1>7, <1>8, <1>9, LoopStep

---------------------------------------------------------------------------
\* The inductive invariant of the hub (streamScrapeData).
THEOREM HubInvariant == HubSpec => []HubInv
<1>1. HubInv /\ [HubNext]_hubVars => HubInv'
    BY HubTypeStep, AdvancingStep, BehindLoopStep, HeldOnceStep, CountedStep,
       CoveredStep, SuccessIsEndStep, OnGridStep, HeldAreWindowsStep, NoneMissingStep
       DEF HubInv
<1>2. QED  BY HubInitInv, <1>1, PTL DEF HubSpec

\* Types; the hub never holds more than two batches of chunks (grouped).
THEOREM HubTypes == HubSpec => []HubTypeOK
<1>1. HubInv => HubTypeOK
    BY DEF HubInv
<1>2. QED  BY HubInvariant, <1>1, PTL

\* With every overlap smaller than the chunk, which validate does not ask for, a
\* stream answered with success is stored without a gap.
THEOREM HubStoresAcknowledged ==
    ASSUME \A o \in Overlaps : o < ChunkSize
    PROVE  HubSpec => []AcknowledgedIsStored
<1>1. HubInv => AcknowledgedIsStored
    <2> SUFFICES ASSUME HubInv, Live, reply = "success",
                        NEW n \in DOMAIN received, NEW p \in 0 .. Size[received[n]] - 1
                 PROVE  \E c \in stored : Covers(c, n, p)
        BY DEF AcknowledgedIsStored
    <2>1. /\ failed = 0 /\ taken = Len(received) /\ ~MidDocument
          /\ group = <<>> /\ batch = <<>>
        BY DEF HubInv, SuccessIsEnd, Exhausted
    <2>2. Step > 0
        BY HubAssumption DEF HubInv, HubTypeOK, Step
    <2>3. n \in 1 .. taken
        BY <2>1 DEF HubInv, HubTypeOK
    <2>4. Held = stored
        BY <2>1, EmptyChunks DEF Held
    <2>5. ~(n = taken /\ p >= start)
        <3>1. n = taken => ~(start < Size[received[taken]])
            BY <2>1, <2>3 DEF MidDocument, Current
        <3>2. Size[received[n]] \in Nat /\ start \in Nat
            BY <2>1, <2>3, CurrentSize DEF HubInv, HubTypeOK
        <3>3. QED  BY <3>1, <3>2
    <2>6. QED  BY <2>1, <2>2, <2>3, <2>4, <2>5 DEF HubInv, Covered
<1>2. QED  BY HubInvariant, <1>1, PTL

\* The count of the response never exceeds what the collection holds.
THEOREM HubCountsHonestly == HubSpec => []CountIsHonest
<1>1. HubInv => CountIsHonest
    BY DEF HubInv, Counted, SuccessIsEnd, CountIsHonest
<1>2. QED  BY HubInvariant, <1>1, PTL

\* The collection never holds anything but windows of what arrived, and after
\* "success" it holds every one: grouping and sending lose and invent none.
THEOREM HubStoresTheWindows == HubSpec => []StoredAreTheWindows
<1>1. HubInv => StoredAreTheWindows
    <2> SUFFICES ASSUME HubInv PROVE StoredAreTheWindows
        OBVIOUS
    <2>1. stored \subseteq AllWindows
        BY DEF HubInv, HeldAreWindows, Held
    <2>2. ASSUME Live, reply = "success", NEW n \in DOMAIN received,
                 NEW c \in WindowsOf(n, Size[received[n]])
          PROVE  c \in stored
        <3>1. /\ failed = 0 /\ taken = Len(received) /\ ~MidDocument
              /\ group = <<>> /\ batch = <<>>
            BY <2>2 DEF HubInv, SuccessIsEnd, Exhausted
        <3>2. n \in 1 .. taken /\ Held = stored
            BY <3>1, EmptyChunks DEF HubInv, HubTypeOK, Held
        <3>3. n \in Nat /\ Size[received[n]] \in Nat /\ start \in Nat
            BY <3>1, <3>2, CurrentSize DEF HubInv, HubTypeOK
        <3>4. c.from \in Nat /\ c.from < Size[received[n]]
            BY <2>2, <3>3, WindowBegins DEF HubInv
        <3>5. n = taken => ~(start < Size[received[n]])
            BY <3>1, <3>2 DEF MidDocument, Current
        <3>6. c \in Held \/ (n = taken /\ c.from >= start)
            BY <2>2, <3>1, <3>2 DEF HubInv, NoneMissing
        <3>7. QED  BY <3>2, <3>3, <3>4, <3>5, <3>6
    <2>3. Live /\ reply = "success" => AllWindows \subseteq stored
        BY <2>2 DEF AllWindows
    <2>4. QED  BY <2>1, <2>3 DEF StoredAreTheWindows
<1>2. QED  BY HubInvariant, <1>1, PTL
=============================================================================
