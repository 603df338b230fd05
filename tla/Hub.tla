-------------------------------- MODULE Hub --------------------------------
(***************************************************************************)
(* The ingestion hub: one call of IngestionService.streamScrapeData, with  *)
(* RiskIntelPipeline.chunkText and ChromaDBClient.batchUpsert.  Calls share *)
(* nothing but the database, where each chunk gets a random identifier, so *)
(* one call shows what any of them does.                                   *)
(*                                                                         *)
(* A message is a document; all the hub's control depends on is the size   *)
(* of its normalised text, 0 for a blank one.  A chunk is a window of the   *)
(* text of the msg-th message: positions from .. to - 1.                   *)
(***************************************************************************)
EXTENDS Integers, Sequences, FiniteSets, Functions

CONSTANTS
    Docs,         \* the documents clients may send
    Size,         \* the size of each document's normalised text
    ChunkSize,    \* CHUNK_SIZE
    Overlaps,     \* what CHUNK_OVERLAP may be
    BatchSize,    \* CHROMA_BATCH_SIZE
    Live,         \* CHROMA_API_KEY is set: the real client, not the stub
    MaxMessages   \* bound: the messages of one stream

\* What AppConfig.validate requires, and no more.
ASSUME HubAssumption ==
    /\ Size \in [Docs -> Nat]
    /\ ChunkSize \in Nat \ {0} /\ Overlaps \subseteq Nat /\ BatchSize \in Nat \ {0}
    /\ Live \in BOOLEAN
    /\ MaxMessages \in Nat

VARIABLES
    overlap,     \* CHUNK_OVERLAP of the process, read when it starts
    feed,        \* the request stream: "open", "closed" by the client, "failed"
    received,    \* the messages that arrived, in order
    taken,       \* how many of them the pipeline has pulled
    start,       \* where the next window of the last pulled message begins
    group,       \* chunks grouped so far
    batch,       \* the group batchUpsert is sending; <<>> when none
    processed, failed,   \* the fold: chunks upserted, batches failed
    reply,       \* what the call returned, "none" while it runs
    stored       \* the chunks in the collection

clientVars   == <<feed, received>>
pipelineVars == <<taken, start, group>>
foldVars     == <<processed, failed>>
hubVars == <<overlap, clientVars, pipelineVars, batch, foldVars, reply, stored>>

Replies == {"none", "success", "partial", "error", "died", "interrupted"}

Step == ChunkSize - overlap

HubInit ==
    /\ overlap \in Overlaps
    /\ feed = "open" /\ received = <<>>
    /\ taken = 0 /\ start = 0 /\ group = <<>> /\ batch = <<>>
    /\ processed = 0 /\ failed = 0
    /\ reply = "none" /\ stored = {}

Running == reply = "none"

\* The text the chunk loop works on, and whether windows of it are left.
Current == Size[received[taken]]
MidDocument == taken > 0 /\ start < Current

\* The stages pull: nothing new is produced while a batch is being sent or a
\* full group waits to be sent.
Producing == Running /\ batch = <<>> /\ Len(group) < BatchSize

\* All that the stream will ever carry has been chunked.
Exhausted == feed # "open" /\ taken = Len(received) /\ ~MidDocument

---------------------------------------------------------------------------
\* Mutated definitions: plausible bugs, each of which breaks a property below.

\* The last window runs past the end of the text.
MutWindowEndUnclamped == start + ChunkSize

\* Only full groups are sent; the rest of the stream stays behind.
MutPostFullOnly ==
    /\ Running /\ batch = <<>> /\ Len(group) = BatchSize
    /\ batch' = group /\ group' = <<>>
    /\ UNCHANGED <<overlap, clientVars, taken, start, foldVars, reply, stored>>

\* The size of a batch is counted whether the upsert failed or not.
MutFailCounts ==
    /\ Running /\ Live /\ batch # <<>>
    /\ failed' = failed + 1 /\ processed' = processed + Len(batch)
    /\ \E S \in SUBSET Range(batch) : stored' = stored \cup S
    /\ batch' = <<>>
    /\ UNCHANGED <<overlap, clientVars, pipelineVars, reply>>

\* The answer does not wait for the last, incomplete group.
MutReplyEarly ==
    /\ Running /\ feed = "closed" /\ Exhausted /\ batch = <<>>
    /\ reply' = IF failed = 0 THEN "success" ELSE "partial"
    /\ UNCHANGED <<overlap, clientVars, pipelineVars, batch, foldVars, stored>>

---------------------------------------------------------------------------
\* The client and the transport.

ClientSends(d) ==
    /\ Running /\ feed = "open" /\ Len(received) < MaxMessages
    /\ received' = Append(received, d)
    /\ UNCHANGED <<overlap, feed, pipelineVars, batch, foldVars, reply, stored>>

ClientEnds ==
    /\ Running /\ feed = "open"
    /\ feed' \in {"closed", "failed"}
    /\ UNCHANGED <<overlap, received, pipelineVars, batch, foldVars, reply, stored>>

\* A call that is cancelled, or cut off by the server's shutdown, is
\* interrupted.  The request in flight may have been carried out in part.
Interrupted ==
    /\ Running
    /\ reply' = "interrupted"
    /\ \E S \in SUBSET Range(batch) : stored' = IF Live THEN stored \cup S ELSE stored
    /\ UNCHANGED <<overlap, clientVars, pipelineVars, batch, foldVars>>

---------------------------------------------------------------------------
\* The pipeline.

\* A Range by a negative step is empty: chunkText finds no window.
FirstWindow(size) == IF size > ChunkSize /\ Step < 0 THEN size ELSE 0

Pull ==
    /\ Producing /\ ~MidDocument /\ taken < Len(received)
    /\ LET size == Size[received[taken + 1]]
       IN  /\ ~(size > ChunkSize /\ Step = 0)
           /\ start' = FirstWindow(size)
    /\ taken' = taken + 1
    /\ UNCHANGED <<overlap, clientVars, group, batch, foldVars, reply, stored>>

\* A Range by 0 throws.  catchAll does not see a defect: the call dies.  The
\* chunks grouped so far may or may not be sent on the way out.
PullDies ==
    /\ Producing /\ ~MidDocument /\ taken < Len(received)
    /\ Size[received[taken + 1]] > ChunkSize /\ Step = 0
    /\ reply' = "died"
    /\ \E S \in SUBSET Range(group) : stored' = IF Live THEN stored \cup S ELSE stored
    /\ UNCHANGED <<overlap, clientVars, pipelineVars, batch, foldVars>>

WindowEnd == IF start + ChunkSize < Current THEN start + ChunkSize ELSE Current

\* A text that fits is one chunk; a longer one has a window at each step.
EmitChunk ==
    /\ Producing /\ MidDocument
    /\ group' = Append(group, [msg |-> taken, from |-> start, to |-> WindowEnd])
    /\ start' = IF Current <= ChunkSize THEN Current ELSE start + Step
    /\ UNCHANGED <<overlap, clientVars, taken, batch, foldVars, reply, stored>>

\* grouped: a full group goes on, and what is left when the stream ends.
Post ==
    /\ Running /\ batch = <<>> /\ group # <<>>
    /\ Len(group) = BatchSize \/ Exhausted
    /\ batch' = group /\ group' = <<>>
    /\ UNCHANGED <<overlap, clientVars, taken, start, foldVars, reply, stored>>

\* The stub answers without storing.
BatchOk ==
    /\ Running /\ batch # <<>>
    /\ processed' = processed + Len(batch)
    /\ stored' = IF Live THEN stored \cup Range(batch) ELSE stored
    /\ batch' = <<>>
    /\ UNCHANGED <<overlap, clientVars, pipelineVars, failed, reply>>

\* An error status or a broken connection; what the database did of the
\* request is unknown.  The error is counted and the stream goes on.
BatchFails ==
    /\ Running /\ Live /\ batch # <<>>
    /\ failed' = failed + 1
    /\ \E S \in SUBSET Range(batch) : stored' = stored \cup S
    /\ batch' = <<>>
    /\ UNCHANGED <<overlap, clientVars, pipelineVars, processed, reply>>

Reply ==
    /\ Running /\ feed = "closed" /\ Exhausted /\ group = <<>> /\ batch = <<>>
    /\ reply' = IF failed = 0 THEN "success" ELSE "partial"
    /\ UNCHANGED <<overlap, clientVars, pipelineVars, batch, foldVars, stored>>

\* The stream's error reaches catchAll: INTERNAL.  Chunks grouped so far may
\* have been sent before (Post) or are dropped.
ReplyError ==
    /\ Running /\ feed = "failed" /\ Exhausted /\ batch = <<>>
    /\ reply' = "error"
    /\ UNCHANGED <<overlap, clientVars, pipelineVars, batch, foldVars, stored>>

HubStep ==
    Pull \/ PullDies \/ EmitChunk \/ Post \/ BatchOk \/ BatchFails \/ Reply \/ ReplyError

Answered == ~Running /\ UNCHANGED hubVars

HubNext ==
    (\E d \in Docs : ClientSends(d)) \/ ClientEnds \/ Interrupted \/ HubStep \/ Answered

HubSpec == HubInit /\ [][HubNext]_hubVars

\* The runtime runs the fiber, and the database answers: the client has no
\* timeout of its own.
HubFairSpec == HubSpec /\ WF_hubVars(HubStep)

---------------------------------------------------------------------------
\* Properties.

Chunks == [msg : Nat, from : Nat, to : Nat]

\* Types.  At most BatchSize chunks are held in each of the two places, which
\* is the back-pressure of grouped.
HubTypeOK ==
    /\ overlap \in Overlaps
    /\ feed \in {"open", "closed", "failed"}
    /\ received \in Seq(Docs)
    /\ taken \in 0 .. Len(received)
    /\ start \in Nat
    /\ group \in Seq(Chunks) /\ Len(group) <= BatchSize
    /\ batch \in Seq(Chunks) /\ Len(batch) <= BatchSize
    /\ processed \in Nat /\ failed \in Nat
    /\ reply \in Replies
    /\ stored \in SUBSET Chunks

Covers(c, n, p) == c.msg = n /\ c.from <= p /\ p < c.to

\* A client told "success" can rely on it: every position of every document it
\* sent lies in a chunk of the collection (streamScrapeData's ScrapeResponse).
AcknowledgedIsStored ==
    Live /\ reply = "success" =>
        \A n \in DOMAIN received : \A p \in 0 .. Size[received[n]] - 1 :
            \E c \in stored : Covers(c, n, p)

\* chunkText, as a set: the windows of a text of the given size; a step of 0 or
\* below yields none.
WindowsOf(n, size) ==
    LET Window(from) ==
            [msg |-> n, from |-> from,
             to |-> IF from + ChunkSize < size THEN from + ChunkSize ELSE size]
    IN  IF size = 0 THEN {}
        ELSE IF size <= ChunkSize THEN {Window(0)}
        ELSE IF Step <= 0 THEN {}
        ELSE {Window(k * Step) : k \in {i \in 0 .. size : i * Step < size}}

AllWindows == UNION {WindowsOf(n, Size[received[n]]) : n \in DOMAIN received}

\* Whatever happens, the collection holds nothing but windows of what arrived,
\* and on success it holds them all: batching loses and invents none.
StoredAreTheWindows ==
    /\ stored \subseteq AllWindows
    /\ Live /\ reply = "success" => stored = AllWindows

\* The count reported never exceeds what is in the collection, even when
\* batches failed half way; on success it is exact.
CountIsHonest ==
    Live =>
        /\ processed <= Cardinality(stored)
        /\ reply = "success" => processed = Cardinality(stored)

\* A stream its client ends is answered.
HubAnswers == feed # "open" ~> reply # "none"

\* RiskIntelPipelineSpec.scala:12, "splits text exceeding chunk size into
\* multiple chunks": an acknowledged long text left more than one chunk.
LongTextIsSplit ==
    Live /\ reply = "success" =>
        \A n \in DOMAIN received : Size[received[n]] > ChunkSize =>
            \E c, e \in stored : c # e /\ c.msg = n /\ e.msg = n
=============================================================================
