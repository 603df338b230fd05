----------------------------- MODULE AppProofs -----------------------------
(***************************************************************************)
(* Proofs about the front end, for any scenario and any lengths of its      *)
(* lists.  They come in two parts.                                         *)
(*                                                                         *)
(* AppInv: no timer, listener or handler of a page survives it, and what a   *)
(* page shows goes back once at most.  The second rests on an order of the   *)
(* summaries that are under way: those on the wire rise, and whatever was    *)
(* read later is newer.  A page that still waits for its REST answer, or has *)
(* gone back already, shows nothing newer than what is under way; so only    *)
(* that answer can take it back.                                           *)
(*                                                                         *)
(* ScreenInv: what the lists of a page show.  The terminal's next lines only *)
(* add to those on its screen, every reply has the number of a call that is  *)
(* over, and the numbers come from the clicks, which only go down.           *)
(***************************************************************************)
EXTENDS App, SequenceTheorems, TLAPS

Messages ==
    [type : {"init"}, summary : Nat, recent : Nat] \cup
    [type : {"summary_update"}, summary : Nat] \cup
    [type : {"agent_result"}, id : Nat] \cup
    [type : {"risk_alert"}, risk : Nat]

IsSummary(m) == m.type \in {"init", "summary_update"}

\* The summaries on a wire w rise, and are at most, or at least, n.
Rising(w) ==
    \A i, j \in 1..Len(w) :
        i < j /\ IsSummary(w[i]) /\ IsSummary(w[j]) => w[i].summary <= w[j].summary
AtMost(w, n) == \A i \in 1..Len(w) : IsSummary(w[i]) => w[i].summary <= n
AtLeast(w, n) == \A i \in 1..Len(w) : IsSummary(w[i]) => n <= w[i].summary

KindOf(p) == IF IsConsole(p) THEN "console" ELSE p

CallRecords ==
    [id : Nat, what : {"summary", "recent", "health", "supplier", "trigger", "analyze"},
     got : {"none", "ok", "refused", "lost"}, at : Nat]

AppTyped ==
    /\ page \in Pages /\ trail \in Seq(Pages)
    /\ left \in [Kinds -> Nat]
    /\ db \in Nat
    /\ endpoint \in [at : {"none", "accepted", "summarised", "live"}, summary : Int]
    /\ wire \in Seq(Messages)
    /\ calls \subseteq CallRecords

\* The endpoint e sends nothing on wire w before it is live.
WireInv(w, e, d) ==
    /\ Rising(w) /\ AtMost(w, d)
    /\ e.at # "live" => w = <<>>
    /\ e.at = "summarised" => e.summary \in 0..d

OneSummaryCall(C) ==
    \A c, d \in C : c.what = "summary" /\ d.what = "summary" => c = d

\* The component u of page p has its fields.
Shaped(p, u) ==
    /\ "kind" \in DOMAIN u /\ u.kind = KindOf(p)
    /\ p \in Watching =>
         /\ {"summary", "back"} \subseteq DOMAIN u
         /\ u.summary \in Int /\ u.back \in {0, 1}
    /\ p = "landing" =>
         /\ {"recent", "mocked"} \subseteq DOMAIN u
         /\ u.mocked \in {0, 1}

\* Nothing under way, on wire w, at endpoint e, in a database of d, is older than s.
Behind(w, e, d, s) ==
    /\ AtLeast(w, s)
    /\ e.at = "summarised" => s <= e.summary
    /\ s <= d

Pending(C) == \E c \in C : c.what = "summary"

\* A page that waits for its answers has not gone back.
Waits(p, u, C, w, e, d) ==
    /\ p \in Watching =>
         /\ Pending(C) => u.back = 0
         /\ Pending(C) \/ u.back = 1 => Behind(w, e, d, u.summary)
    /\ p = "landing" => (C # {} => u.mocked = 0)

\* The inductive invariant
AppInv ==
    /\ AppTyped
    /\ link = "down" => endpoint.at = "none"
    /\ WireInv(wire, endpoint, db)
    /\ OneSummaryCall(calls)
    /\ Shaped(page, ui)
    /\ Waits(page, ui, calls, wire, endpoint, db)
    /\ NothingOutlivesItsPage

-----------------------------------------------------------------------------
(* The wire *)

LEMMA WireAppend ==
    ASSUME NEW w \in Seq(Messages), NEW m \in Messages, NEW n \in Nat,
           Rising(w), AtMost(w, n),
           IsSummary(m) => AtMost(w, m.summary) /\ m.summary <= n
    PROVE  /\ Append(w, m) \in Seq(Messages)
           /\ Rising(Append(w, m)) /\ AtMost(Append(w, m), n)
           /\ \A s \in Int : AtLeast(w, s) /\ (IsSummary(m) => s <= m.summary)
                               => AtLeast(Append(w, m), s)
<1> DEFINE v == Append(w, m)
<1>1. /\ v \in Seq(Messages) /\ Len(w) \in Nat /\ Len(v) = Len(w) + 1
      /\ \A i \in 1..Len(w) : v[i] = w[i]
      /\ v[Len(w) + 1] = m
  BY AppendProperties
<1>2. \A i \in 1..Len(v) : i \in 1..Len(w) \/ i = Len(w) + 1
  BY <1>1
<1> HIDE DEF v
<1>3. Rising(v)
  BY <1>1, <1>2 DEF Rising, AtMost
<1>4. AtMost(v, n)
  BY <1>1, <1>2 DEF AtMost
<1>5. \A s \in Int : AtLeast(w, s) /\ (IsSummary(m) => s <= m.summary) => AtLeast(v, s)
  BY <1>1, <1>2 DEF AtLeast
<1> QED  BY <1>1, <1>3, <1>4, <1>5 DEF v

LEMMA WireTail ==
    ASSUME NEW w \in Seq(Messages), w # <<>>, NEW n \in Nat, Rising(w), AtMost(w, n)
    PROVE  /\ Tail(w) \in Seq(Messages) /\ Head(w) \in Messages
           /\ Rising(Tail(w)) /\ AtMost(Tail(w), n)
           /\ \A s \in Int : AtLeast(w, s) => AtLeast(Tail(w), s)
           /\ \A s \in Int : AtLeast(w, s) /\ IsSummary(Head(w)) => s <= Head(w).summary
           /\ IsSummary(Head(w)) =>
                /\ AtLeast(Tail(w), Head(w).summary)
                /\ Head(w).summary \in Nat /\ Head(w).summary <= n
<1> DEFINE v == Tail(w)
<1>1. /\ v \in Seq(Messages) /\ Len(w) \in Nat /\ Len(w) >= 1 /\ Len(v) = Len(w) - 1
      /\ \A i \in 1..Len(v) : v[i] = w[i + 1]
      /\ Head(w) = w[1] /\ w[1] \in Messages
  BY HeadTailProperties, EmptySeq
<1>2. \A i \in 1..Len(v) : i + 1 \in 1..Len(w) /\ 1 < i + 1
  BY <1>1
<1>3. 1 \in 1..Len(w)
  BY <1>1
<1> HIDE DEF v
<1>4. Rising(v)
  <2> SUFFICES ASSUME NEW i \in 1..Len(v), NEW j \in 1..Len(v), i < j,
                      IsSummary(v[i]), IsSummary(v[j])
               PROVE  v[i].summary <= v[j].summary
    BY DEF Rising
  <2>1. i + 1 \in 1..Len(w) /\ j + 1 \in 1..Len(w) /\ i + 1 < j + 1
    BY <1>1
  <2> QED  BY <1>1, <2>1 DEF Rising
<1>5. AtMost(v, n)
  BY <1>1, <1>2 DEF AtMost
<1>6. \A s \in Int : AtLeast(w, s) => AtLeast(v, s)
  BY <1>1, <1>2 DEF AtLeast
<1>7. \A s \in Int : AtLeast(w, s) /\ IsSummary(w[1]) => s <= w[1].summary
  BY <1>3 DEF AtLeast
<1>8. IsSummary(w[1]) => /\ AtLeast(v, w[1].summary)
                         /\ w[1].summary \in Nat /\ w[1].summary <= n
  <2>1. IsSummary(w[1]) => w[1].summary \in Nat
    BY <1>1 DEF Messages, IsSummary
  <2>2. IsSummary(w[1]) => AtLeast(v, w[1].summary)
    BY <1>1, <1>2, <1>3 DEF Rising, AtLeast
  <2> QED  BY <1>3, <2>1, <2>2 DEF AtMost
<1> QED  BY <1>1, <1>4, <1>5, <1>6, <1>7, <1>8 DEF v

LEMMA EmptyWire ==
    /\ <<>> \in Seq(Messages) /\ Rising(<<>>)
    /\ \A n : AtMost(<<>>, n) /\ AtLeast(<<>>, n)
<1>1. Len(<<>>) = 0 /\ <<>> \in Seq(Messages)
  BY EmptySeq
<1>2. 1..0 = {}
  OBVIOUS
<1> QED  BY <1>1, <1>2 DEF Rising, AtMost, AtLeast

\* What the scenario bounds stays a number.
LEMMA SpendTyped ==
    ASSUME left \in [Kinds -> Nat], NEW k \in Kinds, Spend(k)
    PROVE  left' \in [Kinds -> Nat]
<1>1. left[k] \in Nat /\ left[k] - 1 \in Nat
  BY DEF Spend
<1> QED  BY <1>1 DEF Spend

-----------------------------------------------------------------------------
(* Where every page starts *)

LEMMA FreshShape ==
    ASSUME NEW p \in Pages
    PROVE  /\ Shaped(p, InitOf(p))
           /\ p \in Watching => InitOf(p).summary = NoSummary /\ InitOf(p).back = 0
           /\ p = "landing" => InitOf(p).mocked = 0
BY DEF Pages, InitOf, Shaped, KindOf, IsConsole, Watching, NoSummary,
   LandingInit, ConsoleInit, EcosystemInit, ArchitectureInit, DevDocsInit

LEMMA FreshCalls ==
    ASSUME NEW p \in Pages
    PROVE  CallsOf(p) \subseteq CallRecords /\ OneSummaryCall(CallsOf(p))
BY DEF Pages, CallsOf, CallRecords, IsConsole, Call, OneSummaryCall,
   LandingCalls, ConsoleCalls, EcosystemCalls, ArchitectureCalls

LEMMA FreshWaits ==
    ASSUME NEW p \in Pages, NEW w \in Seq(Messages), NEW e, NEW d \in Nat,
           WireInv(w, e, d)
    PROVE  Waits(p, InitOf(p), CallsOf(p), w, e, d)
<1>1. AtLeast(w, NoSummary)
  <2>1. \A i \in 1..Len(w) : w[i] \in Messages
    BY ElementOfSeq
  <2>2. \A i \in 1..Len(w) : IsSummary(w[i]) => w[i].summary \in Nat
    BY <2>1 DEF Messages, IsSummary
  <2> QED  BY <2>2 DEF AtLeast, NoSummary
<1>2. Behind(w, e, d, NoSummary)
  BY <1>1 DEF WireInv, Behind, NoSummary
<1> QED  BY <1>2, FreshShape DEF Waits

\* What a page acquires when it is mounted, its cleanups give back.
LEMMA CleanedUp == ASSUME NEW p \in Pages PROVE AcquiredBy(p) \subseteq ReleasedBy(p)
BY DEF Pages, AcquiredBy, ReleasedBy, IsConsole, LandingAcquires, LandingReleases,
   ConsoleAcquires, ConsoleReleases, DevDocsAcquires, DevDocsReleases

LEMMA AppStart == Init => AppInv
<1> SUFFICES ASSUME Init PROVE AppInv
  OBVIOUS
<1>1. page \in Pages /\ left \in [Kinds -> Nat] /\ db \in Nat
  BY AppAssumption DEF Init, AppAssumption
<1>2. wire = <<>> /\ trail = <<>> /\ endpoint = NoEndpoint
  BY DEF Init
<1>3. AppTyped
  <2>1. trail \in Seq(Pages)
    BY <1>2
  <2>2. endpoint \in [at : {"none", "accepted", "summarised", "live"}, summary : Int]
    BY <1>2 DEF NoEndpoint, NoSummary
  <2>3. calls \subseteq CallRecords
    BY <1>1, FreshCalls DEF Init
  <2> QED  BY <1>1, <1>2, <2>1, <2>2, <2>3, EmptyWire DEF AppTyped
<1>4. WireInv(wire, endpoint, db)
  BY <1>2, EmptyWire DEF WireInv, NoEndpoint
<1>5. /\ ui = InitOf(page) /\ calls = CallsOf(page) /\ NothingOutlivesItsPage
      /\ endpoint.at = "none"
  BY DEF Init, NothingOutlivesItsPage, NoEndpoint
<1> QED  BY <1>3, <1>4, <1>5, FreshShape, FreshCalls, FreshWaits DEF AppInv, AppTyped

-----------------------------------------------------------------------------
(* Navigation *)

\* The cleanups leave nothing of the page that goes.
LEMMA MountClears ==
    ASSUME AppInv, NEW p \in Pages, Mount(p)
    PROVE  held' = {p} \X AcquiredBy(p) /\ handlers' = {p} \X EventsOf(p)
<1>1. held \subseteq {page} \X ReleasedBy(page) /\ handlers = {page} \X EventsOf(page)
  BY CleanedUp DEF AppInv, AppTyped, NothingOutlivesItsPage
<1>2. /\ held' = (held \ ({page} \X ReleasedBy(page))) \cup ({p} \X AcquiredBy(p))
      /\ handlers' = (handlers \ ({page} \X EventsOf(page))) \cup ({p} \X EventsOf(p))
  BY DEF Mount
<1> QED  BY <1>1, <1>2

LEMMA MountKeeps ==
    ASSUME AppInv, NEW p \in Pages, Mount(p),
           trail' \in Seq(Pages), left' \in [Kinds -> Nat]
    PROVE  AppInv'
<1>1. /\ page' = p /\ ui' = InitOf(p) /\ calls' = CallsOf(p)
      /\ UNCHANGED <<db, endpoint, wire, link>>
  BY DEF Mount, netVars
<1>2. AppTyped'
  BY <1>1, FreshCalls DEF AppInv, AppTyped
<1>3. WireInv(wire, endpoint, db)'
  BY <1>1 DEF AppInv
<1>4. Shaped(p, InitOf(p)) /\ OneSummaryCall(CallsOf(p))
  BY FreshShape, FreshCalls
<1>5. Waits(p, InitOf(p), CallsOf(p), wire, endpoint, db)
  BY FreshWaits DEF AppInv, AppTyped
<1>6. NothingOutlivesItsPage'
  BY <1>1, MountClears DEF NothingOutlivesItsPage
<1> QED  BY <1>1, <1>2, <1>3, <1>4, <1>5, <1>6 DEF AppInv

LEMMA StepNavigate ==
    ASSUME AppInv, GoBack \/ \E p \in Pages : FollowLink(p)
    PROVE  AppInv'
<1>1. left \in [Kinds -> Nat] /\ trail \in Seq(Pages) /\ page \in Pages
  BY DEF AppInv, AppTyped
<1>2. left' \in [Kinds -> Nat]
  BY <1>1, SpendTyped DEF GoBack, FollowLink, Kinds
<1>3. ASSUME NEW p \in Pages, FollowLink(p) PROVE AppInv'
  <2>1. Append(trail, page) \in Seq(Pages)
    BY <1>1, AppendProperties
  <2> QED  BY <1>2, <1>3, <2>1, MountKeeps DEF FollowLink
<1>4. ASSUME GoBack PROVE AppInv'
  <2>1. trail # <<>> /\ trail' = Front(trail) /\ Mount(Last(trail))
    BY <1>4 DEF GoBack
  <2>2. Len(trail) \in Nat /\ Len(trail) >= 1
    BY <1>1, <2>1, EmptySeq
  <2>3. Last(trail) \in Pages
    BY <1>1, <2>2 DEF Last
  <2>4. Front(trail) \in Seq(Pages)
    BY <1>1, <2>2, SubSeqProperties DEF Front
  <2> QED  BY <1>2, <2>1, <2>3, <2>4, MountKeeps
<1> QED  BY <1>3, <1>4

-----------------------------------------------------------------------------
(* What a step of each kind has to keep *)

LEMMA NetKeeps ==
    ASSUME AppInv, UNCHANGED <<page, trail, held, handlers, ui, calls>>,
           left' \in [Kinds -> Nat], db' \in Nat, wire' \in Seq(Messages),
           endpoint' \in [at : {"none", "accepted", "summarised", "live"}, summary : Int],
           link' = "down" => endpoint'.at = "none",
           WireInv(wire', endpoint', db'),
           \A s \in Int : Behind(wire, endpoint, db, s) => Behind(wire', endpoint', db', s)
    PROVE  AppInv'
<1>1. AppTyped' /\ OneSummaryCall(calls') /\ Shaped(page', ui')
  BY DEF AppInv, AppTyped
<1>2. Waits(page', ui', calls', wire', endpoint', db')
  BY DEF AppInv, Waits, Shaped
<1>3. NothingOutlivesItsPage'
  BY DEF AppInv, NothingOutlivesItsPage
<1> QED  BY <1>1, <1>2, <1>3 DEF AppInv

LEMMA PageKeeps ==
    ASSUME AppInv, UNCHANGED <<page, trail, handlers, link, netVars>>,
           left' \in [Kinds -> Nat], calls' \subseteq CallRecords,
           OneSummaryCall(calls'), Shaped(page, ui'),
           Waits(page, ui', calls', wire, endpoint, db),
           held' \subseteq {page} \X (AcquiredBy(page) \cup ReleasedBy(page))
    PROVE  AppInv'
<1>1. AppTyped' /\ NothingOutlivesItsPage' /\ UNCHANGED <<wire, endpoint, db>>
  BY DEF AppInv, AppTyped, NothingOutlivesItsPage, netVars
<1> QED  BY <1>1 DEF AppInv

\* A step that shows no other summary and asks for none.
LEMMA QuietKeeps ==
    ASSUME AppInv, UNCHANGED <<page, trail, handlers, link, netVars>>,
           left' \in [Kinds -> Nat], calls' \subseteq CallRecords,
           \A c \in calls' : c \in calls \/ c.what # "summary",
           page = "landing" => calls' \subseteq calls,
           DOMAIN ui' = DOMAIN ui, ui'.kind = ui.kind,
           page \in Watching => ui'.summary = ui.summary /\ ui'.back = ui.back,
           page = "landing" => ui'.mocked = ui.mocked,
           held' \subseteq {page} \X (AcquiredBy(page) \cup ReleasedBy(page))
    PROVE  AppInv'
<1>1. OneSummaryCall(calls')
  BY DEF AppInv, OneSummaryCall
<1>2. Shaped(page, ui')
  BY DEF AppInv, Shaped
<1>3. Pending(calls') => Pending(calls)
  BY DEF Pending
<1>4. page = "landing" /\ calls' # {} => calls # {}
  OBVIOUS
<1>5. Waits(page, ui', calls', wire, endpoint, db)
  BY <1>3, <1>4 DEF AppInv, Waits
<1> QED  BY <1>1, <1>2, <1>5, PageKeeps

-----------------------------------------------------------------------------
(* The backend and the network *)

LEMMA StepNet ==
    ASSUME AppInv, LinkComes \/ LinkGoes \/ NewRisk \/ EndpointStep
    PROVE  AppInv'
<1> DEFINE Endpoints == [at : {"none", "accepted", "summarised", "live"}, summary : Int]
<1>1. /\ left \in [Kinds -> Nat] /\ db \in Nat /\ wire \in Seq(Messages)
      /\ endpoint \in Endpoints /\ WireInv(wire, endpoint, db)
      /\ Rising(wire) /\ AtMost(wire, db)
  BY DEF AppInv, AppTyped, WireInv
<1>2. left' \in [Kinds -> Nat]
  BY <1>1, SpendTyped DEF LinkComes, LinkGoes, NewRisk, EndpointStep, EndpointReads,
     EndpointInit, EndpointPolls, EndpointPublishes, EndpointAlerts, Kinds
<1>3. UNCHANGED <<page, trail, held, handlers, ui, calls>>
  BY DEF LinkComes, LinkGoes, NewRisk, EndpointStep, EndpointReads, EndpointInit,
     EndpointPolls, EndpointPublishes, EndpointAlerts, tabVars, channelVars, Comes, Goes
<1>4. ASSUME LinkComes PROVE AppInv'
  <2>1. /\ endpoint' = [NoEndpoint EXCEPT !.at = "accepted"] /\ link' = "up"
        /\ link = "down" /\ UNCHANGED <<db, wire>>
    BY <1>4 DEF LinkComes, Comes
  <2>2. endpoint.at = "none" /\ wire = <<>>
    BY <1>1, <2>1 DEF AppInv, WireInv
  <2>3. endpoint' \in Endpoints /\ endpoint'.at = "accepted"
    BY <2>1 DEF NoEndpoint, NoSummary
  <2>4. WireInv(wire', endpoint', db')
    BY <1>1, <2>1, <2>2, <2>3 DEF WireInv
  <2>5. \A s \in Int : Behind(wire, endpoint, db, s) => Behind(wire', endpoint', db', s)
    BY <2>1, <2>3 DEF Behind
  <2> QED  BY <1>1, <1>2, <1>3, <2>1, <2>3, <2>4, <2>5, NetKeeps
<1>5. ASSUME LinkGoes PROVE AppInv'
  <2>1. endpoint' = NoEndpoint /\ wire' = <<>> /\ UNCHANGED db
    BY <1>5 DEF LinkGoes
  <2>2. endpoint' \in Endpoints /\ endpoint'.at = "none"
    BY <2>1 DEF NoEndpoint, NoSummary
  <2>3. WireInv(wire', endpoint', db') /\ wire' \in Seq(Messages)
    BY <2>1, <2>2, EmptyWire DEF WireInv
  <2>4. \A s \in Int : Behind(wire, endpoint, db, s) => Behind(wire', endpoint', db', s)
    BY <2>1, <2>2, EmptyWire DEF Behind
  <2> QED  BY <1>1, <1>2, <1>3, <2>1, <2>2, <2>3, <2>4, NetKeeps
<1>6. ASSUME NewRisk PROVE AppInv'
  <2>1. db' = db + 1 /\ UNCHANGED <<endpoint, wire, link>>
    BY <1>6 DEF NewRisk, channelVars
  <2>2. \A i \in 1..Len(wire) : IsSummary(wire[i]) => wire[i].summary \in Nat
    <3>1. \A i \in 1..Len(wire) : wire[i] \in Messages
      BY <1>1, ElementOfSeq
    <3> QED  BY <3>1 DEF Messages, IsSummary
  <2>3. AtMost(wire, db')
    BY <1>1, <2>1, <2>2 DEF AtMost
  <2>4. WireInv(wire', endpoint', db')
    BY <1>1, <2>1, <2>3 DEF WireInv
  <2>5. \A s \in Int : Behind(wire, endpoint, db, s) => Behind(wire', endpoint', db', s)
    BY <1>1, <2>1 DEF Behind
  <2> QED  BY <1>1, <1>2, <1>3, <2>1, <2>4, <2>5, NetKeeps DEF AppInv
<1>7. ASSUME EndpointReads PROVE AppInv'
  <2>1. /\ endpoint.at = "accepted" /\ endpoint' = [at |-> "summarised", summary |-> db]
        /\ UNCHANGED <<db, wire, link>>
    BY <1>7 DEF EndpointReads, channelVars
  <2>2. endpoint' \in Endpoints /\ endpoint'.at = "summarised" /\ endpoint'.summary = db
    BY <1>1, <2>1
  <2>3. WireInv(wire', endpoint', db')
    BY <1>1, <2>1, <2>2 DEF WireInv
  <2>4. \A s \in Int : Behind(wire, endpoint, db, s) => Behind(wire', endpoint', db', s)
    BY <2>1, <2>2 DEF Behind
  <2>5. link' = "down" => endpoint'.at = "none"
    BY <2>1 DEF AppInv
  <2> QED  BY <1>1, <1>2, <1>3, <2>1, <2>2, <2>3, <2>4, <2>5, NetKeeps
<1>8. ASSUME EndpointInit PROVE AppInv'
  <2> DEFINE m == [type |-> "init", summary |-> endpoint.summary, recent |-> db]
  <2>1. /\ endpoint.at = "summarised" /\ wire' = Append(wire, m)
        /\ endpoint' = [NoEndpoint EXCEPT !.at = "live"]
        /\ UNCHANGED <<db, link>>
    BY <1>8 DEF EndpointInit, Send, channelVars
  <2>2. wire = <<>> /\ endpoint.summary \in Nat /\ endpoint.summary <= db
    BY <1>1, <2>1 DEF WireInv
  <2>3. m \in Messages /\ m.summary = endpoint.summary
    BY <1>1, <2>2 DEF Messages
  <2>4. endpoint' \in Endpoints /\ endpoint'.at = "live"
    BY <2>1 DEF NoEndpoint, NoSummary
  <2> HIDE DEF m
  <2>5. AtMost(wire, m.summary)
    BY <2>2, EmptyWire
  <2>6. /\ wire' \in Seq(Messages) /\ Rising(wire') /\ AtMost(wire', db)
        /\ \A s \in Int : AtLeast(wire, s) /\ s <= m.summary => AtLeast(wire', s)
    BY <1>1, <2>1, <2>2, <2>3, <2>5, WireAppend
  <2>7. WireInv(wire', endpoint', db')
    BY <2>1, <2>4, <2>6 DEF WireInv
  <2>8. \A s \in Int : Behind(wire, endpoint, db, s) => Behind(wire', endpoint', db', s)
    BY <2>1, <2>3, <2>4, <2>6 DEF Behind
  <2>9. link' = "down" => endpoint'.at = "none"
    BY <2>1 DEF AppInv
  <2> QED  BY <1>1, <1>2, <1>3, <2>1, <2>4, <2>6, <2>7, <2>8, <2>9, NetKeeps
\* What the live endpoint sends is no summary, or the newest one.
<1>9. ASSUME NEW m \in Messages, IsSummary(m) => m.summary = db,
             endpoint.at = "live", wire' = Append(wire, m),
             UNCHANGED <<db, endpoint, link>>
      PROVE  AppInv'
  <2>1. IsSummary(m) => AtMost(wire, m.summary) /\ m.summary <= db
    BY <1>1, <1>9
  <2>2. /\ wire' \in Seq(Messages) /\ Rising(wire') /\ AtMost(wire', db)
        /\ \A s \in Int : AtLeast(wire, s) /\ (IsSummary(m) => s <= m.summary)
                            => AtLeast(wire', s)
    BY <1>1, <1>9, <2>1, WireAppend
  <2>3. WireInv(wire', endpoint', db')
    BY <1>9, <2>2 DEF WireInv
  <2>4. \A s \in Int : Behind(wire, endpoint, db, s) => Behind(wire', endpoint', db', s)
    BY <1>9, <2>2 DEF Behind
  <2>5. link' = "down" => endpoint'.at = "none"
    BY <1>9 DEF AppInv
  <2> QED  BY <1>1, <1>2, <1>3, <1>9, <2>2, <2>3, <2>4, <2>5, NetKeeps
<1>10. ASSUME EndpointPolls PROVE AppInv'
  <2> DEFINE m == [type |-> "summary_update", summary |-> db]
  <2>1. m \in Messages /\ m.summary = db
    BY <1>1 DEF Messages
  <2>2. endpoint.at = "live" /\ wire' = Append(wire, m) /\ UNCHANGED <<db, endpoint, link>>
    BY <1>10 DEF EndpointPolls, Send, channelVars
  <2> HIDE DEF m
  <2> QED  BY <1>9, <2>1, <2>2
<1>11. ASSUME EndpointPublishes PROVE AppInv'
  <2> DEFINE m == [type |-> "agent_result", id |-> left["result"]]
  <2>1. m \in Messages /\ ~IsSummary(m)
    BY <1>1 DEF Messages, IsSummary, Kinds
  <2>2. endpoint.at = "live" /\ wire' = Append(wire, m) /\ UNCHANGED <<db, endpoint, link>>
    BY <1>11 DEF EndpointPublishes, Send, channelVars
  <2> HIDE DEF m
  <2> QED  BY <1>9, <2>1, <2>2
<1>12. ASSUME EndpointAlerts PROVE AppInv'
  <2> DEFINE m == [type |-> "risk_alert", risk |-> db]
  <2>1. m \in Messages /\ ~IsSummary(m)
    BY <1>1 DEF Messages, IsSummary
  <2>2. endpoint.at = "live" /\ wire' = Append(wire, m) /\ UNCHANGED <<db, endpoint, link>>
    BY <1>12 DEF EndpointAlerts, Send, channelVars
  <2> HIDE DEF m
  <2> QED  BY <1>9, <2>1, <2>2
<1> QED  BY <1>4, <1>5, <1>6, <1>7, <1>8, <1>10, <1>11, <1>12 DEF EndpointStep

-----------------------------------------------------------------------------
(* Which page is mounted *)

LEMMA WhichPage ==
    ASSUME AppInv
    PROVE  /\ OnLanding => page = "landing"
           /\ OnConsole => page \in {"intelligence", "console"}
           /\ OnDevDocs => page = "devdocs"
           /\ OnArchitecture => page = "architecture"
           /\ OnEcosystem => page = "ecosystem"
BY DEF AppInv, AppTyped, Shaped, KindOf, IsConsole, Pages,
   OnLanding, OnConsole, OnDevDocs, OnArchitecture, OnEcosystem

\* Taken out of the invariant for the steps of the pages.
LEMMA PageFacts ==
    ASSUME AppInv
    PROVE  /\ left \in [Kinds -> Nat] /\ calls \subseteq CallRecords /\ page \in Pages
           /\ "kind" \in DOMAIN ui
           /\ page \in Watching => {"summary", "back"} \subseteq DOMAIN ui
           /\ page = "landing" => {"recent", "mocked"} \subseteq DOMAIN ui
           /\ held \subseteq {page} \X (AcquiredBy(page) \cup ReleasedBy(page))
BY DEF AppInv, AppTyped, Shaped, NothingOutlivesItsPage

-----------------------------------------------------------------------------
(* Summaries that are shown *)

LEMMA BehindLess ==
    ASSUME NEW w \in Seq(Messages), NEW d \in Nat, NEW e, e.summary \in Int,
           NEW s \in Int, NEW t \in Int, s <= t, Behind(w, e, d, t)
    PROVE  Behind(w, e, d, s)
<1>1. \A i \in 1..Len(w) : w[i] \in Messages
  BY ElementOfSeq
<1>2. \A i \in 1..Len(w) : IsSummary(w[i]) => w[i].summary \in Nat
  BY <1>1 DEF Messages, IsSummary
<1>3. AtLeast(w, s)
  BY <1>2 DEF AtLeast, Behind
<1> QED  BY <1>3 DEF Behind

LEMMA SummarisedFact ==
    ASSUME NEW u, {"summary", "back"} \subseteq DOMAIN u, NEW s
    PROVE  /\ DOMAIN Summarised(u, s) = DOMAIN u
           /\ Summarised(u, s).summary = s
           /\ Summarised(u, s).back = IF s < u.summary THEN u.back + 1 ELSE u.back
           /\ \A f \in DOMAIN u : f \notin {"summary", "back"} => Summarised(u, s)[f] = u[f]
BY DEF Summarised

\* The REST answer: it may be older than what is shown, but not than what the
\* page showed before it, and it is the last of its kind.
LEMMA AnswerShownFact ==
    ASSUME NEW p, p \in Watching, NEW u, Shaped(p, u), NEW C, Pending(C),
           NEW w \in Seq(Messages), NEW d \in Nat, NEW e, e.summary \in Int,
           Waits(p, u, C, w, e, d), NEW s \in Int
    PROVE  /\ Summarised(u, s).back \in {0, 1}
           /\ Summarised(u, s).back = 1 => Behind(w, e, d, s)
<1>1. u.back = 0 /\ Behind(w, e, d, u.summary) /\ u.summary \in Int
  BY DEF Waits, Shaped
<1>2. Summarised(u, s).back = IF s < u.summary THEN 1 ELSE 0
  BY <1>1, SummarisedFact DEF Shaped
<1>3. s < u.summary => Behind(w, e, d, s)
  BY <1>1, BehindLess
<1> QED  BY <1>2, <1>3

\* A message: unless the page has its answer and has not gone back, it is no
\* older than what is shown.
LEMMA MessageShownFact ==
    ASSUME NEW p, p \in Watching, NEW u, Shaped(p, u), NEW C,
           NEW w \in Seq(Messages), w # <<>>, NEW d \in Nat, NEW e,
           WireInv(w, e, d), Waits(p, u, C, w, e, d), IsSummary(Head(w))
    PROVE  LET v == Summarised(u, Head(w).summary)
           IN  /\ v.back \in {0, 1}
               /\ Pending(C) => v.back = 0
               /\ Behind(Tail(w), e, d, v.summary)
<1> DEFINE s == Head(w).summary
           v == Summarised(u, s)
<1>1. /\ s \in Nat /\ s <= d /\ AtLeast(Tail(w), s)
      /\ AtLeast(w, u.summary) => u.summary <= s
  BY WireTail DEF WireInv, Shaped
<1>2. v.summary = s /\ v.back = IF s < u.summary THEN u.back + 1 ELSE u.back
  BY SummarisedFact DEF Shaped
<1>3. e.at # "summarised"
  BY DEF WireInv
<1> HIDE DEF s, v
<1>4. Behind(Tail(w), e, d, v.summary)
  BY <1>1, <1>2, <1>3 DEF Behind
<1>5. u.summary \in Int /\ u.back \in {0, 1}
  BY DEF Shaped
<1>6. CASE Pending(C) \/ u.back = 1
  <2>1. u.summary <= s
    BY <1>1, <1>6 DEF Waits, Behind
  <2>2. v.back = u.back
    BY <1>1, <1>2, <1>5, <2>1
  <2> QED  BY <1>4, <1>5, <2>2 DEF Waits, v, s
<1>7. CASE ~Pending(C) /\ u.back # 1
  <2>1. v.back \in {0, 1}
    BY <1>2, <1>5, <1>7
  <2> QED  BY <1>4, <1>7, <2>1 DEF v, s
<1> QED  BY <1>6, <1>7

-----------------------------------------------------------------------------
(* Answers and messages *)

LEMMA StepAnswered ==
    ASSUME AppInv, NEW c \in calls, CallAnswered(c)
    PROVE  AppInv'
<1>1. PICK g \in AnswersTo(c.what) \cup {"lost"} : Answer(c, g)
  BY DEF CallAnswered
<1>2. g \in {"ok", "refused", "lost"}
  BY DEF AnswersTo
<1> DEFINE d == [c EXCEPT !.got = g, !.at = db]
<1>3. /\ calls' = (calls \ {c}) \cup {d}
      /\ UNCHANGED <<page, trail, handlers, link, netVars, left, ui, held>>
  BY <1>1 DEF Answer, tabVars, channelVars
<1>4. c \in CallRecords /\ db \in Nat /\ calls \subseteq CallRecords
  BY DEF AppInv, AppTyped
<1>5. d \in CallRecords /\ d.what = c.what
  BY <1>2, <1>4 DEF CallRecords
<1> HIDE DEF d
<1>6. calls' \subseteq CallRecords
  BY <1>3, <1>4, <1>5
<1>7. OneSummaryCall(calls')
  BY <1>3, <1>5 DEF AppInv, OneSummaryCall
<1>8. Pending(calls') => Pending(calls)
  BY <1>3, <1>5 DEF Pending
<1>9. Waits(page, ui', calls', wire, endpoint, db)
  BY <1>3, <1>8 DEF AppInv, Waits
<1> QED
  BY <1>3, <1>6, <1>7, <1>9, PageKeeps, PageFacts DEF AppInv

LEMMA StepDeliver == ASSUME AppInv, Deliver PROVE AppInv'
<1> DEFINE m == Head(wire)
<1>1. /\ wire # <<>> /\ wire' = Tail(wire)
      /\ ui' = IF <<page, m.type>> \in handlers THEN Hears(ui, m) ELSE ui
      /\ UNCHANGED <<page, trail, held, calls, db, endpoint, left, link, handlers>>
  BY DEF Deliver, tabVars, channelVars
<1>2. /\ wire \in Seq(Messages) /\ db \in Nat /\ WireInv(wire, endpoint, db)
      /\ Rising(wire) /\ AtMost(wire, db)
      /\ Shaped(page, ui) /\ Waits(page, ui, calls, wire, endpoint, db)
      /\ page \in Pages
  BY DEF AppInv, AppTyped, WireInv
<1>3. /\ wire' \in Seq(Messages) /\ m \in Messages
      /\ Rising(wire') /\ AtMost(wire', db)
      /\ \A s \in Int : AtLeast(wire, s) => AtLeast(wire', s)
  BY <1>1, <1>2, WireTail
<1>4. endpoint.at = "live"
  BY <1>1, <1>2 DEF WireInv
<1>5. WireInv(wire', endpoint, db)
  BY <1>3, <1>4 DEF WireInv
<1>6. \A s \in Int : Behind(wire, endpoint, db, s) => Behind(wire', endpoint, db, s)
  BY <1>3 DEF Behind
<1> HIDE DEF m
<1>7. ASSUME Shaped(page, ui'), Waits(page, ui', calls, wire', endpoint, db)
      PROVE  AppInv'
  <2>1. AppTyped' /\ NothingOutlivesItsPage'
    BY <1>1, <1>3 DEF AppInv, AppTyped, NothingOutlivesItsPage
  <2> QED  BY <1>1, <1>5, <1>7, <2>1 DEF AppInv
\* What is shown of summaries and risks is not taken away.
<1>8. ASSUME DOMAIN ui' = DOMAIN ui, ui'.kind = ui.kind,
             page \in Watching => ui'.summary = ui.summary /\ ui'.back = ui.back,
             page = "landing" => ui'.mocked = ui.mocked
      PROVE  AppInv'
  <2>1. Shaped(page, ui')
    BY <1>2, <1>8 DEF Shaped
  <2>2. page \in Watching => ui.summary \in Int
    BY <1>2 DEF Shaped
  <2>3. Waits(page, ui', calls, wire', endpoint, db)
    BY <1>2, <1>6, <1>8, <2>2 DEF Waits
  <2> QED  BY <1>7, <2>1, <2>3
<1>9. CASE <<page, m.type>> \notin handlers
  BY <1>1, <1>8, <1>9
<1>10. CASE <<page, m.type>> \in handlers
  <2>1. ui' = Hears(ui, m) /\ m.type \in EventsOf(page)
    BY <1>1, <1>10 DEF AppInv, NothingOutlivesItsPage
  <2>2. page \in Watching
    BY <1>2, <2>1 DEF EventsOf, Watching, IsConsole, Pages
  <2>3. ui.kind = (IF page = "landing" THEN "landing" ELSE "console")
    BY <1>2, <2>2 DEF Shaped, KindOf, IsConsole, Watching
  <2> DEFINE v == Summarised(ui, m.summary)
  <2>4. ASSUME IsSummary(m)
        PROVE  /\ v.back \in {0, 1}
               /\ Pending(calls) => v.back = 0
               /\ Behind(wire', endpoint, db, v.summary)
               /\ v.summary \in Nat
    <3>1. v.summary = m.summary
      BY <1>2, <2>2, SummarisedFact DEF Shaped
    <3>2. m.summary \in Nat
      BY <1>3, <2>4 DEF Messages, IsSummary
    <3> QED  BY <1>1, <1>2, <2>2, <2>4, <3>1, <3>2, MessageShownFact DEF m
  <2>5. page \in Watching =>
          /\ DOMAIN v = DOMAIN ui
          /\ \A f \in DOMAIN ui : f \notin {"summary", "back"} => v[f] = ui[f]
    BY <1>2, SummarisedFact DEF Shaped
  <2> HIDE DEF v
  <2>8. /\ "kind" \in DOMAIN v /\ v.kind = KindOf(page)
        /\ {"summary", "back"} \subseteq DOMAIN v
    BY <1>2, <2>2, <2>5 DEF Shaped
  <2>6. CASE page # "landing"
    <3>1. ui' = ConsoleHears(ui, m) /\ m.type \in ConsoleEvents
      BY <1>2, <2>1, <2>2, <2>3, <2>6 DEF Hears, EventsOf, IsConsole, Watching
    <3>2. CASE IsSummary(m)
      <4>1. ui' = v
        BY <3>1, <3>2 DEF ConsoleHears, IsSummary, v
      <4>2. Shaped(page, ui')
        <5>1. v.summary \in Int /\ v.back \in {0, 1}
          BY <2>4, <3>2
        <5> QED  BY <2>6, <2>8, <4>1, <5>1 DEF Shaped
      <4>3. Waits(page, ui', calls, wire', endpoint, db)
        <5>1. Behind(wire', endpoint, db, v.summary) /\ (Pending(calls) => v.back = 0)
          BY <2>4, <3>2
        <5> QED  BY <2>6, <4>1, <5>1 DEF Waits
      <4> QED  BY <1>7, <4>2, <4>3
    <3>3. CASE ~IsSummary(m)
      <4>1. \/ ui' = Add(ui, Line("result", m.id))
            \/ ui' = [ui EXCEPT !.alerts = Prepended(m.risk, @, AlertCap)]
        BY <3>1, <3>3 DEF ConsoleHears, ConsoleEvents, IsSummary
      <4> QED  BY <1>2, <1>8, <2>6, <4>1 DEF Shaped, Add
    <3> QED  BY <3>2, <3>3
  <2>7. CASE page = "landing"
    <3>1. ui' = LandingHears(ui, m) /\ m.type \in LandingEvents
      BY <2>1, <2>3, <2>7 DEF Hears, EventsOf, IsConsole
    <3>2. CASE IsSummary(m)
      <4>1. ui' = v \/ (RecentAt(m.recent) # <<>> /\ ui' = Fed(v, RecentAt(m.recent)))
        BY <3>1, <3>2 DEF LandingHears, IsSummary, v
      <4>2. /\ DOMAIN ui' = DOMAIN ui /\ ui'.kind = ui.kind
            /\ ui'.summary = v.summary /\ ui'.back = v.back /\ ui'.mocked = ui.mocked
        BY <1>2, <2>2, <2>5, <2>7, <4>1 DEF Fed, Shaped
      <4>3. Shaped(page, ui')
        <5>1. v.summary \in Int /\ v.back \in {0, 1}
          BY <2>4, <3>2
        <5> QED  BY <1>2, <4>2, <5>1 DEF Shaped
      <4>4. Waits(page, ui', calls, wire', endpoint, db)
        <5>1. Behind(wire', endpoint, db, v.summary) /\ (Pending(calls) => v.back = 0)
          BY <2>4, <3>2
        <5>2. calls # {} => ui.mocked = 0
          BY <1>2, <2>7 DEF Waits
        <5> QED  BY <4>2, <5>1, <5>2 DEF Waits
      <4> QED  BY <1>7, <4>3, <4>4
    <3>3. CASE ~IsSummary(m)
      <4>1. ui' = [ui EXCEPT !.recent = Prepended(m.risk, @, FeedCap)]
        BY <3>1, <3>3 DEF LandingHears, LandingEvents, IsSummary
      <4> QED  BY <1>2, <1>8, <2>2, <2>7, <4>1 DEF Shaped
    <3> QED  BY <3>2, <3>3
  <2> QED  BY <2>6, <2>7
<1> QED  BY <1>9, <1>10

-----------------------------------------------------------------------------
(* The pages' own steps *)

LEMMA StepLanding == ASSUME AppInv, LandingNext PROVE AppInv'
<1> USE PageFacts, WhichPage
<1>1. page = "landing" /\ page \in Watching
  BY DEF LandingNext, FetchCompletes, FetchFails, NewsTick, Reveal, HeroTick,
     PipelineTick, Watching
<1>2. /\ UNCHANGED <<page, trail, handlers, link, netVars, held>>
      /\ left' \in [Kinds -> Nat]
  BY SpendTyped DEF LandingNext, FetchCompletes, FetchFails, NewsTick, Reveal, HeroTick,
     PipelineTick, PacketLands, tabVars, channelVars, Kinds
<1>3. ASSUME FetchCompletes PROVE AppInv'
  <2>1. PICK s \in calls, r \in calls :
          /\ s.what = "summary"
          /\ ui' = Fed(Summarised(ui, s.at), RecentAt(r.at))
          /\ calls' = {}
    BY <1>3 DEF FetchCompletes
  <2> DEFINE v == Summarised(ui, s.at)
  <2>2. /\ Shaped(page, ui) /\ Waits(page, ui, calls, wire, endpoint, db)
        /\ wire \in Seq(Messages) /\ db \in Nat /\ endpoint.summary \in Int
    BY DEF AppInv, AppTyped
  <2>3. Pending(calls) /\ calls # {} /\ s.at \in Int
    BY <2>1 DEF Pending, CallRecords
  <2>4. /\ v.back \in {0, 1}
        /\ v.back = 1 => Behind(wire, endpoint, db, s.at)
    BY <1>1, <2>2, <2>3, AnswerShownFact
  <2>5. /\ DOMAIN v = DOMAIN ui /\ v.summary = s.at /\ v.kind = ui.kind
        /\ v.mocked = 0
    BY <1>1, <2>2, <2>3, SummarisedFact DEF Shaped, Waits
  <2> HIDE DEF v
  <2>6. ui' = Fed(v, RecentAt(r.at))
    BY <2>1 DEF v
  <2>7. /\ DOMAIN ui' = DOMAIN ui /\ ui'.kind = ui.kind
        /\ ui'.summary = s.at /\ ui'.back = v.back /\ ui'.mocked \in {0, 1}
    BY <1>1, <2>5, <2>6 DEF Fed
  <2>8. Shaped(page, ui')
    BY <1>1, <2>2, <2>3, <2>4, <2>7 DEF Shaped
  <2>9. OneSummaryCall(calls') /\ calls' \subseteq CallRecords
    BY <2>1 DEF OneSummaryCall
  <2>10. Waits(page, ui', calls', wire, endpoint, db)
    BY <2>1, <2>4, <2>7 DEF Waits, Pending
  <2> QED  BY <1>2, <2>8, <2>9, <2>10, PageKeeps
<1>4. ASSUME FetchFails PROVE AppInv'
  BY <1>2, <1>4, QuietKeeps DEF FetchFails
<1>5. ASSUME NewsTick \/ Reveal("feed") \/ HeroTick \/ PipelineTick
             \/ \E p \in ui.packets : PacketLands(p)
      PROVE  AppInv'
  <2>1. UNCHANGED calls
    BY <1>5 DEF NewsTick, Reveal, HeroTick, PipelineTick, PacketLands
  <2>2. /\ DOMAIN ui' = DOMAIN ui /\ ui'.kind = ui.kind
        /\ ui'.summary = ui.summary /\ ui'.back = ui.back /\ ui'.mocked = ui.mocked
    BY <1>1, <1>5 DEF NewsTick, Reveal, HeroTick, PipelineTick, PacketLands
  <2> QED  BY <1>2, <2>1, <2>2, QuietKeeps
<1> QED  BY <1>3, <1>4, <1>5 DEF LandingNext

LEMMA StepConsole == ASSUME AppInv, ConsoleNext PROVE AppInv'
<1> USE PageFacts, WhichPage
<1>1. page \in {"intelligence", "console"} /\ page \in Watching /\ page # "landing"
  BY DEF ConsoleNext, BootTick, BootOver, SummaryArrives, ConsoleRenders, Clear,
     NewSession, Talk, Scan, DeployAgent, AnswerShown, Watching
<1>2. /\ UNCHANGED <<page, trail, handlers, link, netVars>> /\ held' \subseteq held
      /\ left' \in [Kinds -> Nat]
  BY SpendTyped DEF ConsoleNext, BootTick, BootOver, SummaryArrives, ConsoleRenders, Clear,
     NewSession, Talk, Scan, DeployAgent, AnswerShown, tabVars, channelVars, Kinds
<1>3. held' \subseteq {page} \X (AcquiredBy(page) \cup ReleasedBy(page))
  BY <1>2
<1>4. ASSUME SummaryArrives PROVE AppInv'
  <2>1. PICK c \in calls : /\ c.what = "summary" /\ calls' = calls \ {c}
                           /\ ui' = IF Failed(c) THEN ui ELSE Summarised(ui, c.at)
    BY <1>4 DEF SummaryArrives
  <2>2. /\ Shaped(page, ui) /\ Waits(page, ui, calls, wire, endpoint, db)
        /\ wire \in Seq(Messages) /\ db \in Nat /\ endpoint.summary \in Int
        /\ OneSummaryCall(calls)
    BY DEF AppInv, AppTyped
  <2>3. Pending(calls) /\ ~Pending(calls') /\ c.at \in Int
    BY <2>1, <2>2 DEF Pending, OneSummaryCall, CallRecords
  <2>4. OneSummaryCall(calls') /\ calls' \subseteq CallRecords
    BY <2>1, <2>2 DEF OneSummaryCall
  <2>5. CASE Failed(c)
    BY <1>1, <1>2, <1>3, <2>1, <2>4, <2>5, QuietKeeps
  <2>6. CASE ~Failed(c)
    <3> DEFINE v == Summarised(ui, c.at)
    <3>1. /\ v.back \in {0, 1}
          /\ v.back = 1 => Behind(wire, endpoint, db, c.at)
      BY <1>1, <2>2, <2>3, AnswerShownFact
    <3>2. DOMAIN v = DOMAIN ui /\ v.summary = c.at /\ v.kind = ui.kind
      BY <1>1, <2>2, SummarisedFact DEF Shaped
    <3> HIDE DEF v
    <3>3. ui' = v
      BY <2>1, <2>6 DEF v
    <3>4. Shaped(page, ui')
      BY <1>1, <2>2, <2>3, <3>1, <3>2, <3>3 DEF Shaped
    <3>5. Waits(page, ui', calls', wire, endpoint, db)
      BY <1>1, <2>3, <3>1, <3>2, <3>3 DEF Waits
    <3> QED  BY <1>2, <1>3, <2>4, <3>4, <3>5, PageKeeps
  <2> QED  BY <2>5, <2>6
<1>5. ASSUME BootTick \/ BootOver \/ ConsoleRenders \/ Clear \/ NewSession \/ Talk
             \/ Scan \/ DeployAgent \/ \E c \in calls : AnswerShown(c)
      PROVE  AppInv'
  <2>1. /\ DOMAIN ui' = DOMAIN ui /\ ui'.kind = ui.kind
        /\ ui'.summary = ui.summary /\ ui'.back = ui.back
    BY <1>1, <1>5 DEF BootTick, BootOver, ConsoleRenders, Clear, NewSession, Talk,
       Scan, DeployAgent, AnswerShown, Shows, Rendered, Add, Set
  <2>2. calls' \subseteq calls \cup {Call(left["click"], "trigger")}
    BY <1>5 DEF BootTick, BootOver, ConsoleRenders, Clear, NewSession, Talk,
       Scan, DeployAgent, AnswerShown
  <2>3. /\ Call(left["click"], "trigger") \in CallRecords
        /\ Call(left["click"], "trigger").what # "summary"
    BY DEF Call, CallRecords, Kinds
  <2> QED  BY <1>1, <1>2, <1>3, <2>1, <2>2, <2>3, QuietKeeps
<1> QED  BY <1>4, <1>5 DEF ConsoleNext

LEMMA StepDevDocs == ASSUME AppInv, DevDocsNext PROVE AppInv'
<1> USE PageFacts, WhichPage
<1>1. page = "devdocs" /\ page \notin Watching
  BY DEF DevDocsNext, LogTick, SimulateAPI, OutputShown, Watching
<1>2. /\ UNCHANGED <<page, trail, handlers, link, netVars, held>>
      /\ left' \in [Kinds -> Nat]
  BY SpendTyped DEF DevDocsNext, LogTick, SimulateAPI, OutputShown, tabVars, channelVars, Kinds
<1>3. DOMAIN ui' = DOMAIN ui /\ ui'.kind = ui.kind
  BY DEF DevDocsNext, LogTick, SimulateAPI, OutputShown
<1>4. \A c \in calls' : c \in calls \/ (c \in CallRecords /\ c.what # "summary")
  <2>1. \A w \in {"analyze", "health"} :
          Call(left["click"], w) \in CallRecords /\ Call(left["click"], w).what # "summary"
    BY DEF Call, CallRecords, Kinds
  <2> QED  BY <2>1 DEF DevDocsNext, LogTick, SimulateAPI, OutputShown
<1> QED  BY <1>1, <1>2, <1>3, <1>4, QuietKeeps

LEMMA StepArchitecture == ASSUME AppInv, ArchitectureNext PROVE AppInv'
<1> USE PageFacts, WhichPage
<1>1. page \in {"architecture", "ecosystem"} /\ page \notin Watching
  BY DEF ArchitectureNext, FailoverClicked, RecoveryFires, ArchitectureRenders,
     HealthArrives, SupplierArrives, Watching
<1>2. /\ UNCHANGED <<page, trail, handlers, link, netVars>>
      /\ left' \in [Kinds -> Nat]
  BY SpendTyped DEF ArchitectureNext, FailoverClicked, RecoveryFires, ArchitectureRenders,
     HealthArrives, SupplierArrives, tabVars, channelVars, Kinds
<1>3. DOMAIN ui' = DOMAIN ui /\ ui'.kind = ui.kind
  BY DEF ArchitectureNext, FailoverClicked, RecoveryFires, ArchitectureRenders,
     HealthArrives, SupplierArrives
<1>4. calls' \subseteq calls
  BY DEF ArchitectureNext, FailoverClicked, RecoveryFires, ArchitectureRenders,
     HealthArrives, SupplierArrives
<1>5. held' \subseteq held \cup (IF OnArchitecture THEN {<<page, "recovery">>} ELSE {})
  BY DEF ArchitectureNext, FailoverClicked, RecoveryFires, ArchitectureRenders,
     HealthArrives, SupplierArrives, tabVars
<1>6. OnArchitecture => "recovery" \in ReleasedBy(page)
  BY DEF ReleasedBy, IsConsole, ArchitectureReleases
<1>7. held' \subseteq {page} \X (AcquiredBy(page) \cup ReleasedBy(page))
  BY <1>5, <1>6
<1> QED  BY <1>1, <1>2, <1>3, <1>4, <1>7, QuietKeeps

-----------------------------------------------------------------------------
(* The first invariant and its theorems *)

LEMMA AppStep == AppInv /\ [Next]_vars => AppInv'
<1> SUFFICES ASSUME AppInv, [Next]_vars PROVE AppInv'
  OBVIOUS
<1>1. CASE Hide \/ Unhide \/ UNCHANGED vars
  <2>1. UNCHANGED <<page, trail, held, handlers, ui, calls, db, endpoint, wire, link>>
    BY <1>1 DEF Hide, Unhide, vars, tabVars, netVars, channelVars
  <2>2. left' \in [Kinds -> Nat]
    BY <1>1, PageFacts, SpendTyped DEF Hide, Unhide, vars, Kinds
  <2> QED  BY <2>1, <2>2, NetKeeps DEF AppInv, AppTyped
<1>2. CASE GoBack \/ \E p \in Pages : FollowLink(p)
  BY <1>2, StepNavigate
<1>3. CASE LinkComes \/ LinkGoes \/ NewRisk \/ EndpointStep
  BY <1>3, StepNet
<1>4. CASE \E c \in calls : CallAnswered(c)
  BY <1>4, StepAnswered
<1>5. CASE Deliver
  BY <1>5, StepDeliver
<1>6. CASE PageStep
  BY <1>6, StepLanding, StepConsole, StepDevDocs, StepArchitecture DEF PageStep
<1> QED  BY <1>1, <1>2, <1>3, <1>4, <1>5, <1>6 DEF Next, BackendStep

LEMMA AppInvariant == SafeSpec => []AppInv
BY AppStart, AppStep, PTL DEF SafeSpec

\* No interval, timeout, listener, observer or handler of a page survives it,
\* wherever the user goes.
THEOREM PagesCleanUp == SafeSpec => []NothingOutlivesItsPage
<1>1. AppInv => NothingOutlivesItsPage
  BY DEF AppInv
<1> QED  BY <1>1, AppInvariant, PTL

\* However the REST answers, the messages and the reconnects interleave, what a
\* page shows is replaced by something older once at most in its life.
THEOREM PagesGoBackOnce == SafeSpec => []GoesBackOnce
<1>1. AppInv => GoesBackOnce
  BY WhichPage DEF AppInv, Shaped, GoesBackOnce
<1> QED  BY <1>1, AppInvariant, PTL

-----------------------------------------------------------------------------
(* What a page shows, list by list *)

News == {"a", "b", "c", "d", "e", "x"}

\* The lists of the landing page.
LandingScreen(u) ==
    /\ {"recent", "news", "revealed", "packets"} \subseteq DOMAIN u
    /\ u.recent \in Seq(Nat) /\ Len(u.recent) <= FeedCap
    /\ u.news \in Seq(News) /\ Len(u.news) <= NewsCap

Lines ==
    [kind : {"greeting", "session", "in", "out", "answer", "result",
             "system", "client", "server", "error"},
     id : Nat]

\* The boot screen: BootKeepsCount, with its types.
BootScreen(u) ==
    /\ {"boot", "unread", "logIndex", "phase"} \subseteq DOMAIN u
    /\ u.boot \in Seq(Nat) /\ u.unread \in Nat /\ u.logIndex \in 1 .. BootLogs + 1
    /\ Len(u.boot) + u.unread = u.logIndex - 1
    /\ u.phase # "logging" => u.logIndex = BootLogs + 1
    /\ \A i \in 1..Len(u.boot) :
          /\ i <= u.boot[i] /\ u.boot[i] <= u.logIndex
          /\ i > 1 => u.boot[i - 1] <= u.boot[i]

\* The terminal: what is queued only adds to what is shown.
TerminalScreen(u) ==
    /\ {"alerts", "lines", "next"} \subseteq DOMAIN u
    /\ u.alerts \in Seq(Nat) /\ Len(u.alerts) <= AlertCap
    /\ u.lines \in Seq(Lines) /\ u.next \in Seq(Lines)
    /\ IsPrefix(u.lines, u.next)

\* The log of the documentation: LogIsTheLast, with its types.
DevDocsScreen(u) ==
    /\ {"logs", "logIndex", "logId", "outputs"} \subseteq DOMAIN u
    /\ u.logs \in Seq([text : Int, id : Int]) /\ u.outputs \in Seq(Lines)
    /\ u.logId \in Nat /\ u.logIndex = u.logId % LogTexts
    /\ Len(u.logs) = IF u.logId < LogCap THEN u.logId ELSE LogCap
    /\ \A i \in 1..Len(u.logs) :
          /\ u.logs[i].id = u.logId - Len(u.logs) + i - 1
          /\ u.logs[i].text = u.logs[i].id % LogTexts

ArchitectureScreen(u) ==
    /\ {"shown", "state"} \subseteq DOMAIN u
    /\ u.shown \in FailoverStates /\ u.state \in FailoverStates

\* The calls C and the replies among the lines out: each call has its own
\* number, each reply the number of a call that is over, and all numbers are
\* above n, the clicks that are left.
Numbered(out, C, n) ==
    /\ \A c, d \in C : c.id = d.id => c = d
    /\ \A c \in C : c.id > n \/ (c.id = 0 /\ c.what = "summary")
    /\ \A i \in 1..Len(out) : IsReply(out[i]) =>
         /\ out[i].id > n
         /\ \A c \in C : c.id # out[i].id
         /\ \A j \in 1..Len(out) : IsReply(out[j]) /\ out[i].id = out[j].id => i = j

\* No page is followed by itself on the way back.
TrailTurns ==
    \A i \in 1..Len(trail) : trail[i] # (IF i = Len(trail) THEN page ELSE trail[i + 1])

PlainTypes ==
    /\ hidden \in BOOLEAN /\ link \in {"down", "up"} /\ asked \in BOOLEAN /\ ended = FALSE
    /\ Len(wire) <= WireCap

\* The inductive invariant of what the pages show, on top of AppInv.
ScreenInv ==
    /\ PlainTypes /\ TrailTurns
    /\ OnLanding => LandingScreen(ui)
    /\ OnConsole =>
         BootScreen(ui) /\ TerminalScreen(ui) /\ Numbered(ui.next, calls, left["click"])
    /\ OnDevDocs =>
         /\ DevDocsScreen(ui) /\ Numbered(ui.outputs, calls, left["click"])
         /\ \A c \in calls : c.what # "summary"
    /\ OnArchitecture => ArchitectureScreen(ui) /\ RecoveryIsScheduled

-----------------------------------------------------------------------------
(* Lists *)

\* IsPrefix, position by position.
LEMMA PrefixIs ==
    ASSUME NEW S, NEW p \in Seq(S), NEW q \in Seq(S)
    PROVE  IsPrefix(p, q) <=> Len(p) <= Len(q) /\ \A i \in 1..Len(p) : p[i] = q[i]
<1>1. Len(p) \in Nat /\ Len(q) \in Nat
  BY LenProperties
<1>2. SUFFICES ASSUME Len(p) <= Len(q)
               PROVE  SubSeq(p, 1, Len(p)) = SubSeq(q, 1, Len(p))
                        <=> \A i \in 1..Len(p) : p[i] = q[i]
  BY DEF IsPrefix
<1>3. /\ SubSeq(p, 1, Len(p)) \in Seq(S) /\ Len(SubSeq(p, 1, Len(p))) = Len(p)
      /\ \A i \in 1..Len(p) : SubSeq(p, 1, Len(p))[i] = p[i]
  <2>1. \A i \in 1..Len(p) : p[i] \in S
    BY ElementOfSeq
  <2> QED  BY <1>1, <2>1, SubSeqProperties
<1>4. /\ SubSeq(q, 1, Len(p)) \in Seq(S) /\ Len(SubSeq(q, 1, Len(p))) = Len(p)
      /\ \A i \in 1..Len(p) : SubSeq(q, 1, Len(p))[i] = q[i]
  <2>1. \A i \in 1..Len(p) : q[i] \in S
    BY <1>1, <1>2, ElementOfSeq
  <2> QED  BY <1>1, <2>1, SubSeqProperties
<1> QED  BY <1>3, <1>4, SeqEqual

LEMMA PrefixFacts ==
    ASSUME NEW S, NEW p \in Seq(S), NEW q \in Seq(S), NEW x \in S
    PROVE  /\ IsPrefix(p, p)
           /\ IsPrefix(p, p \o q) /\ p \o q \in Seq(S)
           /\ IsPrefix(p, q) => IsPrefix(p, Append(q, x))
<1>1. IsPrefix(p, p)
  BY PrefixIs, LenProperties
<1>2. IsPrefix(p, p \o q) /\ p \o q \in Seq(S)
  <2>1. /\ p \o q \in Seq(S) /\ Len(p \o q) = Len(p) + Len(q)
        /\ \A i \in 1..(Len(p) + Len(q)) :
             (p \o q)[i] = IF i <= Len(p) THEN p[i] ELSE q[i - Len(p)]
    BY ConcatProperties
  <2>2. Len(p) \in Nat /\ Len(q) \in Nat
    BY LenProperties
  <2>3. Len(p) <= Len(p \o q) /\ \A i \in 1..Len(p) : p[i] = (p \o q)[i]
    BY <2>1, <2>2
  <2> QED  BY <2>1, <2>3, PrefixIs
<1>3. ASSUME IsPrefix(p, q) PROVE IsPrefix(p, Append(q, x))
  <2>1. Len(p) <= Len(q) /\ \A i \in 1..Len(p) : p[i] = q[i]
    BY <1>3, PrefixIs
  <2>2. Append(q, x) \in Seq(S) /\ Len(Append(q, x)) = Len(q) + 1
        /\ \A i \in 1..Len(q) : Append(q, x)[i] = q[i]
    BY AppendProperties
  <2>3. Len(p) \in Nat /\ Len(q) \in Nat
    BY LenProperties
  <2>4. Len(p) <= Len(Append(q, x)) /\ \A i \in 1..Len(p) : p[i] = Append(q, x)[i]
    BY <2>1, <2>2, <2>3
  <2> QED  BY <2>2, <2>4, PrefixIs
<1> QED  BY <1>1, <1>2, <1>3

\* A list that is cut to its cap stays within it.
LEMMA PrependedFits ==
    ASSUME NEW S, NEW list \in Seq(S), NEW x \in S, NEW cap \in Nat \ {0}, Len(list) <= cap
    PROVE  Prepended(x, list, cap) \in Seq(S) /\ Len(Prepended(x, list, cap)) <= cap
<1>1. <<x>> \in Seq(S) /\ Len(<<x>>) = 1 /\ Len(list) \in Nat
  BY LenProperties
<1>2. CASE Len(list) + 1 > cap
  <2>1. \A i \in 1..(Len(list) - 1) : list[i] \in S
    BY <1>1, ElementOfSeq
  <2> DEFINE k == Len(list) - 1
  <2>2. Front(list) \in Seq(S) /\ Len(Front(list)) = k
    <3>1. k \in Int /\ k >= 0 /\ 1 \in Int
      BY <1>1, <1>2
    <3>2. Front(list) = SubSeq(list, 1, k)
      BY DEF Front
    <3> HIDE DEF k
    <3>3. \A i \in 1..k : list[i] \in S
      BY <2>1 DEF k
    <3>4. /\ SubSeq(list, 1, k) \in Seq(S)
          /\ Len(SubSeq(list, 1, k)) = IF 1 <= k THEN k - 1 + 1 ELSE 0
      BY <3>1, <3>3, SubSeqProperties
    <3> QED  BY <3>1, <3>2, <3>4
  <2>3. <<x>> \o Front(list) \in Seq(S) /\ Len(<<x>> \o Front(list)) = Len(list)
    BY <1>1, <2>2, ConcatProperties
  <2> QED  BY <1>2, <2>3 DEF Prepended
<1>3. CASE Len(list) + 1 <= cap
  <2>1. <<x>> \o list \in Seq(S) /\ Len(<<x>> \o list) = Len(list) + 1
    BY <1>1, ConcatProperties
  <2> QED  BY <1>1, <1>3, <2>1 DEF Prepended
<1> QED  BY <1>1, <1>2, <1>3

\* The last cap items of a list.
LEMMA LastOfFits ==
    ASSUME NEW S, NEW list \in Seq(S), NEW cap \in Nat
    PROVE  /\ LastOf(list, cap) \in Seq(S)
           /\ Len(LastOf(list, cap)) = IF Len(list) > cap THEN cap ELSE Len(list)
           /\ \A i \in 1..Len(LastOf(list, cap)) :
                LastOf(list, cap)[i] = list[Len(list) - Len(LastOf(list, cap)) + i]
<1>1. Len(list) \in Nat /\ \A i \in 1..Len(list) : list[i] \in S
  BY LenProperties, ElementOfSeq
<1>2. CASE Len(list) > cap
  <2> DEFINE m == Len(list) - cap + 1
             v == SubSeq(list, m, Len(list))
  <2>1. m \in Int /\ m >= 1 /\ \A i \in m..Len(list) : list[i] \in S
    BY <1>1, <1>2
  <2>2. /\ v \in Seq(S) /\ Len(v) = IF m <= Len(list) THEN Len(list) - m + 1 ELSE 0
        /\ \A i \in 1..(Len(list) - m + 1) : v[i] = list[m + i - 1]
    BY <1>1, <2>1, SubSeqProperties
  <2>3. LastOf(list, cap) = v
    BY <1>2 DEF LastOf
  <2>4. Len(v) = cap
    BY <1>1, <2>2
  <2>5. \A i \in 1..cap : v[i] = list[Len(list) - cap + i]
    <3>1. Len(list) - m + 1 = cap /\ \A i \in 1..cap : m + i - 1 = Len(list) - cap + i
      BY <1>1
    <3> QED  BY <2>2, <3>1
  <2> HIDE DEF v
  <2>6. v \in Seq(S) /\ Len(v) = IF Len(list) > cap THEN cap ELSE Len(list)
    BY <1>2, <2>2, <2>4
  <2>7. \A i \in 1..Len(v) : v[i] = list[Len(list) - Len(v) + i]
    BY <2>4, <2>5
  <2> QED  BY <2>3, <2>6, <2>7
<1>3. CASE Len(list) <= cap
  <2>1. LastOf(list, cap) = list
    BY <1>1, <1>3 DEF LastOf
  <2>2. \A i \in 1..Len(list) : list[Len(list) - Len(list) + i] = list[i]
    <3>1. \A i \in 1..Len(list) : Len(list) - Len(list) + i = i
      BY <1>1
    <3> QED  BY <3>1
  <2>3. Len(list) = IF Len(list) > cap THEN cap ELSE Len(list)
    BY <1>1, <1>3
  <2> QED  BY <2>1, <2>2, <2>3
<1> QED  BY <1>1, <1>2, <1>3

\* A counter and its remainder keep step.
LEMMA RemainderStep ==
    ASSUME NEW a \in Nat, NEW n \in Nat \ {0}
    PROVE  ((a % n) + 1) % n = (a + 1) % n
<1>1. PICK q \in Nat, r \in 0..(n - 1) : a = q * n + r /\ a % n = r
  <2>1. a = (a \div n) * n + (a % n) /\ a % n \in 0..(n - 1) /\ a \div n \in Nat
    OBVIOUS
  <2> QED  BY <2>1
<1>2. CASE r + 1 < n
  BY <1>1, <1>2
<1>3. CASE r + 1 = n
  BY <1>1, <1>3
<1> QED  BY <1>1, <1>2, <1>3

-----------------------------------------------------------------------------
(* Calls and replies *)

\* Fewer calls, and fewer clicks left.
LEMMA NumberedFewer ==
    ASSUME NEW out, NEW C, NEW D \in SUBSET C, NEW n \in Nat, NEW m \in Nat, m <= n,
           Numbered(out, C, n), C \subseteq CallRecords, out \in Seq(Lines)
    PROVE  Numbered(out, D, m)
<1>0. \A i \in 1..Len(out) : out[i] \in Lines
  BY ElementOfSeq
<1>1. \A i \in 1..Len(out) : out[i].id \in Nat
  BY <1>0 DEF Lines
<1>2. \A c \in C : c.id \in Nat
  BY DEF CallRecords
<1> QED  BY <1>1, <1>2 DEF Numbered

\* A click takes the next number for its call.
LEMMA NumberedCall ==
    ASSUME NEW out, NEW C, NEW n \in Nat, n > 0, NEW w,
           Numbered(out, C, n), C \subseteq CallRecords, out \in Seq(Lines)
    PROVE  Numbered(out, C \cup {Call(n, w)}, n - 1)
<1>0. \A i \in 1..Len(out) : out[i] \in Lines
  BY ElementOfSeq
<1>1. \A i \in 1..Len(out) : out[i].id \in Nat
  BY <1>0 DEF Lines
<1>2. \A c \in C : c.id \in Nat /\ c.id # n
  BY DEF CallRecords, Numbered
<1> DEFINE e == Call(n, w)
<1>3. e.id = n
  BY DEF Call
<1> HIDE DEF e
<1>4. \A c, d \in C \cup {e} : c.id = d.id => c = d
  BY <1>2, <1>3 DEF Numbered
<1>5. \A c \in C \cup {e} : c.id > n - 1 \/ (c.id = 0 /\ c.what = "summary")
  BY <1>2, <1>3 DEF Numbered
<1>6. ASSUME NEW i \in 1..Len(out), IsReply(out[i])
      PROVE  /\ out[i].id > n - 1
             /\ \A c \in C \cup {e} : c.id # out[i].id
             /\ \A j \in 1..Len(out) : IsReply(out[j]) /\ out[i].id = out[j].id => i = j
  BY <1>1, <1>3, <1>6 DEF Numbered
<1> QED  BY <1>4, <1>5, <1>6 DEF Numbered, e

\* A line that is no reply.
LEMMA NumberedLine ==
    ASSUME NEW out \in Seq(Lines), NEW l \in Lines, ~IsReply(l), NEW C, NEW n,
           Numbered(out, C, n)
    PROVE  Numbered(Append(out, l), C, n)
<1> DEFINE v == Append(out, l)
<1>1. /\ Len(v) = Len(out) + 1 /\ Len(out) \in Nat
      /\ \A i \in 1..Len(out) : v[i] = out[i]
      /\ v[Len(out) + 1] = l
  BY AppendProperties, LenProperties
<1>2. \A i \in 1..Len(v) : IsReply(v[i]) => i \in 1..Len(out) /\ v[i] = out[i]
  BY <1>1
<1> HIDE DEF v
<1>3. Numbered(v, C, n)
  BY <1>2 DEF Numbered
<1> QED  BY <1>3 DEF v

\* The reply to a call that is over.
LEMMA NumberedReply ==
    ASSUME NEW out \in Seq(Lines), NEW n, NEW C, NEW c \in C, c.what # "summary",
           NEW l \in Lines, l.id = c.id, Numbered(out, C, n)
    PROVE  Numbered(Append(out, l), C \ {c}, n)
<1> DEFINE v == Append(out, l)
           D == C \ {c}
<1>1. /\ Len(v) = Len(out) + 1 /\ Len(out) \in Nat
      /\ \A i \in 1..Len(out) : v[i] = out[i]
      /\ v[Len(out) + 1] = l
  BY AppendProperties, LenProperties
<1>2. \A i \in 1..Len(v) : (i \in 1..Len(out) /\ v[i] = out[i]) \/ (i = Len(out) + 1 /\ v[i] = l)
  BY <1>1
<1>3. l.id > n /\ \A d \in D : d.id # l.id
  BY DEF Numbered
<1>4. \A i \in 1..Len(out) : IsReply(out[i]) => out[i].id # l.id
  BY DEF Numbered
<1> HIDE DEF v
<1>5. \A a, b \in D : a.id = b.id => a = b
  BY DEF Numbered
<1>6. \A d \in D : d.id > n \/ (d.id = 0 /\ d.what = "summary")
  BY DEF Numbered
<1> HIDE DEF D
<1>7. ASSUME NEW i \in 1..Len(v), IsReply(v[i])
      PROVE  /\ v[i].id > n
             /\ \A d \in D : d.id # v[i].id
             /\ \A j \in 1..Len(v) : IsReply(v[j]) /\ v[i].id = v[j].id => i = j
  <2>1. CASE i \in 1..Len(out) /\ v[i] = out[i]
    <3>1. v[i].id > n /\ \A d \in D : d.id # v[i].id
      BY <1>7, <2>1 DEF Numbered, D
    <3>2. ASSUME NEW j \in 1..Len(v), IsReply(v[j]), v[i].id = v[j].id PROVE i = j
      <4>1. CASE j \in 1..Len(out) /\ v[j] = out[j]
        BY <1>7, <2>1, <3>2, <4>1 DEF Numbered
      <4>2. CASE v[j] = l
        BY <1>4, <1>7, <2>1, <3>2, <4>2
      <4> QED  BY <1>2, <4>1, <4>2
    <3> QED  BY <3>1, <3>2
  <2>2. CASE i = Len(out) + 1 /\ v[i] = l
    <3>1. ASSUME NEW j \in 1..Len(v), IsReply(v[j]), v[i].id = v[j].id PROVE i = j
      BY <1>2, <1>4, <2>2, <3>1
    <3> QED  BY <1>3, <2>2, <3>1
  <2> QED  BY <1>2, <2>1, <2>2
<1>8. Numbered(v, D, n)
  BY <1>5, <1>6, <1>7 DEF Numbered
<1> QED  BY <1>8 DEF v, D

\* A call that is answered keeps its number.
LEMMA NumberedAnswer ==
    ASSUME NEW out, NEW n, NEW C, NEW c \in C, NEW d, d.id = c.id, d.what = c.what,
           Numbered(out, C, n)
    PROVE  Numbered(out, (C \ {c}) \cup {d}, n)
<1> DEFINE D == (C \ {c}) \cup {d}
<1>1. \A a \in D : \E b \in C : a.id = b.id /\ a.what = b.what
  OBVIOUS
<1>2. \A a, b \in D : a.id = b.id => a = b
  BY DEF Numbered
<1> HIDE DEF D
<1>3. \A a \in D : a.id > n \/ (a.id = 0 /\ a.what = "summary")
  BY <1>1 DEF Numbered
<1>4. \A i \in 1..Len(out) : IsReply(out[i]) => \A a \in D : a.id # out[i].id
  BY <1>1 DEF Numbered
<1>5. Numbered(out, D, n)
  BY <1>2, <1>3, <1>4 DEF Numbered
<1> QED  BY <1>5 DEF D

\* What is cut off at the end leaves the rest as it was.
LEMMA NumberedPrefix ==
    ASSUME NEW out \in Seq(Lines), NEW p \in Seq(Lines), IsPrefix(p, out), NEW C, NEW n,
           Numbered(out, C, n)
    PROVE  Numbered(p, C, n)
<1>1. Len(p) <= Len(out) /\ \A i \in 1..Len(p) : p[i] = out[i]
  BY PrefixIs
<1>2. Len(p) \in Nat /\ Len(out) \in Nat
  BY LenProperties
<1>3. \A i \in 1..Len(p) : i \in 1..Len(out) /\ p[i] = out[i]
  BY <1>1, <1>2
<1> QED  BY <1>3 DEF Numbered

\* Lines without a reply.
LEMMA NumberedFresh ==
    ASSUME NEW out, \A i \in 1..Len(out) : ~IsReply(out[i]), NEW C, NEW D, NEW n,
           NEW old, Numbered(old, C, n), D \in SUBSET C
    PROVE  Numbered(out, D, n)
BY DEF Numbered
-----------------------------------------------------------------------------
(* Where a page starts *)

LEMMA OneItem ==
    ASSUME NEW S, NEW x \in S
    PROVE  <<x>> \in Seq(S) /\ Len(<<x>>) = 1 /\ <<x>>[1] = x
OBVIOUS

LEMMA FreshConsole == BootScreen(ConsoleInit) /\ TerminalScreen(ConsoleInit)
<1>1. <<>> \in Seq(Nat) /\ Len(<<>>) = 0 /\ 1..0 = {}
  BY EmptySeq
<1>2. Greeting \in Seq(Lines)
  <2>1. Line("greeting", 0) \in Lines
    BY DEF Line, Lines
  <2> QED  BY <2>1, OneItem DEF Greeting
<1>3. IsPrefix(Greeting, Greeting)
  BY <1>2, PrefixIs, LenProperties
<1>4. BootScreen(ConsoleInit)
  BY <1>1, LengthAssumption DEF BootScreen, ConsoleInit
<1>5. TerminalScreen(ConsoleInit)
  BY <1>1, <1>2, <1>3, LengthAssumption DEF TerminalScreen, ConsoleInit
<1> QED  BY <1>4, <1>5

LEMMA FreshDevDocs == DevDocsScreen(DevDocsInit)
<1> DEFINE out == <<[kind |-> "system", id |-> 0]>>
<1>1. <<>> \in Seq([text : Int, id : Int]) /\ Len(<<>>) = 0 /\ 1..0 = {}
  BY EmptySeq
<1>2. out \in Seq(Lines)
  <2>1. [kind |-> "system", id |-> 0] \in Lines
    BY DEF Lines
  <2> QED  BY <2>1, OneItem
<1>3. 0 = 0 % LogTexts /\ 0 < LogCap
  BY LengthAssumption
<1> HIDE DEF out
<1>4. DevDocsInit = [kind |-> "devdocs", logs |-> <<>>, logIndex |-> 0, logId |-> 0,
                     outputs |-> out]
  BY DEF DevDocsInit, out
<1> QED  BY <1>1, <1>2, <1>3, <1>4 DEF DevDocsScreen

LEMMA FreshLanding == LandingScreen(LandingInit)
<1>1. <<>> \in Seq(Nat) /\ Len(<<>>) = 0 /\ 0 <= FeedCap
  BY EmptySeq, LengthAssumption
<1> DEFINE five == <<"a", "b", "c", "d", "e">>
<1>2. five \in Seq(News) /\ Len(five) <= NewsCap
  <2>1. five \in Seq(News)
    BY DEF News
  <2>2. Len(five) = 5
    OBVIOUS
  <2> QED  BY <2>1, <2>2, LengthAssumption
<1> HIDE DEF five
<1>3. /\ {"recent", "news", "revealed", "packets"} \subseteq DOMAIN LandingInit
      /\ LandingInit.recent = <<>> /\ LandingInit.news = five
  BY DEF LandingInit, five
<1> QED  BY <1>1, <1>2, <1>3 DEF LandingScreen

\* No line of a page that has just been mounted is a reply.
LEMMA FreshNumbered ==
    ASSUME NEW n \in Nat
    PROVE  /\ Numbered(ConsoleInit.next, ConsoleCalls, n)
           /\ Numbered(DevDocsInit.outputs, {}, n)
<1>1. \A c \in ConsoleCalls : c.id = 0 /\ c.what = "summary"
  BY DEF ConsoleCalls, Call
<1>2. \A c, d \in ConsoleCalls : c = d
  BY DEF ConsoleCalls
<1>3. \A i \in 1..Len(ConsoleInit.next) : ~IsReply(ConsoleInit.next[i])
  BY DEF ConsoleInit, Greeting, Line, IsReply
<1>4. \A i \in 1..Len(DevDocsInit.outputs) : ~IsReply(DevDocsInit.outputs[i])
  BY DEF DevDocsInit, IsReply
<1> QED  BY <1>1, <1>2, <1>3, <1>4 DEF Numbered

\* A page p that has just been mounted, with the clicks n that are left.
LEMMA FreshScreen ==
    ASSUME NEW p \in Pages, NEW n \in Nat, NEW u, u = InitOf(p), NEW C, C = CallsOf(p)
    PROVE  /\ u.kind = "landing" => LandingScreen(u)
           /\ u.kind = "console" => BootScreen(u) /\ TerminalScreen(u) /\ Numbered(u.next, C, n)
           /\ u.kind = "devdocs" => DevDocsScreen(u) /\ Numbered(u.outputs, C, n) /\ C = {}
           /\ u.kind = "architecture" =>
                /\ ArchitectureScreen(u) /\ u.shown = "nominal" /\ u.state = "nominal"
                /\ AcquiredBy(p) = {}
<1>1. CASE p = "landing"
  <2>1. u = LandingInit /\ u.kind = "landing"
    BY <1>1 DEF InitOf, LandingInit, IsConsole
  <2> QED  BY <2>1, FreshLanding
<1>2. CASE IsConsole(p)
  <2>1. u = ConsoleInit /\ u.kind = "console" /\ C = ConsoleCalls
    BY <1>2 DEF InitOf, CallsOf, ConsoleInit, IsConsole
  <2> QED  BY <2>1, FreshConsole, FreshNumbered
<1>3. CASE p = "ecosystem"
  BY <1>3 DEF InitOf, IsConsole, EcosystemInit
<1>4. CASE p = "architecture"
  BY <1>4 DEF InitOf, IsConsole, ArchitectureInit, AcquiredBy, ArchitectureScreen, FailoverStates
<1>5. CASE p = "devdocs"
  <2>1. u = DevDocsInit /\ u.kind = "devdocs" /\ C = {}
    BY <1>5 DEF InitOf, CallsOf, DevDocsInit, IsConsole
  <2> QED  BY <2>1, FreshDevDocs, FreshNumbered
<1> QED  BY <1>1, <1>2, <1>3, <1>4, <1>5 DEF Pages, IsConsole

\* The screen of a page that is mounted, and of one that a step of others leaves
\* alone but for the clicks that are left.
LEMMA ScreenMount ==
    ASSUME NEW p \in Pages, page' = p, ui' = InitOf(p), calls' = CallsOf(p),
           held' = {p} \X AcquiredBy(p), left' \in [Kinds -> Nat],
           PlainTypes', TrailTurns'
    PROVE  ScreenInv'
<1>1. left'["click"] \in Nat
  BY DEF Kinds
<1>2. OnArchitecture' => RecoveryIsScheduled'
  BY <1>1, FreshScreen DEF OnArchitecture, RecoveryIsScheduled
<1> QED
  BY <1>1, <1>2, FreshScreen DEF ScreenInv, OnLanding, OnConsole, OnDevDocs, OnArchitecture

LEMMA ScreenIdle ==
    ASSUME AppInv, ScreenInv, UNCHANGED <<page, ui, held, calls>>,
           left'["click"] \in Nat, left'["click"] <= left["click"],
           PlainTypes', TrailTurns'
    PROVE  ScreenInv'
<1>1. left["click"] \in Nat /\ calls \subseteq CallRecords
  BY DEF AppInv, AppTyped, Kinds
<1>2. OnConsole => Numbered(ui.next, calls, left'["click"])
  BY <1>1, NumberedFewer DEF ScreenInv, TerminalScreen
<1>3. OnDevDocs => Numbered(ui.outputs, calls, left'["click"])
  BY <1>1, NumberedFewer DEF ScreenInv, DevDocsScreen
<1> QED  BY <1>2, <1>3 DEF ScreenInv, OnLanding, OnConsole, OnDevDocs, OnArchitecture,
            RecoveryIsScheduled

\* What a step may spend.
LEMMA SpendClicks ==
    ASSUME left \in [Kinds -> Nat], NEW k \in Kinds, Spend(k)
    PROVE  /\ left["click"] \in Nat /\ left'["click"] \in Nat
           /\ left'["click"] <= left["click"]
           /\ k = "click" => left["click"] > 0 /\ left'["click"] = left["click"] - 1
           /\ k # "click" => left'["click"] = left["click"]
BY DEF Spend, Kinds
-----------------------------------------------------------------------------
(* What all pages share *)

\* What a step may do to the page and to the way back.
LEMMA TurnStep ==
    ASSUME [Next]_vars
    PROVE  (\E p \in Pages : FollowLink(p)) \/ GoBack \/ UNCHANGED <<page, trail>>
BY DEF Next, vars, tabVars, Hide, Unhide, LinkComes, LinkGoes, Deliver, BackendStep, PageStep,
   NewRisk, EndpointStep, EndpointReads, EndpointInit, EndpointPolls, EndpointPublishes,
   EndpointAlerts, CallAnswered, Answer, LandingNext, FetchCompletes, FetchFails, NewsTick,
   Reveal, HeroTick, PipelineTick, PacketLands, ConsoleNext, BootTick, BootOver,
   SummaryArrives, ConsoleRenders, Clear, NewSession, Talk, Scan, DeployAgent, AnswerShown,
   DevDocsNext, LogTick, SimulateAPI, OutputShown, ArchitectureNext, FailoverClicked,
   RecoveryFires, ArchitectureRenders, HealthArrives, SupplierArrives

LEMMA TrailStep ==
    ASSUME AppInv, TrailTurns, [Next]_vars
    PROVE  TrailTurns'
<1>1. page \in Pages /\ trail \in Seq(Pages) /\ Len(trail) \in Nat
  BY LenProperties DEF AppInv, AppTyped
<1>2. ASSUME NEW p \in Pages, FollowLink(p) PROVE TrailTurns'
  <2>1. p # page /\ trail' = Append(trail, page) /\ page' = p
    BY <1>2 DEF FollowLink, LinksOf, Mount
  <2>2. /\ Len(trail') = Len(trail) + 1 /\ trail'[Len(trail) + 1] = page
        /\ \A i \in 1..Len(trail) : trail'[i] = trail[i]
    BY <1>1, <2>1, AppendProperties
  <2>3. ASSUME NEW i \in 1..Len(trail')
        PROVE  trail'[i] # (IF i = Len(trail') THEN page' ELSE trail'[i + 1])
    <3>1. CASE i = Len(trail) + 1
      BY <2>1, <2>2, <3>1
    <3>2. CASE i = Len(trail)
      BY <1>1, <2>2, <3>2 DEF TrailTurns
    <3>3. CASE i < Len(trail)
      <4>1. i \in 1..Len(trail) /\ i + 1 \in 1..Len(trail) /\ i # Len(trail)
        BY <1>1, <3>3
      <4> QED  BY <1>1, <2>2, <3>3, <4>1 DEF TrailTurns
    <3> QED  BY <1>1, <2>2, <3>1, <3>2, <3>3
  <2> QED  BY <2>3 DEF TrailTurns
<1>3. ASSUME GoBack PROVE TrailTurns'
  <2>1. trail # <<>> /\ trail' = Front(trail) /\ page' = trail[Len(trail)]
    BY <1>3 DEF GoBack, Mount, Last
  <2> DEFINE k == Len(trail) - 1
  <2>2. k \in Nat /\ 1 \in Int /\ k \in Int /\ \A i \in 1..k : trail[i] \in Pages
    BY <1>1, <2>1, EmptySeq, ElementOfSeq
  <2>3. trail' = SubSeq(trail, 1, k)
    BY <2>1 DEF Front
  <2>4. \A i \in 1..k : i \in 1..Len(trail) /\ i # Len(trail) /\ i + 1 \in 1..Len(trail)
                        /\ (i = k => i + 1 = Len(trail)) /\ 1 + i - 1 = i
                        /\ (i # k => i + 1 \in 1..k)
    BY <1>1, <2>2
  <2> HIDE DEF k
  <2>5. Len(trail') = k /\ \A i \in 1..k : trail'[i] = trail[i]
    <3>1. \A i \in 1..(k - 1 + 1) : trail'[i] = trail[1 + i - 1]
      BY <2>2, <2>3, SubSeqProperties
    <3>2. Len(trail') = IF 1 <= k THEN k - 1 + 1 ELSE 0
      BY <2>2, <2>3, SubSeqProperties
    <3> QED  BY <2>2, <2>4, <3>1, <3>2
  <2>6. ASSUME NEW i \in 1..k
        PROVE  trail'[i] # (IF i = k THEN page' ELSE trail'[i + 1])
    BY <2>1, <2>4, <2>5 DEF TrailTurns
  <2> QED  BY <2>5, <2>6 DEF TrailTurns
<1>4. ASSUME UNCHANGED <<page, trail>> PROVE TrailTurns'
  BY <1>4 DEF TrailTurns
<1> QED  BY <1>2, <1>3, <1>4, TurnStep

LEMMA PlainStep ==
    ASSUME AppInv, PlainTypes, [Next]_vars
    PROVE  PlainTypes'
<1>1. wire \in Seq(Messages) /\ Len(wire) \in Nat /\ WireCap \in Nat
  BY LengthAssumption, LenProperties DEF AppInv, AppTyped
<1>2. ASSUME NEW p, Mount(p), UNCHANGED wire PROVE PlainTypes'
  BY <1>2 DEF Mount, PlainTypes
<1>3. CASE GoBack \/ \E p \in Pages : FollowLink(p)
  BY <1>2, <1>3 DEF GoBack, FollowLink, Mount, netVars
<1>4. ASSUME LinkComes \/ LinkGoes PROVE PlainTypes'
  <2>1. wire' = wire \/ wire' = <<>>
    BY <1>4 DEF LinkComes, LinkGoes
  <2>2. Len(wire') <= WireCap
    BY <1>1, <2>1 DEF PlainTypes
  <2> QED  BY <1>4, <2>2 DEF LinkComes, LinkGoes, Comes, Goes, PlainTypes, tabVars
<1>5. ASSUME Deliver PROVE PlainTypes'
  <2>1. Len(wire') = Len(wire) - 1
    BY <1>1, <1>5, HeadTailProperties DEF Deliver
  <2> QED  BY <1>1, <1>5, <2>1 DEF Deliver, PlainTypes, tabVars, channelVars
<1>6. ASSUME EndpointStep PROVE PlainTypes'
  <2>1. \A m : Send(m) => Len(wire') <= WireCap
    BY <1>1, AppendProperties DEF Send
  <2>2. Len(wire') <= WireCap
    BY <1>6, <2>1 DEF EndpointStep, EndpointReads, EndpointInit, EndpointPolls,
       EndpointPublishes, EndpointAlerts, PlainTypes
  <2> QED  BY <1>6, <2>2 DEF EndpointStep, EndpointReads, EndpointInit, EndpointPolls,
              EndpointPublishes, EndpointAlerts, PlainTypes, tabVars, channelVars
<1>7. ASSUME UNCHANGED <<wire, link, asked, ended>>, hidden' \in BOOLEAN PROVE PlainTypes'
  BY <1>7 DEF PlainTypes
<1>8. ASSUME NewRisk \/ (\E c \in calls : CallAnswered(c)) \/ PageStep \/ Hide \/ Unhide
             \/ UNCHANGED vars
      PROVE  PlainTypes'
  <2>1. UNCHANGED <<wire, link, asked, ended>> /\ hidden' \in {hidden, TRUE, FALSE}
    BY <1>8 DEF vars, tabVars, netVars, channelVars, Hide, Unhide, PageStep, NewRisk,
       CallAnswered, Answer, LandingNext, FetchCompletes, FetchFails, NewsTick,
       Reveal, HeroTick, PipelineTick, PacketLands, ConsoleNext, BootTick, BootOver,
       SummaryArrives, ConsoleRenders, Clear, NewSession, Talk, Scan, DeployAgent, AnswerShown,
       DevDocsNext, LogTick, SimulateAPI, OutputShown, ArchitectureNext, FailoverClicked,
       RecoveryFires, ArchitectureRenders, HealthArrives, SupplierArrives
  <2> QED  BY <1>7, <2>1 DEF PlainTypes
<1> QED  BY <1>3, <1>4, <1>5, <1>6, <1>8 DEF Next, BackendStep

-----------------------------------------------------------------------------
(* The landing page *)

LEMMA RecentFits ==
    ASSUME NEW v \in Nat
    PROVE  RecentAt(v) \in Seq(Nat) /\ Len(RecentAt(v)) <= FeedCap
<1> DEFINE n == IF v < RestLimit THEN v ELSE RestLimit
<1>1. n \in Nat /\ n <= FeedCap /\ n <= v
  BY LengthAssumption
<1>2. \A i \in 1..n : v + 1 - i \in Nat
  BY <1>1
<1> HIDE DEF n
<1>3. [i \in 1..n |-> v + 1 - i] \in Seq(Nat) /\ Len([i \in 1..n |-> v + 1 - i]) = n
  BY <1>1, <1>2
<1> QED  BY <1>1, <1>3 DEF RecentAt, n

LEMMA FedLanding ==
    ASSUME NEW u, LandingScreen(u), {"mocked", "summary", "back"} \subseteq DOMAIN u,
           NEW s, NEW v \in Nat
    PROVE  LandingScreen(Summarised(u, s)) /\ LandingScreen(Fed(Summarised(u, s), RecentAt(v)))
<1> DEFINE w == Summarised(u, s)
<1>1. DOMAIN w = DOMAIN u /\ w.recent = u.recent /\ w.news = u.news
  BY SummarisedFact DEF LandingScreen
<1> HIDE DEF w
<1>2. LandingScreen(w)
  BY <1>1 DEF LandingScreen
<1>3. /\ DOMAIN Fed(w, RecentAt(v)) = DOMAIN w
      /\ Fed(w, RecentAt(v)).recent = RecentAt(v) /\ Fed(w, RecentAt(v)).news = w.news
  BY <1>1 DEF Fed, LandingScreen
<1>4. LandingScreen(Fed(w, RecentAt(v)))
  BY <1>2, <1>3, RecentFits DEF LandingScreen
<1> QED  BY <1>2, <1>4 DEF w

LEMMA ScreenLanding ==
    ASSUME AppInv, ScreenInv, LandingNext, PlainTypes', TrailTurns'
    PROVE  ScreenInv'
<1>1. OnLanding /\ page = "landing" /\ LandingScreen(ui) /\ "kind" \in DOMAIN ui
      /\ {"mocked", "summary", "back"} \subseteq DOMAIN ui
  BY WhichPage, PageFacts DEF LandingNext, FetchCompletes, FetchFails, NewsTick, Reveal, HeroTick,
     PipelineTick, ScreenInv, Watching
<1>2. SUFFICES LandingScreen(ui') /\ ui'.kind = ui.kind
  BY <1>1 DEF ScreenInv, OnLanding, OnConsole, OnDevDocs, OnArchitecture
<1>3. ASSUME FetchCompletes PROVE LandingScreen(ui') /\ ui'.kind = ui.kind
  <2>1. PICK s \in calls, r \in calls : ui' = Fed(Summarised(ui, s.at), RecentAt(r.at))
    BY <1>3 DEF FetchCompletes
  <2>2. r.at \in Nat
    BY PageFacts DEF CallRecords
  <2>3. ui'.kind = ui.kind
    BY <1>1, <2>1 DEF Fed, Summarised
  <2> QED  BY <1>1, <2>1, <2>2, <2>3, FedLanding
<1>4. ASSUME NewsTick PROVE LandingScreen(ui') /\ ui'.kind = ui.kind
  <2>1. /\ DOMAIN ui' = DOMAIN ui /\ ui'.kind = ui.kind /\ ui'.recent = ui.recent
        /\ ui'.news = Prepended("x", ui.news, NewsCap)
    BY <1>1, <1>4 DEF NewsTick, LandingScreen
  <2>2. "x" \in News /\ NewsCap \in Nat \ {0}
    BY LengthAssumption DEF News
  <2>3. ui'.news \in Seq(News) /\ Len(ui'.news) <= NewsCap
    BY <1>1, <2>1, <2>2, PrependedFits DEF LandingScreen
  <2> QED  BY <1>1, <2>1, <2>3 DEF LandingScreen
<1>5. ASSUME FetchFails \/ Reveal("feed") \/ HeroTick \/ PipelineTick
             \/ \E p \in ui.packets : PacketLands(p)
      PROVE  LandingScreen(ui') /\ ui'.kind = ui.kind
  <2>1. /\ DOMAIN ui' = DOMAIN ui /\ ui'.kind = ui.kind
        /\ ui'.recent = ui.recent /\ ui'.news = ui.news
    BY <1>1, <1>5 DEF FetchFails, Reveal, HeroTick, PipelineTick, PacketLands, LandingScreen
  <2> QED  BY <1>1, <2>1 DEF LandingScreen
<1> QED  BY <1>3, <1>4, <1>5 DEF LandingNext

-----------------------------------------------------------------------------
(* The pages that show the system *)

LEMMA ScreenArchitecture ==
    ASSUME AppInv, ScreenInv, ArchitectureNext, PlainTypes', TrailTurns'
    PROVE  ScreenInv'
<1>1. (OnArchitecture \/ OnEcosystem) /\ "kind" \in DOMAIN ui
  BY PageFacts DEF ArchitectureNext, FailoverClicked, RecoveryFires, ArchitectureRenders,
     HealthArrives, SupplierArrives
<1>2. ui'.kind = ui.kind /\ page' = page /\ DOMAIN ui' = DOMAIN ui
  BY <1>1 DEF ArchitectureNext, FailoverClicked, RecoveryFires, ArchitectureRenders,
     HealthArrives, SupplierArrives, tabVars
<1>3. CASE OnEcosystem
  BY <1>2, <1>3 DEF ScreenInv, OnEcosystem, OnLanding, OnConsole, OnDevDocs, OnArchitecture
<1>4. CASE OnArchitecture
  <2> DEFINE pending == <<page, "recovery">>
  <2>1. ArchitectureScreen(ui) /\ RecoveryIsScheduled
    BY <1>4 DEF ScreenInv
  <2>2. /\ {"shown", "state"} \subseteq DOMAIN ui
        /\ ui.shown \in FailoverStates /\ ui.state \in FailoverStates
        /\ ui.shown = "failing" <=> (pending \in held \/ ui.state # ui.shown)
        /\ pending \in held => ui.state = "failing"
    BY <1>4, <2>1 DEF ArchitectureScreen, RecoveryIsScheduled
  <2>3. SUFFICES /\ ui'.shown \in FailoverStates /\ ui'.state \in FailoverStates
                 /\ ui'.shown = "failing" <=> (pending \in held' \/ ui'.state # ui'.shown)
                 /\ pending \in held' => ui'.state = "failing"
    BY <1>2, <1>4, <2>2 DEF ScreenInv, ArchitectureScreen, RecoveryIsScheduled, OnLanding,
       OnConsole, OnDevDocs, OnArchitecture
  <2> HIDE DEF pending
  <2>4. CASE FailoverClicked
    BY <2>2, <2>4 DEF FailoverClicked, ButtonEnabled, FailoverStates, pending
  <2>5. CASE RecoveryFires
    BY <2>2, <2>5 DEF RecoveryFires, FailoverStates, pending
  <2>6. CASE ArchitectureRenders
    BY <2>2, <2>6 DEF ArchitectureRenders, FailoverStates, tabVars
  <2>7. CASE HealthArrives \/ SupplierArrives
    <3>1. ui'.shown = ui.shown /\ ui'.state = ui.state /\ held' = held
      BY <1>4, <2>2, <2>7 DEF HealthArrives, SupplierArrives, OnEcosystem, OnArchitecture, tabVars
    <3> QED  BY <2>2, <3>1
  <2> QED  BY <2>4, <2>5, <2>6, <2>7 DEF ArchitectureNext
<1> QED  BY <1>1, <1>3, <1>4
-----------------------------------------------------------------------------
(* The documentation *)

LEMMA ScreenDevDocs ==
    ASSUME AppInv, ScreenInv, DevDocsNext, PlainTypes', TrailTurns'
    PROVE  ScreenInv'
<1>1. OnDevDocs /\ "kind" \in DOMAIN ui /\ left \in [Kinds -> Nat] /\ calls \subseteq CallRecords
  BY PageFacts DEF DevDocsNext, LogTick, SimulateAPI, OutputShown
<1>2. /\ DevDocsScreen(ui) /\ Numbered(ui.outputs, calls, left["click"])
      /\ \A c \in calls : c.what # "summary"
  BY <1>1 DEF ScreenInv
<1>3. /\ {"logs", "logIndex", "logId", "outputs"} \subseteq DOMAIN ui
      /\ ui.logs \in Seq([text : Int, id : Int]) /\ ui.outputs \in Seq(Lines)
      /\ ui.logId \in Nat /\ ui.logIndex = ui.logId % LogTexts
  BY <1>2 DEF DevDocsScreen
<1>4. SUFFICES /\ ui'.kind = ui.kind /\ DevDocsScreen(ui')
               /\ Numbered(ui'.outputs, calls', left'["click"])
               /\ \A c \in calls' : c.what # "summary"
  BY <1>1 DEF ScreenInv, OnDevDocs, OnLanding, OnConsole, OnArchitecture
<1>5. CASE LogTick
  <2> DEFINE l == [text |-> ui.logIndex, id |-> ui.logId]
             all == Append(ui.logs, l)
             n == Len(ui.logs)
  <2>1. /\ DOMAIN ui' = DOMAIN ui /\ ui'.kind = ui.kind /\ ui'.outputs = ui.outputs
        /\ ui'.logs = LastOf(all, LogCap)
        /\ ui'.logId = ui.logId + 1 /\ ui'.logIndex = (ui.logIndex + 1) % LogTexts
    BY <1>1, <1>3, <1>5 DEF LogTick
  <2>2. Spend("tick") /\ calls' = calls
    BY <1>5 DEF LogTick
  <2>3. ui'.logIndex = ui'.logId % LogTexts /\ ui'.logId \in Nat /\ ui.logIndex \in Int
    <3>1. LogTexts \in Nat \ {0} /\ ui.logId % LogTexts \in Int
      BY <1>3, LengthAssumption
    <3>2. ((ui.logId % LogTexts) + 1) % LogTexts = (ui.logId + 1) % LogTexts
      BY <1>3, <3>1, RemainderStep
    <3> QED  BY <1>3, <2>1, <3>1, <3>2
  <2>4. l \in [text : Int, id : Int] /\ l.text = ui.logId % LogTexts /\ l.id = ui.logId
    BY <1>3, <2>3
  <2>5. n \in Nat /\ n = IF ui.logId < LogCap THEN ui.logId ELSE LogCap
    BY <1>2, <1>3, LenProperties DEF DevDocsScreen
  <2>6. \A i \in 1..n : /\ ui.logs[i].id = ui.logId - n + i - 1
                       /\ ui.logs[i].text = ui.logs[i].id % LogTexts
    BY <1>2 DEF DevDocsScreen
  <2> HIDE DEF l, n
  <2>7. /\ all \in Seq([text : Int, id : Int]) /\ Len(all) = n + 1
        /\ \A i \in 1..n : all[i] = ui.logs[i]
        /\ all[n + 1] = l
    BY <1>3, <2>4, AppendProperties DEF n
  <2> HIDE DEF all
  <2>8. \A i \in 1..(n + 1) : /\ all[i].id = ui.logId - n + i - 1
                             /\ all[i].text = all[i].id % LogTexts
    <3> SUFFICES ASSUME NEW i \in 1..(n + 1)
                 PROVE  /\ all[i].id = ui.logId - n + i - 1
                        /\ all[i].text = all[i].id % LogTexts
      OBVIOUS
    <3>1. CASE i \in 1..n
      BY <2>6, <2>7, <3>1
    <3>2. CASE i = n + 1
      <4>1. all[i] = l /\ ui.logId - n + i - 1 = ui.logId
        BY <1>3, <2>5, <2>7, <3>2
      <4> QED  BY <2>4, <4>1
    <3> QED  BY <2>5, <3>1, <3>2
  <2> DEFINE v == LastOf(all, LogCap)
  <2>9. /\ v \in Seq([text : Int, id : Int])
        /\ Len(v) = IF Len(all) > LogCap THEN LogCap ELSE Len(all)
        /\ \A i \in 1..Len(v) : v[i] = all[Len(all) - Len(v) + i]
    <3>1. LogCap \in Nat
      BY LengthAssumption
    <3> QED  BY <2>7, <3>1, LastOfFits
  <2> HIDE DEF v
  <2>14. Len(v) \in Nat /\ Len(v) <= n + 1
    BY <2>5, <2>7, <2>9, LengthAssumption
  <2>10. Len(v) = IF ui'.logId < LogCap THEN ui'.logId ELSE LogCap
    <3>1. LogCap \in Nat /\ Len(all) = n + 1
      BY <2>7, LengthAssumption
    <3> QED  BY <1>3, <2>1, <2>5, <2>9, <3>1
  <2>11. \A i \in 1..Len(v) : /\ v[i].id = ui'.logId - Len(v) + i - 1
                              /\ v[i].text = v[i].id % LogTexts
    <3> SUFFICES ASSUME NEW i \in 1..Len(v)
                 PROVE  /\ v[i].id = ui'.logId - Len(v) + i - 1
                        /\ v[i].text = v[i].id % LogTexts
      OBVIOUS
    <3> DEFINE j == Len(all) - Len(v) + i
    <3>0. Len(all) = n + 1 /\ n \in Nat /\ Len(v) \in Nat /\ Len(v) <= n + 1
      BY <2>5, <2>7, <2>14
    <3>4. ui.logId \in Nat /\ ui'.logId = ui.logId + 1 /\ i \in 1..Len(v)
      BY <1>3, <2>1
    <3>1. j \in 1..(n + 1)
      BY <3>0, <3>4
    <3>2. ui.logId - n + j - 1 = ui'.logId - Len(v) + i - 1
      BY <3>0, <3>4
    <3>3. v[i] = all[j]
      BY <2>9
    <3> HIDE DEF j
    <3> QED  BY <2>8, <3>1, <3>2, <3>3
  <2>12. DevDocsScreen(ui')
    <3>1. ui'.logs = v
      BY <2>1 DEF v
    <3> QED  BY <1>3, <2>1, <2>3, <2>9, <2>10, <2>11, <3>1 DEF DevDocsScreen
  <2>13. left'["click"] = left["click"]
    BY <1>1, <2>2, SpendClicks DEF Kinds
  <2> QED  BY <1>2, <2>1, <2>2, <2>12, <2>13
\* A step that only adds a line to the output window.
<1>6. ASSUME NEW l \in Lines, ui' = [ui EXCEPT !.outputs = Append(@, l)]
      PROVE  /\ ui'.kind = ui.kind /\ DevDocsScreen(ui') /\ ui'.outputs = Append(ui.outputs, l)
             /\ ui'.outputs \in Seq(Lines)
  <2>1. /\ DOMAIN ui' = DOMAIN ui /\ ui'.kind = ui.kind /\ ui'.outputs = Append(ui.outputs, l)
        /\ ui'.logs = ui.logs /\ ui'.logId = ui.logId /\ ui'.logIndex = ui.logIndex
    BY <1>1, <1>3, <1>6
  <2>2. ui'.outputs \in Seq(Lines)
    BY <1>3, <2>1, AppendProperties
  <2> QED  BY <1>2, <2>1, <2>2 DEF DevDocsScreen
<1>7. CASE \E card \in PlaygroundCards : SimulateAPI(card)
  <2> DEFINE k == left["click"]
             l == [kind |-> "client", id |-> k]
  <2>1. PICK w \in {"analyze", "health"} :
          /\ Spend("click") /\ ui' = [ui EXCEPT !.outputs = Append(@, l)]
          /\ calls' = calls \cup {Call(k, w)}
    BY <1>7 DEF SimulateAPI
  <2>2. k \in Nat /\ k > 0 /\ left'["click"] = k - 1
    BY <1>1, <2>1, SpendClicks DEF Kinds
  <2>3. l \in Lines /\ ~IsReply(l)
    BY <2>2 DEF Lines, IsReply
  <2> HIDE DEF k, l
  <2>4. /\ ui'.kind = ui.kind /\ DevDocsScreen(ui')
        /\ ui'.outputs = Append(ui.outputs, l) /\ ui'.outputs \in Seq(Lines)
    BY <1>6, <2>1, <2>3
  <2>5. Numbered(ui'.outputs, calls, k)
    BY <1>2, <1>3, <2>3, <2>4, NumberedLine DEF k
  <2>6. Numbered(ui'.outputs, calls', k - 1)
    <3>1. Numbered(ui'.outputs, calls \cup {Call(k, w)}, k - 1)
      BY <1>1, <2>2, <2>4, <2>5, NumberedCall
    <3> QED  BY <2>1, <3>1
  <2>7. \A c \in calls' : c.what # "summary"
    BY <1>2, <2>1 DEF Call
  <2> QED  BY <2>2, <2>4, <2>6, <2>7
<1>8. ASSUME NEW c \in calls, OutputShown(c)
      PROVE  /\ ui'.kind = ui.kind /\ DevDocsScreen(ui')
             /\ Numbered(ui'.outputs, calls', left'["click"])
             /\ \A d \in calls' : d.what # "summary"
  <2> DEFINE l == [kind |-> IF Failed(c) THEN "error" ELSE "server", id |-> c.id]
  <2>1. /\ calls' = calls \ {c} /\ left' = left
        /\ ui' = [ui EXCEPT !.outputs = Append(@, l)]
    BY <1>8 DEF OutputShown
  <2>2. l \in Lines /\ l.id = c.id
    BY <1>1 DEF Lines, CallRecords
  <2> HIDE DEF l
  <2>3. /\ ui'.kind = ui.kind /\ DevDocsScreen(ui')
        /\ ui'.outputs = Append(ui.outputs, l) /\ ui'.outputs \in Seq(Lines)
    BY <1>6, <2>1, <2>2
  <2>4. Numbered(ui'.outputs, calls', left["click"])
    BY <1>2, <1>3, <2>1, <2>2, <2>3, NumberedReply
  <2> QED  BY <1>2, <2>1, <2>3, <2>4
<1> QED  BY <1>5, <1>7, <1>8 DEF DevDocsNext

-----------------------------------------------------------------------------
(* The console *)

\* One rendering of a console u.
LEMMA RenderedFacts ==
    ASSUME NEW u, {"kind", "lines", "next", "boot", "unread"} \subseteq DOMAIN u
    PROVE  /\ DOMAIN Rendered(u) = DOMAIN u
           /\ Rendered(u).lines = u.next
           /\ Rendered(u).boot = u.boot \o [i \in 1..u.unread |-> u.logIndex]
           /\ Rendered(u).unread = 0
           /\ \A f \in DOMAIN u : f \notin {"lines", "boot", "unread"} => Rendered(u)[f] = u[f]
BY DEF Rendered

\* The updaters that run late read a counter that has moved on, but not back.
LEMMA RenderedBoot ==
    ASSUME NEW u, BootScreen(u), {"kind", "lines", "next"} \subseteq DOMAIN u
    PROVE  BootScreen(Rendered(u))
<1> DEFINE late == [i \in 1..u.unread |-> u.logIndex]
           all == u.boot \o late
<1>1. /\ {"boot", "unread", "logIndex", "phase"} \subseteq DOMAIN u
      /\ u.boot \in Seq(Nat) /\ u.unread \in Nat /\ u.logIndex \in Nat
      /\ u.logIndex \in 1 .. BootLogs + 1
      /\ Len(u.boot) \in Nat /\ Len(u.boot) + u.unread = u.logIndex - 1
      /\ u.phase # "logging" => u.logIndex = BootLogs + 1
  BY LengthAssumption, LenProperties DEF BootScreen
<1>2. \A i \in 1..Len(u.boot) : /\ i <= u.boot[i] /\ u.boot[i] <= u.logIndex
                                /\ i > 1 => u.boot[i - 1] <= u.boot[i]
  BY DEF BootScreen
<1>3. /\ late \in Seq(Nat) /\ Len(late) = u.unread
      /\ \A i \in 1..u.unread : late[i] = u.logIndex
  BY <1>1
<1> HIDE DEF late
<1>4. /\ all \in Seq(Nat) /\ Len(all) = Len(u.boot) + Len(late)
      /\ \A i \in 1..(Len(u.boot) + Len(late)) :
           all[i] = IF i <= Len(u.boot) THEN u.boot[i] ELSE late[i - Len(u.boot)]
  BY <1>1, <1>3, ConcatProperties
<1> DEFINE n == Len(u.boot)
           m == u.logIndex
           w == Rendered(u)
<1>5. \A i \in 1..n : u.boot[i] \in Nat
  BY <1>1, ElementOfSeq
<1> HIDE DEF all, n, m, w
<1>6. n \in Nat /\ m \in Nat /\ u.unread \in Nat /\ n + u.unread = m - 1 /\ Len(all) = m - 1
  BY <1>1, <1>3, <1>4 DEF n, m
<1>7. \A i \in 1..Len(all) :
        all[i] = IF i <= n THEN u.boot[i] ELSE m
  <2> TAKE i \in 1..Len(all)
  <2>1. i <= n => all[i] = u.boot[i]
    BY <1>3, <1>4, <1>6 DEF n
  <2>2. ASSUME ~(i <= n) PROVE all[i] = m
    <3>1. i - n \in 1..u.unread
      BY <1>6, <2>2
    <3>2. all[i] = late[i - n]
      BY <1>3, <1>4, <1>6, <2>2 DEF n
    <3> QED  BY <1>3, <3>1, <3>2 DEF m
  <2> QED  BY <2>1, <2>2
<1>8. \A i \in 1..n : i <= u.boot[i] /\ u.boot[i] <= m /\ (i > 1 => u.boot[i - 1] <= u.boot[i])
  BY <1>2 DEF n, m
<1>9. ASSUME NEW i \in 1..Len(all)
      PROVE  i <= all[i] /\ all[i] <= m /\ (i > 1 => all[i - 1] <= all[i])
  <2>1. CASE i <= n
    <3>1. i \in 1..n /\ all[i] = u.boot[i] /\ i <= all[i] /\ all[i] <= m
      BY <1>6, <1>7, <1>8, <2>1
    <3>2. ASSUME i > 1 PROVE all[i - 1] <= all[i]
      <4>1. i - 1 \in 1..Len(all) /\ i - 1 <= n
        BY <1>6, <2>1, <3>2
      <4>2. all[i - 1] = u.boot[i - 1]
        BY <1>7, <4>1
      <4> QED  BY <1>8, <3>1, <3>2, <4>2
    <3> QED  BY <3>1, <3>2
  <2>2. CASE i > n
    <3>1. all[i] = m /\ i <= m
      BY <1>6, <1>7, <2>2
    <3>2. ASSUME i > 1 PROVE all[i - 1] <= m
      <4>1. i - 1 \in 1..Len(all)
        BY <1>6, <3>2
      <4>2. CASE i - 1 <= n
        <5>1. i - 1 \in 1..n
          BY <1>6, <4>1, <4>2
        <5> QED  BY <1>7, <1>8, <4>1, <4>2, <5>1
      <4>3. CASE ~(i - 1 <= n)
        BY <1>6, <1>7, <4>1, <4>3
      <4> QED  BY <4>2, <4>3
    <3> QED  BY <1>6, <3>1, <3>2
  <2> QED  BY <1>6, <2>1, <2>2
<1>10. /\ DOMAIN w = DOMAIN u /\ w.boot = all /\ w.unread = 0
       /\ w.logIndex = m /\ w.phase = u.phase
  BY <1>1, RenderedFacts DEF all, late, m, w
<1>11. BootScreen(w)
  BY <1>1, <1>4, <1>6, <1>9, <1>10 DEF BootScreen, m
<1> QED  BY <1>11 DEF w

LEMMA RenderedTerminal ==
    ASSUME NEW u, {"kind", "alerts", "lines", "next", "boot", "unread"} \subseteq DOMAIN u,
           u.alerts \in Seq(Nat), Len(u.alerts) <= AlertCap, u.next \in Seq(Lines)
    PROVE  TerminalScreen(Rendered(u)) /\ Rendered(u).next = u.next /\ Rendered(u).lines = u.next
<1> DEFINE w == Rendered(u)
<1>1. DOMAIN w = DOMAIN u /\ w.lines = u.next /\ w.next = u.next /\ w.alerts = u.alerts
  BY RenderedFacts
<1> HIDE DEF w
<1>2. IsPrefix(u.next, u.next)
  BY PrefixIs, LenProperties
<1>3. TerminalScreen(w)
  BY <1>1, <1>2 DEF TerminalScreen
<1> QED  BY <1>1, <1>3 DEF w

\* A command and its reply.
LEMMA TwoLines ==
    ASSUME NEW out \in Seq(Lines), NEW a \in Lines, NEW b \in Lines,
           ~IsReply(a), ~IsReply(b), NEW C, NEW n, Numbered(out, C, n)
    PROVE  out \o <<a, b>> \in Seq(Lines) /\ Numbered(out \o <<a, b>>, C, n)
<1> DEFINE two == Append(Append(out, a), b)
<1>1. Append(out, a) \in Seq(Lines) /\ Numbered(Append(out, a), C, n)
  BY NumberedLine, AppendProperties
<1>2. two \in Seq(Lines) /\ Numbered(two, C, n)
  BY <1>1, NumberedLine, AppendProperties
<1>3. out \o <<a, b>> = two
  OBVIOUS
<1> QED  BY <1>2, <1>3

\* A line is added to what the next rendering will show.
LEMMA AddFacts ==
    ASSUME NEW u, "kind" \in DOMAIN u, BootScreen(u), TerminalScreen(u), NEW l \in Lines
    PROVE  /\ BootScreen(Add(u, l)) /\ TerminalScreen(Add(u, l))
           /\ Add(u, l).kind = u.kind /\ Add(u, l).next = Append(u.next, l)
           /\ Add(u, l).lines = u.lines /\ DOMAIN Add(u, l) = DOMAIN u
<1> DEFINE w == Add(u, l)
<1>1. /\ {"alerts", "lines", "next"} \subseteq DOMAIN u
      /\ u.alerts \in Seq(Nat) /\ Len(u.alerts) <= AlertCap
      /\ u.lines \in Seq(Lines) /\ u.next \in Seq(Lines) /\ IsPrefix(u.lines, u.next)
  BY DEF TerminalScreen
<1>2. /\ DOMAIN w = DOMAIN u /\ w.next = Append(u.next, l)
      /\ \A f \in DOMAIN u : f # "next" => w[f] = u[f]
  BY <1>1 DEF Add
<1> HIDE DEF w
<1>3. Append(u.next, l) \in Seq(Lines) /\ IsPrefix(u.lines, Append(u.next, l))
  BY <1>1, PrefixFacts, AppendProperties
<1>4. TerminalScreen(w)
  BY <1>1, <1>2, <1>3 DEF TerminalScreen
<1>5. BootScreen(w)
  BY <1>2 DEF BootScreen
<1> QED  BY <1>1, <1>2, <1>4, <1>5 DEF w

\* A list replaces it and is shown.
LEMMA SetShownFacts ==
    ASSUME NEW u, "kind" \in DOMAIN u, BootScreen(u), TerminalScreen(u), NEW list \in Seq(Lines)
    PROVE  LET w == Rendered(Set(u, list))
           IN  /\ BootScreen(w) /\ TerminalScreen(w) /\ w.kind = u.kind
               /\ w.next = list /\ w.lines = list
<1> DEFINE v == Set(u, list)
           w == Rendered(v)
<1>1. /\ {"alerts", "lines", "next"} \subseteq DOMAIN u
      /\ {"boot", "unread", "logIndex", "phase"} \subseteq DOMAIN u
      /\ u.alerts \in Seq(Nat) /\ Len(u.alerts) <= AlertCap
  BY DEF TerminalScreen, BootScreen
<1>2. /\ DOMAIN v = DOMAIN u /\ v.next = list
      /\ \A f \in DOMAIN u : f # "next" => v[f] = u[f]
  BY <1>1 DEF Set
<1> HIDE DEF v
<1>3. BootScreen(v)
  BY <1>2 DEF BootScreen
<1>4. BootScreen(w)
  BY <1>1, <1>2, <1>3, RenderedBoot
<1>5. TerminalScreen(w) /\ w.next = list /\ w.lines = list
  <2>1. v.alerts \in Seq(Nat) /\ Len(v.alerts) <= AlertCap /\ v.next \in Seq(Lines)
    BY <1>1, <1>2
  <2> QED  BY <1>1, <1>2, <2>1, RenderedTerminal
<1>6. w.kind = u.kind
  BY <1>1, <1>2, RenderedFacts
<1> QED  BY <1>4, <1>5, <1>6 DEF v

\* A summary changes neither screen.
LEMMA ConsoleSummarised ==
    ASSUME NEW u, BootScreen(u), TerminalScreen(u), {"kind", "summary", "back"} \subseteq DOMAIN u,
           NEW s
    PROVE  LET w == Summarised(u, s)
           IN  /\ BootScreen(w) /\ TerminalScreen(w) /\ w.kind = u.kind
               /\ w.next = u.next /\ w.lines = u.lines
<1> DEFINE w == Summarised(u, s)
<1>1. /\ DOMAIN w = DOMAIN u
      /\ \A f \in DOMAIN u : f \notin {"summary", "back"} => w[f] = u[f]
  BY SummarisedFact
<1> HIDE DEF w
<1>2. BootScreen(w)
  BY <1>1 DEF BootScreen
<1>3. TerminalScreen(w)
  BY <1>1 DEF TerminalScreen
<1>4. w.kind = u.kind /\ w.next = u.next /\ w.lines = u.lines
  BY <1>1 DEF TerminalScreen
<1> QED  BY <1>2, <1>3, <1>4 DEF w

LEMMA ScreenConsole ==
    ASSUME AppInv, ScreenInv, ConsoleNext, PlainTypes', TrailTurns'
    PROVE  ScreenInv'
<1> DEFINE k == left["click"]
<1>1. /\ OnConsole /\ page \in Watching /\ left \in [Kinds -> Nat] /\ k \in Nat
      /\ calls \subseteq CallRecords /\ {"kind", "summary", "back"} \subseteq DOMAIN ui
  <2>1. OnConsole
    BY DEF ConsoleNext, BootTick, BootOver, SummaryArrives, ConsoleRenders, Clear,
       NewSession, Talk, Scan, DeployAgent, AnswerShown
  <2> QED  BY <2>1, WhichPage, PageFacts DEF Watching, Kinds
<1>2. BootScreen(ui) /\ TerminalScreen(ui) /\ Numbered(ui.next, calls, k)
  BY <1>1 DEF ScreenInv
<1>3. /\ {"alerts", "lines", "next"} \subseteq DOMAIN ui
      /\ ui.lines \in Seq(Lines) /\ ui.next \in Seq(Lines) /\ IsPrefix(ui.lines, ui.next)
      /\ ui.alerts \in Seq(Nat) /\ Len(ui.alerts) <= AlertCap
  BY <1>2 DEF TerminalScreen
<1>4. /\ {"boot", "unread", "logIndex", "phase"} \subseteq DOMAIN ui
      /\ ui.boot \in Seq(Nat) /\ ui.unread \in Nat /\ ui.logIndex \in 1 .. BootLogs + 1
      /\ Len(ui.boot) + ui.unread = ui.logIndex - 1
      /\ ui.phase # "logging" => ui.logIndex = BootLogs + 1
      /\ \A i \in 1..Len(ui.boot) :
            /\ i <= ui.boot[i] /\ ui.boot[i] <= ui.logIndex
            /\ i > 1 => ui.boot[i - 1] <= ui.boot[i]
  BY <1>2 DEF BootScreen
<1>5. SUFFICES /\ ui'.kind = ui.kind /\ BootScreen(ui') /\ TerminalScreen(ui')
               /\ Numbered(ui'.next, calls', left'["click"])
  BY <1>1 DEF ScreenInv, OnConsole, OnLanding, OnDevDocs, OnArchitecture
<1> HIDE DEF k
<1>6. CASE BootTick
  <2>1. calls' = calls /\ left' = left /\ ui.phase = "logging" /\ BootLogs \in Nat
    BY <1>6, LengthAssumption DEF BootTick
  <2>2. /\ DOMAIN ui' = DOMAIN ui /\ ui'.kind = ui.kind /\ ui'.lines = ui.lines
        /\ ui'.next = ui.next /\ ui'.alerts = ui.alerts
    BY <1>1, <1>3, <1>4, <1>6 DEF BootTick
  <2>3. TerminalScreen(ui')
    BY <1>3, <2>2 DEF TerminalScreen
  <2>4. BootScreen(ui')
    <3>1. CASE ui.logIndex <= BootLogs /\ ui.unread = 0
               /\ ui' = [ui EXCEPT !.boot = Append(@, ui.logIndex), !.logIndex = @ + 1]
      <4> DEFINE v == Append(ui.boot, ui.logIndex)
                 n == Len(ui.boot)
      <4>1. /\ ui'.boot = v /\ ui'.logIndex = ui.logIndex + 1 /\ ui'.phase = ui.phase
            /\ ui'.unread = 0
        BY <1>4, <3>1
      <4>2. /\ v \in Seq(Nat) /\ Len(v) = n + 1 /\ n \in Nat
            /\ \A i \in 1..n : v[i] = ui.boot[i]
            /\ v[n + 1] = ui.logIndex
        BY <1>4, AppendProperties, LenProperties
      <4>3. n + 1 = ui.logIndex /\ \A i \in 1..n : ui.boot[i] \in Nat
        BY <1>4, <3>1, <4>2, ElementOfSeq
      <4>4. \A i \in 1..n : /\ i <= ui.boot[i] /\ ui.boot[i] <= ui.logIndex
                            /\ i > 1 => ui.boot[i - 1] <= ui.boot[i]
        BY <1>4
      <4> HIDE DEF v, n
      <4>5. ASSUME NEW i \in 1..(n + 1)
            PROVE  i <= v[i] /\ v[i] <= ui.logIndex + 1 /\ (i > 1 => v[i - 1] <= v[i])
        <5>1. CASE i \in 1..n
          <6>1. i > 1 => i - 1 \in 1..n /\ v[i - 1] = ui.boot[i - 1]
            BY <4>2, <5>1
          <6>2. v[i] = ui.boot[i] /\ v[i] \in Nat /\ ui.logIndex \in Nat
            BY <4>2, <4>3, <5>1
          <6>3. v[i] <= ui.logIndex + 1
            BY <4>4, <5>1, <6>2
          <6> QED  BY <4>4, <5>1, <6>1, <6>2, <6>3
        <5>2. CASE i = n + 1
          <6>1. i > 1 => i - 1 \in 1..n
            BY <4>2, <5>2
          <6> QED  BY <1>4, <4>2, <4>3, <4>4, <5>2, <6>1
        <5> QED  BY <4>2, <5>1, <5>2
      <4>6. ui'.logIndex \in 1 .. BootLogs + 1
        BY <1>4, <2>1, <3>1, <4>1
      <4> QED  BY <1>4, <2>1, <2>2, <4>1, <4>2, <4>3, <4>5, <4>6 DEF BootScreen
    <3>2. CASE ui.logIndex <= BootLogs
               /\ ui' = [ui EXCEPT !.unread = @ + 1, !.logIndex = @ + 1]
      <4>1. /\ ui'.boot = ui.boot /\ ui'.logIndex = ui.logIndex + 1 /\ ui'.phase = ui.phase
            /\ ui'.unread = ui.unread + 1
        BY <1>4, <3>2
      <4>2. Len(ui.boot) \in Nat /\ \A i \in 1..Len(ui.boot) : ui.boot[i] \in Nat
        BY <1>4, LenProperties, ElementOfSeq
      <4>3. /\ ui'.logIndex \in 1 .. BootLogs + 1 /\ ui'.unread \in Nat
            /\ Len(ui.boot) + ui'.unread = ui'.logIndex - 1
        BY <1>4, <2>1, <3>2, <4>1, <4>2
      <4>4. \A i \in 1..Len(ui.boot) : ui.boot[i] <= ui'.logIndex
        BY <1>4, <4>1, <4>2
      <4> QED  BY <1>4, <2>1, <2>2, <4>1, <4>3, <4>4 DEF BootScreen
    <3>3. CASE ~(ui.logIndex <= BootLogs) /\ ui' = [ui EXCEPT !.phase = "waiting"]
      <4>1. /\ ui'.boot = ui.boot /\ ui'.logIndex = ui.logIndex /\ ui'.unread = ui.unread
            /\ ui.logIndex = BootLogs + 1
        BY <1>4, <2>1, <3>3
      <4> QED  BY <1>4, <2>2, <4>1 DEF BootScreen
    <3> QED  BY <1>6, <3>1, <3>2, <3>3 DEF BootTick
  <2> QED  BY <1>2, <2>1, <2>2, <2>3, <2>4 DEF k
<1>7. CASE BootOver
  <2>1. calls' = calls /\ left' = left /\ ui.phase # "logging"
    BY <1>7 DEF BootOver
  <2>2. /\ DOMAIN ui' = DOMAIN ui
        /\ \A f \in DOMAIN ui : f # "phase" => ui'[f] = ui[f]
    BY <1>4, <1>7 DEF BootOver
  <2>3. TerminalScreen(ui')
    BY <1>3, <2>2 DEF TerminalScreen
  <2>4. BootScreen(ui')
    <3>1. /\ {"boot", "unread", "logIndex", "phase"} \subseteq DOMAIN ui'
          /\ ui'.boot = ui.boot /\ ui'.unread = ui.unread /\ ui'.logIndex = ui.logIndex
      BY <1>4, <2>2
    <3> QED  BY <1>4, <2>1, <3>1 DEF BootScreen
  <2> QED  BY <1>1, <1>2, <1>3, <2>1, <2>2, <2>3, <2>4 DEF k
<1>8. CASE SummaryArrives
  <2>1. PICK c \in calls : /\ calls' = calls \ {c} /\ left' = left
                           /\ ui' = IF Failed(c) THEN ui ELSE Summarised(ui, c.at)
    BY <1>8 DEF SummaryArrives
  <2>2. Numbered(ui.next, calls', k)
    <3>1. calls' \in SUBSET calls /\ k <= k
      BY <1>1, <2>1
    <3> QED  BY <1>1, <1>2, <1>3, <3>1, NumberedFewer
  <2>3. CASE ui' = ui
    BY <1>2, <2>1, <2>2, <2>3 DEF k
  <2>4. CASE ui' = Summarised(ui, c.at)
    BY <1>1, <1>2, <2>1, <2>2, <2>4, ConsoleSummarised DEF k
  <2> QED  BY <2>1, <2>3, <2>4
<1>9. CASE ConsoleRenders
  <2>1. calls' = calls /\ left' = left /\ ui' = Rendered(ui)
    BY <1>9 DEF ConsoleRenders
  <2>2. BootScreen(ui') /\ TerminalScreen(ui') /\ ui'.next = ui.next
    BY <1>1, <1>2, <1>3, <1>4, <2>1, RenderedBoot, RenderedTerminal
  <2>3. ui'.kind = ui.kind
    BY <1>1, <1>3, <1>4, <2>1, RenderedFacts
  <2> QED  BY <1>2, <2>1, <2>2, <2>3 DEF k
\* A handler that replaces the lines.
<1>10. ASSUME NEW list \in Seq(Lines), Spend("click"), Shows(Set(ui, list))
       PROVE  /\ ui'.kind = ui.kind /\ BootScreen(ui') /\ TerminalScreen(ui') /\ ui'.next = list
              /\ k > 0 /\ k - 1 \in Nat /\ k - 1 <= k /\ left'["click"] = k - 1
  <2>1. k > 0 /\ k - 1 \in Nat /\ k - 1 <= k /\ left'["click"] = k - 1
    BY <1>1, <1>10, SpendClicks DEF Kinds, k
  <2> QED  BY <1>1, <1>2, <1>10, <2>1, SetShownFacts DEF Shows
<1>11. CASE Clear
  <2>1. <<>> \in Seq(Lines) /\ \A i \in 1..Len(<<>>) : ~IsReply(<<>>[i])
    OBVIOUS
  <2>2. Spend("click") /\ Shows(Set(ui, <<>>)) /\ calls' = calls
    BY <1>11 DEF Clear
  <2>3. Numbered(<<>>, calls, k)
    BY <1>2, <2>1, NumberedFresh
  <2>4. Numbered(<<>>, calls, k - 1)
    BY <1>1, <1>10, <2>1, <2>2, <2>3, NumberedFewer
  <2> QED  BY <1>10, <2>1, <2>2, <2>4
<1>12. CASE NewSession
  <2>1. Session \in Seq(Lines) /\ \A i \in 1..Len(Session) : ~IsReply(Session[i])
    <3>1. Line("session", 0) \in Lines /\ ~IsReply(Line("session", 0))
      BY DEF Line, Lines, IsReply
    <3> QED  BY <3>1, OneItem DEF Session
  <2>2. Spend("click") /\ Shows(Set(ui, Session)) /\ calls' = calls
    BY <1>12 DEF NewSession
  <2>3. Numbered(Session, calls, k)
    BY <1>2, <2>1, NumberedFresh
  <2>4. Numbered(Session, calls, k - 1)
    BY <1>1, <1>10, <2>1, <2>2, <2>3, NumberedFewer
  <2> QED  BY <1>10, <2>1, <2>2, <2>4
<1>13. Line("in", k) \in Lines /\ Line("out", k) \in Lines
       /\ ~IsReply(Line("in", k)) /\ ~IsReply(Line("out", k))
  BY <1>1 DEF Line, Lines, IsReply
<1>14. CASE Talk \/ Scan
  <2> DEFINE list == ui.lines \o <<Line("in", k), Line("out", k)>>
  <2>1. Spend("click") /\ Shows(Set(ui, list))
        /\ (calls' = calls \/ calls' = calls \cup {Call(k, "trigger")})
    BY <1>14 DEF Talk, Scan, k
  <2>2. list \in Seq(Lines) /\ Numbered(list, calls, k)
    <3>1. Numbered(ui.lines, calls, k)
      BY <1>2, <1>3, NumberedPrefix
    <3> QED  BY <1>3, <1>13, <3>1, TwoLines
  <2> HIDE DEF list
  <2>3. /\ ui'.kind = ui.kind /\ BootScreen(ui') /\ TerminalScreen(ui') /\ ui'.next = list
        /\ k > 0 /\ k - 1 \in Nat /\ k - 1 <= k /\ left'["click"] = k - 1
    BY <1>10, <2>1, <2>2
  <2>4. Numbered(list, calls, k - 1) /\ Numbered(list, calls \cup {Call(k, "trigger")}, k - 1)
    BY <1>1, <2>2, <2>3, NumberedFewer, NumberedCall
  <2> QED  BY <2>1, <2>3, <2>4
<1>15. CASE DeployAgent
  <2> DEFINE l == Line("out", k)
             v == Add(ui, l)
  <2>1. Spend("click") /\ ui' = Rendered(v) /\ calls' = calls \cup {Call(k, "trigger")}
    BY <1>15 DEF DeployAgent, Shows, k
  <2>2. k > 0 /\ k - 1 \in Nat /\ left'["click"] = k - 1
    BY <1>1, <2>1, SpendClicks DEF Kinds, k
  <2> HIDE DEF l
  <2>3. /\ BootScreen(v) /\ TerminalScreen(v) /\ v.kind = ui.kind /\ DOMAIN v = DOMAIN ui
        /\ v.next = Append(ui.next, l)
    BY <1>1, <1>2, <1>13, AddFacts DEF l
  <2> HIDE DEF v
  <2>4. BootScreen(ui') /\ TerminalScreen(ui') /\ ui'.next = v.next
    BY <1>1, <1>3, <1>4, <2>1, <2>3, RenderedBoot, RenderedTerminal DEF TerminalScreen
  <2>5. ui'.kind = ui.kind
    BY <1>1, <1>3, <1>4, <2>1, <2>3, RenderedFacts
  <2>6. Numbered(ui'.next, calls, k) /\ ui'.next \in Seq(Lines)
    BY <1>2, <1>3, <1>13, <2>3, <2>4, NumberedLine, AppendProperties DEF l
  <2>7. Numbered(ui'.next, calls', k - 1)
    BY <1>1, <2>1, <2>2, <2>6, NumberedCall
  <2> QED  BY <2>2, <2>4, <2>5, <2>7
<1>16. ASSUME NEW c \in calls, AnswerShown(c)
       PROVE  /\ ui'.kind = ui.kind /\ BootScreen(ui') /\ TerminalScreen(ui')
              /\ Numbered(ui'.next, calls', left'["click"])
  <2> DEFINE l == Line("answer", c.id)
  <2>1. calls' = calls \ {c} /\ left' = left /\ ui' = Add(ui, l) /\ c.what # "summary"
    BY <1>16 DEF AnswerShown
  <2>2. l \in Lines /\ l.id = c.id
    BY <1>1 DEF Line, Lines, CallRecords
  <2> HIDE DEF l
  <2>3. /\ BootScreen(ui') /\ TerminalScreen(ui') /\ ui'.kind = ui.kind
        /\ ui'.next = Append(ui.next, l)
    BY <1>1, <1>2, <2>1, <2>2, AddFacts
  <2>4. Numbered(ui'.next, calls', k)
    BY <1>2, <1>3, <2>1, <2>2, <2>3, NumberedReply
  <2> QED  BY <2>1, <2>3, <2>4 DEF k
<1> QED  BY <1>6, <1>7, <1>8, <1>9, <1>11, <1>12, <1>14, <1>15, <1>16 DEF ConsoleNext

-----------------------------------------------------------------------------
(* Messages and answers *)

LEMMA ScreenDeliver ==
    ASSUME AppInv, ScreenInv, Deliver, PlainTypes', TrailTurns'
    PROVE  /\ ScreenInv'
           /\ OnConsole => ui'.lines = ui.lines
<1> DEFINE m == Head(wire)
<1>1. /\ wire # <<>> /\ wire' = Tail(wire)
      /\ ui' = IF <<page, m.type>> \in handlers THEN Hears(ui, m) ELSE ui
      /\ UNCHANGED <<page, trail, held, calls, left>>
  BY DEF Deliver, tabVars
<1>2. m \in Messages
  <2>1. wire \in Seq(Messages)
    BY DEF AppInv, AppTyped
  <2> QED  BY <1>1, <2>1, HeadTailProperties
<1>3. Shaped(page, ui) /\ page \in Pages /\ handlers = {page} \X EventsOf(page)
      /\ left["click"] \in Nat
  BY DEF AppInv, AppTyped, NothingOutlivesItsPage, Kinds
<1> HIDE DEF m
<1>4. CASE ui' = ui
  BY <1>1, <1>3, <1>4, ScreenIdle
<1>5. CASE ui' # ui
  <2>1. ui' = Hears(ui, m) /\ m.type \in EventsOf(page)
    BY <1>1, <1>3, <1>5
  <2>2. /\ page \in Watching
        /\ {"kind", "summary", "back"} \subseteq DOMAIN ui
        /\ ui.kind = (IF page = "landing" THEN "landing" ELSE "console")
    BY <1>3, <2>1 DEF EventsOf, Watching, IsConsole, Pages, Shaped, KindOf
  <2>3. CASE page = "landing"
    <3>1. /\ ui' = LandingHears(ui, m) /\ m.type \in LandingEvents
          /\ OnLanding /\ ~OnConsole /\ "mocked" \in DOMAIN ui
      BY <1>3, <2>1, <2>2, <2>3 DEF Hears, EventsOf, IsConsole, OnLanding, OnConsole, Shaped
    <3>2. LandingScreen(ui)
      BY <3>1 DEF ScreenInv
    <3>3. LandingScreen(ui') /\ ui'.kind = "landing"
      <4>1. CASE m.type = "init"
        <5>1. m.recent \in Nat
          BY <1>2, <4>1 DEF Messages
        <5>2. \/ ui' = Summarised(ui, m.summary)
              \/ ui' = Fed(Summarised(ui, m.summary), RecentAt(m.recent))
          BY <3>1, <4>1 DEF LandingHears
        <5>3. ui'.kind = ui.kind
          BY <2>2, <5>2 DEF Summarised, Fed
        <5> QED  BY <2>2, <2>3, <3>1, <3>2, <5>1, <5>2, <5>3, FedLanding
      <4>2. CASE m.type = "summary_update"
        <5>1. ui' = Summarised(ui, m.summary)
          BY <3>1, <4>2 DEF LandingHears
        <5>2. ui'.kind = ui.kind
          BY <2>2, <5>1 DEF Summarised
        <5>3. 0 \in Nat
          OBVIOUS
        <5>4. LandingScreen(ui')
          BY <2>2, <3>1, <3>2, <5>1, <5>3, FedLanding
        <5> QED  BY <2>2, <2>3, <5>2, <5>4
      <4>3. CASE m.type = "risk_alert"
        <5>1. m.risk \in Nat
          BY <1>2, <4>3 DEF Messages
        <5>2. /\ ui'.recent = Prepended(m.risk, ui.recent, FeedCap)
              /\ DOMAIN ui' = DOMAIN ui /\ ui'.kind = ui.kind /\ ui'.news = ui.news
          BY <2>2, <3>1, <3>2, <4>3 DEF LandingHears, LandingScreen
        <5>3. ui'.recent \in Seq(Nat) /\ Len(ui'.recent) <= FeedCap
          <6>1. FeedCap \in Nat \ {0} /\ ui.recent \in Seq(Nat) /\ Len(ui.recent) <= FeedCap
            BY <3>2, LengthAssumption DEF LandingScreen
          <6> QED  BY <5>1, <5>2, <6>1, PrependedFits
        <5> QED  BY <2>2, <2>3, <3>2, <5>2, <5>3 DEF LandingScreen
      <4> QED  BY <3>1, <4>1, <4>2, <4>3 DEF LandingEvents
    <3> QED  BY <3>1, <3>3 DEF ScreenInv, OnLanding, OnConsole, OnDevDocs, OnArchitecture
  <2>4. CASE page # "landing"
    <3>1. /\ ui' = ConsoleHears(ui, m) /\ m.type \in ConsoleEvents /\ OnConsole
      BY <1>3, <2>1, <2>2, <2>4 DEF Hears, EventsOf, IsConsole, OnConsole, Watching
    <3>2. BootScreen(ui) /\ TerminalScreen(ui) /\ Numbered(ui.next, calls, left["click"])
      BY <3>1 DEF ScreenInv
    <3>3. /\ BootScreen(ui') /\ TerminalScreen(ui') /\ ui'.kind = ui.kind
          /\ ui'.lines = ui.lines
          /\ Numbered(ui'.next, calls, left["click"])
      <4>1. CASE IsSummary(m)
        <5>1. ui' = Summarised(ui, m.summary)
          BY <3>1, <4>1 DEF ConsoleHears, IsSummary
        <5> QED  BY <2>2, <3>2, <5>1, ConsoleSummarised
      <4>2. CASE m.type = "agent_result"
        <5>1. Line("result", m.id) \in Lines /\ ~IsReply(Line("result", m.id))
          BY <1>2, <4>2 DEF Messages, Line, Lines, IsReply
        <5>2. ui' = Add(ui, Line("result", m.id))
          BY <3>1, <4>2 DEF ConsoleHears
        <5>3. /\ BootScreen(ui') /\ TerminalScreen(ui') /\ ui'.kind = ui.kind
              /\ ui'.next = Append(ui.next, Line("result", m.id)) /\ ui'.lines = ui.lines
          BY <2>2, <3>2, <5>1, <5>2, AddFacts
        <5>4. ui.next \in Seq(Lines)
          BY <3>2 DEF TerminalScreen
        <5> QED  BY <3>2, <5>1, <5>3, <5>4, NumberedLine
      <4>3. CASE m.type = "risk_alert"
        <5>1. m.risk \in Nat
          BY <1>2, <4>3 DEF Messages
        <5>2. /\ {"alerts", "lines", "next"} \subseteq DOMAIN ui
              /\ ui.alerts \in Seq(Nat) /\ Len(ui.alerts) <= AlertCap
          BY <3>2 DEF TerminalScreen
        <5>3. ui' = [ui EXCEPT !.alerts = Prepended(m.risk, @, AlertCap)]
          BY <3>1, <4>3 DEF ConsoleHears
        <5>4. /\ ui'.alerts = Prepended(m.risk, ui.alerts, AlertCap)
              /\ DOMAIN ui' = DOMAIN ui
              /\ \A f \in DOMAIN ui : f # "alerts" => ui'[f] = ui[f]
          BY <5>2, <5>3
        <5>5. ui'.alerts \in Seq(Nat) /\ Len(ui'.alerts) <= AlertCap
          BY <5>1, <5>2, <5>4, PrependedFits, LengthAssumption
        <5>6. TerminalScreen(ui')
          BY <3>2, <5>2, <5>4, <5>5 DEF TerminalScreen
        <5>7. BootScreen(ui')
          BY <3>2, <5>4 DEF BootScreen
        <5> QED  BY <2>2, <3>2, <5>2, <5>4, <5>6, <5>7
      <4> QED  BY <3>1, <4>1, <4>2, <4>3 DEF ConsoleEvents, IsSummary
    <3> QED  BY <1>1, <3>1, <3>3 DEF ScreenInv, OnLanding, OnConsole, OnDevDocs, OnArchitecture
  <2> QED  BY <2>3, <2>4
<1> QED  BY <1>4, <1>5

LEMMA ScreenAnswered ==
    ASSUME AppInv, ScreenInv, NEW c \in calls, CallAnswered(c), PlainTypes', TrailTurns'
    PROVE  ScreenInv'
<1>1. PICK g : Answer(c, g)
  BY DEF CallAnswered
<1> DEFINE d == [c EXCEPT !.got = g, !.at = db]
<1>2. /\ calls' = (calls \ {c}) \cup {d}
      /\ UNCHANGED <<page, left, ui, held>>
  BY <1>1 DEF Answer, tabVars
<1>3. c \in CallRecords
  BY PageFacts
<1>4. d.what = c.what /\ d.id = c.id
  BY <1>3 DEF CallRecords
<1> HIDE DEF d
<1>5. OnConsole => Numbered(ui.next, calls', left["click"])
  BY <1>2, <1>4, NumberedAnswer DEF ScreenInv
<1>6. OnDevDocs => Numbered(ui.outputs, calls', left["click"])
                   /\ \A a \in calls' : a.what # "summary"
  BY <1>2, <1>4, NumberedAnswer DEF ScreenInv
<1> QED  BY <1>2, <1>5, <1>6 DEF ScreenInv, OnLanding, OnConsole, OnDevDocs, OnArchitecture,
            RecoveryIsScheduled

-----------------------------------------------------------------------------
(* The second invariant and its theorems *)

LEMMA ScreenStart == Init => ScreenInv
<1> SUFFICES ASSUME Init PROVE ScreenInv
  OBVIOUS
<1>1. page \in Pages /\ left["click"] \in Nat
  BY AppAssumption DEF Init, AppAssumption, Kinds
<1>2. /\ wire = <<>> /\ trail = <<>> /\ ui = InitOf(page) /\ calls = CallsOf(page)
      /\ held = {page} \X AcquiredBy(page)
  BY DEF Init
<1>3. Len(<<>>) = 0 /\ 1..0 = {}
  BY EmptySeq
<1>4. PlainTypes
  <2>1. asked \in BOOLEAN
    <3>1. asked = (page \in Watching)
      BY DEF Init
    <3> QED  BY <3>1
  <2>2. Len(wire) <= WireCap
    BY <1>2, <1>3, LengthAssumption
  <2> QED  BY <2>1, <2>2 DEF Init, PlainTypes
<1>5. TrailTurns
  BY <1>2, <1>3 DEF TrailTurns
<1>6. OnArchitecture => RecoveryIsScheduled
  BY <1>1, <1>2, FreshScreen DEF OnArchitecture, RecoveryIsScheduled
<1> QED  BY <1>1, <1>2, <1>4, <1>5, <1>6, FreshScreen
         DEF ScreenInv, OnLanding, OnConsole, OnDevDocs, OnArchitecture

LEMMA ScreenNavigate ==
    ASSUME AppInv, GoBack \/ \E p \in Pages : FollowLink(p), PlainTypes', TrailTurns'
    PROVE  ScreenInv'
<1>1. PICK p \in Pages : Mount(p) /\ Spend("visit")
  <2>1. CASE GoBack
    <3>1. trail \in Seq(Pages) /\ trail # <<>> /\ Mount(Last(trail)) /\ Spend("visit")
      BY <2>1 DEF GoBack, AppInv, AppTyped
    <3>2. Last(trail) \in Pages
      BY <3>1, EmptySeq, LenProperties DEF Last
    <3> QED  BY <3>1, <3>2
  <2> QED  BY <2>1 DEF FollowLink
<1>2. left' \in [Kinds -> Nat]
  BY <1>1, SpendTyped, PageFacts DEF Kinds
<1>3. held' = {p} \X AcquiredBy(p)
  BY <1>1, MountClears
<1> QED  BY <1>1, <1>2, <1>3, ScreenMount DEF Mount

LEMMA ScreenStep == AppInv /\ ScreenInv /\ [Next]_vars => ScreenInv'
<1> SUFFICES ASSUME AppInv, ScreenInv, [Next]_vars PROVE ScreenInv'
  OBVIOUS
<1>1. PlainTypes' /\ TrailTurns'
  BY PlainStep, TrailStep DEF ScreenInv
<1>2. CASE Hide \/ Unhide \/ LinkComes \/ LinkGoes \/ NewRisk \/ EndpointStep \/ UNCHANGED vars
  <2>1. UNCHANGED <<page, ui, held, calls>>
    BY <1>2 DEF Hide, Unhide, LinkComes, LinkGoes, NewRisk, EndpointStep, EndpointReads,
       EndpointInit, EndpointPolls, EndpointPublishes, EndpointAlerts, vars, tabVars
  <2>2. left' = left \/ \E k \in Kinds : Spend(k)
    BY <1>2 DEF Hide, Unhide, LinkComes, LinkGoes, NewRisk, EndpointStep, EndpointReads,
       EndpointInit, EndpointPolls, EndpointPublishes, EndpointAlerts, vars, Kinds
  <2>3. left'["click"] \in Nat /\ left'["click"] <= left["click"]
    BY <2>2, PageFacts, SpendClicks DEF Kinds
  <2> QED  BY <1>1, <2>1, <2>3, ScreenIdle
<1>3. CASE GoBack \/ \E p \in Pages : FollowLink(p)
  BY <1>1, <1>3, ScreenNavigate
<1>4. CASE \E c \in calls : CallAnswered(c)
  BY <1>1, <1>4, ScreenAnswered
<1>5. CASE Deliver
  BY <1>1, <1>5, ScreenDeliver
<1>6. CASE PageStep
  BY <1>1, <1>6, ScreenLanding, ScreenConsole, ScreenDevDocs, ScreenArchitecture DEF PageStep
<1> QED  BY <1>2, <1>3, <1>4, <1>5, <1>6 DEF Next, BackendStep

LEMMA ScreenInvariant == SafeSpec => [](AppInv /\ ScreenInv)
BY AppStart, AppStep, ScreenStart, ScreenStep, PTL DEF SafeSpec

\* Every variable keeps its type, and the lists that messages, answers and
\* intervals feed keep within the lengths that the pages cut them to, however
\* many of them arrive.
THEOREM AppTypes == SafeSpec => []AppTypeOK
<1>1. AppInv /\ ScreenInv => AppTypeOK
  <2> SUFFICES ASSUME AppInv, ScreenInv PROVE AppTypeOK
    OBVIOUS
  <2>1. ui.kind = InitOf(page).kind
    BY FreshShape DEF AppInv, AppTyped, Shaped
  <2>2. endpoint.at \in {"none", "accepted", "summarised", "live"}
    BY DEF AppInv, AppTyped
  <2>3. OnDevDocs => Len(ui.logs) <= LogCap
    BY LengthAssumption DEF ScreenInv, DevDocsScreen
  <2> QED  BY <2>1, <2>2, <2>3 DEF AppTypeOK, AppInv, AppTyped, CallRecords, ScreenInv, PlainTypes,
              LandingScreen, TerminalScreen
<1> QED  BY <1>1, ScreenInvariant, PTL

\* However the handlers, the timers and React's queue take their turns, the boot
\* screen has a line for each log, the documentation's log shows its last lines
\* without a gap, and a failover has one recovery on its way.
THEOREM PagesTimersKeepStep == SafeSpec => []TimersKeepStep
<1>1. AppInv /\ ScreenInv => TimersKeepStep
  <2> SUFFICES ASSUME AppInv, ScreenInv PROVE TimersKeepStep
    OBVIOUS
  <2>1. BootKeepsCount
    <3> SUFFICES ASSUME OnConsole
                 PROVE  /\ Len(ui.boot) + ui.unread = ui.logIndex - 1
                        /\ ui.phase # "logging" => ui.logIndex = BootLogs + 1
                        /\ \A i \in DOMAIN ui.boot :
                              /\ ui.boot[i] \in i..ui.logIndex
                              /\ i > 1 => ui.boot[i - 1] <= ui.boot[i]
      BY DEF BootKeepsCount
    <3>1. BootScreen(ui)
      BY DEF ScreenInv
    <3>2. DOMAIN ui.boot = 1..Len(ui.boot) /\ \A i \in 1..Len(ui.boot) : ui.boot[i] \in Nat
      BY <3>1, LenProperties, ElementOfSeq DEF BootScreen
    <3> QED  BY <3>1, <3>2, LengthAssumption DEF BootScreen
  <2>2. LogIsTheLast
    <3> SUFFICES ASSUME OnDevDocs
                 PROVE  /\ \A i \in DOMAIN ui.logs :
                              /\ ui.logs[i].id = ui.logId - Len(ui.logs) + i - 1
                              /\ ui.logs[i].text = ui.logs[i].id % LogTexts
                        /\ Len(ui.logs) = IF ui.logId < LogCap THEN ui.logId ELSE LogCap
      BY DEF LogIsTheLast
    <3>1. DevDocsScreen(ui)
      BY DEF ScreenInv
    <3>2. DOMAIN ui.logs = 1..Len(ui.logs)
      BY <3>1, LenProperties DEF DevDocsScreen
    <3> QED  BY <3>1, <3>2 DEF DevDocsScreen
  <2>3. RecoveryIsScheduled
    BY DEF ScreenInv, RecoveryIsScheduled
  <2> QED  BY <2>1, <2>2, <2>3 DEF TimersKeepStep
<1> QED  BY <1>1, ScreenInvariant, PTL

\* No answer of the terminal or of the output window is there before its call is
\* over, and none is there twice.
THEOREM PagesAnswerAtMostOnce == SafeSpec => []AnsweredAtMostOnce
<1>1. AppInv /\ ScreenInv => AnsweredAtMostOnce
  <2> SUFFICES ASSUME AppInv, ScreenInv PROVE AnsweredAtMostOnce
    OBVIOUS
  <2>1. Output \in Seq(Lines)
    BY DEF Output, ScreenInv, TerminalScreen, DevDocsScreen
  <2>2. DOMAIN Output = 1..Len(Output)
    BY <2>1, LenProperties
  <2>3. CASE OnConsole \/ OnDevDocs
    <3>1. Numbered(Output, calls, left["click"])
      BY <2>3 DEF Output, ScreenInv
    <3> QED  BY <2>2, <3>1 DEF AnsweredAtMostOnce, Numbered
  <2>4. CASE ~(OnConsole \/ OnDevDocs)
    <3>1. Output = <<>> /\ 1..0 = {} /\ Len(<<>>) = 0
      BY <2>4, EmptySeq DEF Output
    <3> QED  BY <2>2, <3>1 DEF AnsweredAtMostOnce
  <2> QED  BY <2>3, <2>4
<1> QED  BY <1>1, ScreenInvariant, PTL

\* Although a command replaces the terminal's list by a copy of what was on the
\* screen, no line that was on the screen goes, unless the user clears it.
THEOREM ShownLines == SafeSpec => ShownLinesStay
<1> DEFINE Stays == OnConsole /\ page' = page =>
                      \/ IsPrefix(ui.lines, ui'.lines)
                      \/ ui'.lines \in {<<>>, Session}
<1>1. ASSUME AppInv, ScreenInv, [Next]_vars PROVE Stays
  <2> SUFFICES ASSUME OnConsole, page' = page
               PROVE  IsPrefix(ui.lines, ui'.lines) \/ ui'.lines \in {<<>>, Session}
    OBVIOUS
  <2>1. /\ BootScreen(ui) /\ TerminalScreen(ui) /\ left \in [Kinds -> Nat]
        /\ calls \subseteq CallRecords /\ {"kind", "summary", "back"} \subseteq DOMAIN ui
    BY <1>1, WhichPage, PageFacts DEF ScreenInv, Watching
  <2>2. /\ {"alerts", "lines", "next"} \subseteq DOMAIN ui
        /\ {"boot", "unread", "logIndex", "phase"} \subseteq DOMAIN ui
        /\ ui.lines \in Seq(Lines) /\ ui.next \in Seq(Lines) /\ IsPrefix(ui.lines, ui.next)
    BY <2>1 DEF TerminalScreen, BootScreen
  <2>3. IsPrefix(ui.lines, ui.lines)
    BY <2>2, PrefixIs, LenProperties
  <2>4. CASE ui'.lines = ui.lines
    BY <2>3, <2>4
  <2>5. CASE GoBack \/ \E p \in Pages : FollowLink(p)
    <3>1. page' # page
      <4>1. ASSUME GoBack PROVE page' # page
        <5>1. trail # <<>> /\ page' = trail[Len(trail)] /\ trail \in Seq(Pages)
          BY <1>1, <4>1 DEF GoBack, Mount, Last, AppInv, AppTyped
        <5>2. Len(trail) \in 1..Len(trail)
          BY <5>1, EmptySeq, LenProperties
        <5> QED  BY <1>1, <5>1, <5>2 DEF ScreenInv, TrailTurns
      <4>2. ASSUME NEW p \in Pages, FollowLink(p) PROVE page' # page
        BY <4>2 DEF FollowLink, LinksOf, Mount
      <4> QED  BY <2>5, <4>1, <4>2
    <3> QED  BY <3>1
  <2>6. CASE Deliver
    <3>1. PlainTypes' /\ TrailTurns'
      BY <1>1, PlainStep, TrailStep DEF ScreenInv
    <3> QED  BY <1>1, <2>4, <2>6, <3>1, ScreenDeliver
  <2>7. CASE ConsoleNext
    <3>1. CASE BootTick \/ BootOver \/ SummaryArrives \/ \E c \in calls : AnswerShown(c)
      <4>1. ui'.lines = ui.lines
        BY <2>1, <2>2, <3>1 DEF BootTick, BootOver, SummaryArrives, AnswerShown, Add, Summarised
      <4> QED  BY <2>4, <4>1
    <3>2. CASE ConsoleRenders
      BY <2>2, <3>2 DEF ConsoleRenders, Rendered
    <3>3. CASE Clear \/ NewSession
      BY <2>2, <3>3 DEF Clear, NewSession, Shows, Rendered, Set
    <3>4. CASE Talk \/ Scan
      <4> DEFINE two == <<Line("in", left["click"]), Line("out", left["click"])>>
      <4>1. two \in Seq(Lines)
        <5>1. Line("in", left["click"]) \in Lines /\ Line("out", left["click"]) \in Lines
          BY <2>1 DEF Line, Lines, Kinds
        <5> QED  BY <5>1
      <4>2. ui' = Rendered(Set(ui, ui.lines \o two))
        BY <3>4 DEF Talk, Scan, Shows
      <4> HIDE DEF two
      <4>3. ui'.lines = ui.lines \o two
        BY <2>2, <4>2 DEF Rendered, Set
      <4>4. Line("in", 0) \in Lines
        BY DEF Line, Lines
      <4> QED  BY <2>2, <4>1, <4>3, <4>4, PrefixFacts
    <3>5. CASE DeployAgent
      <4> DEFINE l == Line("out", left["click"])
      <4>1. l \in Lines
        BY <2>1 DEF Line, Lines, Kinds
      <4>2. ui' = Rendered(Add(ui, l))
        BY <3>5 DEF DeployAgent, Shows
      <4> HIDE DEF l
      <4>3. ui'.lines = Append(ui.next, l)
        BY <2>2, <4>2 DEF Rendered, Add
      <4> QED  BY <2>2, <4>1, <4>3, PrefixFacts
    <3> QED  BY <2>7, <3>1, <3>2, <3>3, <3>4, <3>5 DEF ConsoleNext
  <2>8. CASE ~(GoBack \/ \E p \in Pages : FollowLink(p)) /\ ~Deliver /\ ~ConsoleNext
    <3>1. ui' = ui
      BY <1>1, <2>8 DEF Next, vars, Hide, Unhide, LinkComes, LinkGoes, BackendStep, NewRisk,
         CallAnswered, Answer, EndpointStep, EndpointReads, EndpointInit, EndpointPolls,
         EndpointPublishes, EndpointAlerts, PageStep, LandingNext, FetchCompletes, FetchFails,
         NewsTick, Reveal, HeroTick, PipelineTick, DevDocsNext, LogTick, SimulateAPI,
         OutputShown, ArchitectureNext, FailoverClicked, RecoveryFires, ArchitectureRenders,
         HealthArrives, SupplierArrives, OnConsole, OnLanding, OnDevDocs, OnArchitecture,
         OnEcosystem
    <3> QED  BY <2>4, <3>1
  <2> QED  BY <2>5, <2>6, <2>7, <2>8
<1>2. AppInv /\ ScreenInv /\ [Next]_vars => [Stays]_vars
  BY <1>1
<1>3. SafeSpec => [][Stays]_vars
  BY <1>2, ScreenInvariant, PTL DEF SafeSpec
<1> QED  BY <1>3 DEF ShownLinesStay
=============================================================================
