-------------------------- MODULE ReadingSyncProofs --------------------------
(***************************************************************************)
(* What ReadingSync guarantees for any devices and any bounds, however the *)
(* network loses and delays requests and whenever tabs are closed: its     *)
(* type, that the saves of one device land in the order they were made,    *)
(* each at most once, and that a queued write leaves the queue only when   *)
(* it is settled.  As long as no tab was closed, also that every base is   *)
(* an ancestor of what is to replace it, and that ReadingProgress is       *)
(* implemented.                                                            *)
(***************************************************************************)
EXTENDS ReadingSync, SequenceTheorems, TLAPS

LEMMA Bounds ==
  /\ MaxChoices \in Nat /\ MaxSaves \in Nat /\ MaxTimeouts \in Nat
  /\ MaxErrors \in Nat /\ MaxDrops \in Nat /\ MaxKills \in Nat
BY BoundsAssumption

-----------------------------------------------------------------------------
(***************************************************************************)
(* Types.                                                                  *)
(***************************************************************************)
RowType == [revision : Nat, path : Path, event : Event \cup {NoEvent},
            device : Device \cup {NoDevice}]
Entry == [event : Event, device : Device, path : Path]
Put == [device : Device, thread : Thread, event : Event, base : Nat, path : Path,
        waits : BOOLEAN]
Answer == [device : Device, thread : Thread, base : Nat,
           status : {"saved", "conflict", "refused"}, row : RowType]
CacheType == [present : BOOLEAN, revision : Nat, path : Path]
Link == [path : Path, generation : Nat]
ReaderType == [open : BOOLEAN, path : Path, base : Nat, signed : BOOLEAN, sig : Path,
               generation : Nat, waiting : Seq(Link)]
SaveType == [pc : {"idle", "inspect", "sent", "enqueue"}, event : Event \cup {NoEvent},
             base : Nat, path : Path]
DrainType == [pc : {"idle", "list", "item", "sent", "returned"}, rerun : BOOLEAN,
              pass : Seq(Item), old : SUBSET Event, latest : Nat, latched : BOOLEAN]
UsedType == [choices : 0 .. MaxChoices, saves : 0 .. MaxSaves, timeouts : 0 .. MaxTimeouts,
             errors : 0 .. MaxErrors, drops : 0 .. MaxDrops, kills : 0 .. MaxKills]

\* The server: a revision is an index into the log of what was applied, and the row
\* carries the event of the last.
ServerInv ==
  /\ row \in RowType /\ log \in Seq(Entry) /\ row.revision = Len(log)
  /\ Exists(row) => row.event = log[Len(log)].event
  /\ requests \subseteq Put /\ replies \subseteq Answer
  /\ \A a \in replies : a.row.revision <= Len(log)
  /\ online \in [Device -> BOOLEAN] /\ used \in UsedType

\* The devices: no revision is ahead of the server's.
DevicesInv ==
  /\ cache \in [Device -> CacheType] /\ queue \in [Device -> Seq(Item)]
  /\ reader \in [Device -> ReaderType] /\ save \in [Device -> SaveType]
  /\ drain \in [Device -> DrainType]
  /\ \A d \in Device : /\ cache[d].revision <= Len(log)
                       /\ reader[d].base <= Len(log)
                       /\ save[d].pc /= "idle" => save[d].event \in Event

TInv == ServerInv /\ DevicesInv

LEMMA EmptyPath == <<>> \in Path /\ <<>> \in Seq(Item) /\ <<>> \in Seq(Link) /\ <<>> \in Seq(Entry)
BY EmptySeq DEF Path

LEMMA Blanks ==
  /\ NoCache \in CacheType /\ NoSave \in SaveType /\ NoDrain \in DrainType
  /\ Closed \in ReaderType /\ NoRow \in RowType
  /\ NoCache.revision = 0 /\ Closed.base = 0 /\ NoSave.pc = "idle" /\ NoRow.revision = 0
BY EmptyPath DEF NoCache, NoSave, NoDrain, Closed, NoRow, CacheType, SaveType, DrainType,
   ReaderType, RowType, NoEvent

LEMMA InitTInv == Init => TInv
<1> SUFFICES ASSUME Init PROVE TInv
  OBVIOUS
<1>1. log = <<>> /\ Len(log) = 0 /\ log \in Seq(Entry)
  BY EmptySeq DEF Init
<1>2. used \in UsedType
  BY Bounds DEF Init, UsedType
<1>3. ServerInv
  BY <1>1, <1>2, Blanks DEF Init, ServerInv, Exists
<1>4. DevicesInv
  BY <1>1, Blanks, EmptyPath DEF Init, DevicesInv
<1> QED  BY <1>3, <1>4 DEF TInv

-----------------------------------------------------------------------------
(***************************************************************************)
(* Which actions change what.                                              *)
(***************************************************************************)
LEMMA LogFrame ==
  ASSUME [Next]_vars PROVE UNCHANGED server \/ \E q \in requests : Handle(q)
BY DEF Next, vars, server, Open, SaveStep, DrainStep, OpenFromCache, OpenFromServer, OpenAfresh, Mount, Choose,
   BeginSave, InspectQueue, SaveFails, Enqueue, SaveAnswered, ListPass, DropHeldBack, SendItem,
   DrainFails, ReplayAnswered, EndDrain, GoOffline, GoOnline, Kill, Refuse

LEMMA RequestsFrame ==
  ASSUME [Next]_vars
  PROVE  \/ UNCHANGED requests
         \/ \E q \in requests : Handle(q) \/ Refuse(q)
         \/ \E d \in Device : InspectQueue(d) \/ SaveFails(d) \/ SendItem(d) \/ DrainFails(d) \/ Kill(d)
BY DEF Next, vars, net, Open, SaveStep, DrainStep, OpenFromCache, OpenFromServer, OpenAfresh, Mount, Choose,
   BeginSave, Enqueue, SaveAnswered, ListPass, DropHeldBack, ReplayAnswered, EndDrain, GoOffline,
   GoOnline

LEMMA RepliesFrame ==
  ASSUME [Next]_vars
  PROVE  \/ UNCHANGED replies
         \/ \E q \in requests : Handle(q) \/ Refuse(q)
         \/ \E d \in Device : SaveFails(d) \/ SaveAnswered(d) \/ DrainFails(d) \/ ReplayAnswered(d)
                                \/ Kill(d)
BY DEF Next, vars, net, Open, SaveStep, DrainStep, OpenFromCache, OpenFromServer, OpenAfresh, Mount, Choose,
   BeginSave, InspectQueue, Enqueue, ListPass, DropHeldBack, SendItem, EndDrain, GoOffline, GoOnline

LEMMA CacheFrame ==
  ASSUME [Next]_vars
  PROVE  \/ UNCHANGED cache
         \/ \E d \in Device : OpenFromServer(d) \/ BeginSave(d) \/ SaveAnswered(d) \/ ReplayAnswered(d)
BY DEF Next, vars, local, Open, SaveStep, DrainStep, OpenFromCache, OpenAfresh, Choose, InspectQueue,
   SaveFails, Enqueue, ListPass, DropHeldBack, SendItem, DrainFails, EndDrain, GoOffline, GoOnline,
   Kill, Handle, Refuse

LEMMA QueueFrame ==
  ASSUME [Next]_vars
  PROVE  \/ UNCHANGED queue
         \/ \E d \in Device : Enqueue(d) \/ DropHeldBack(d) \/ ReplayAnswered(d)
BY DEF Next, vars, local, Open, SaveStep, DrainStep, OpenFromCache, OpenFromServer, OpenAfresh, Mount, Choose,
   BeginSave, InspectQueue, SaveFails, SaveAnswered, ListPass, SendItem, DrainFails, EndDrain,
   GoOffline, GoOnline, Kill, Handle, Refuse

LEMMA ReaderFrame ==
  ASSUME [Next]_vars
  PROVE  \/ UNCHANGED reader
         \/ \E d \in Device : Open(d) \/ Choose(d) \/ BeginSave(d) \/ SaveAnswered(d) \/ Kill(d)
BY DEF Next, vars, SaveStep, DrainStep, InspectQueue, SaveFails, Enqueue, ListPass, DropHeldBack, SendItem,
   DrainFails, ReplayAnswered, EndDrain, GoOffline, GoOnline, Handle, Refuse

LEMMA SaveFrame ==
  ASSUME [Next]_vars
  PROVE  \/ UNCHANGED save
         \/ \E d \in Device : SaveStep(d) \/ Kill(d)
BY DEF Next, vars, Open, DrainStep, OpenFromCache, OpenFromServer, OpenAfresh, Mount, Choose, ListPass,
   DropHeldBack, SendItem, DrainFails, ReplayAnswered, EndDrain, GoOffline, GoOnline, Handle, Refuse

LEMMA DrainFrame ==
  ASSUME [Next]_vars
  PROVE  \/ UNCHANGED drain
         \/ \E d \in Device : Open(d) \/ Enqueue(d) \/ DrainStep(d) \/ GoOnline(d) \/ Kill(d)
BY DEF Next, vars, SaveStep, Choose, BeginSave, InspectQueue, SaveFails, SaveAnswered, GoOffline,
   Handle, Refuse

SpendsOne ==
  \/ used.choices < MaxChoices /\ Spend("choices")
  \/ used.saves < MaxSaves /\ Spend("saves")
  \/ used.timeouts < MaxTimeouts /\ Spend("timeouts")
  \/ used.errors < MaxErrors /\ Spend("errors")
  \/ used.drops < MaxDrops /\ Spend("drops")
  \/ used.kills < MaxKills /\ Spend("kills")

LEMMA UsedFrame == ASSUME [Next]_vars PROVE UNCHANGED used \/ SpendsOne
<1>1. ASSUME NEW d \in Device, Open(d) \/ Choose(d) PROVE UNCHANGED used \/ SpendsOne
  BY <1>1 DEF Open, OpenFromCache, OpenFromServer, OpenAfresh, Choose, SpendsOne
<1>2. ASSUME NEW d \in Device, SaveStep(d) PROVE UNCHANGED used \/ SpendsOne
  <2>1. CASE BeginSave(d) \/ SaveFails(d)
    BY <2>1 DEF BeginSave, SaveFails, TransportFails, SpendsOne
  <2> QED  BY <1>2, <2>1 DEF SaveStep, InspectQueue, Enqueue, SaveAnswered
<1>3. ASSUME NEW d \in Device, DrainStep(d) PROVE UNCHANGED used \/ SpendsOne
  <2>1. CASE DrainFails(d)
    BY <2>1 DEF DrainFails, TransportFails, SpendsOne
  <2> QED
    BY <1>3, <2>1 DEF DrainStep, ListPass, DropHeldBack, SendItem, ReplayAnswered, EndDrain
<1>4. ASSUME NEW d \in Device, GoOffline(d) \/ GoOnline(d) \/ Kill(d)
      PROVE  UNCHANGED used \/ SpendsOne
  BY <1>4 DEF GoOffline, GoOnline, Kill, SpendsOne
<1>5. ASSUME NEW q \in requests, Handle(q) \/ Refuse(q) PROVE UNCHANGED used \/ SpendsOne
  BY <1>5 DEF Handle, Refuse, SpendsOne
<1> HIDE DEF SpendsOne
<1> QED  BY <1>1, <1>2, <1>3, <1>4, <1>5 DEF Next, vars

LEMMA OnlineFrame ==
  ASSUME [Next]_vars PROVE UNCHANGED online \/ \E d \in Device : GoOffline(d) \/ GoOnline(d)
BY DEF Next, vars, Open, SaveStep, DrainStep, OpenFromCache, OpenFromServer, OpenAfresh, Mount, Choose,
   BeginSave, InspectQueue, SaveFails, Enqueue, SaveAnswered, ListPass, DropHeldBack, SendItem,
   DrainFails, ReplayAnswered, EndDrain, Kill, Handle, Refuse

-----------------------------------------------------------------------------
(***************************************************************************)
(* The server keeps its type.                                              *)
(***************************************************************************)
\* What a handled save does to row and log.
LEMMA HandledRow ==
  ASSUME ServerInv, NEW q \in requests, Handle(q)
  PROVE  /\ row' \in RowType /\ log' \in Seq(Entry) /\ row'.revision = Len(log')
         /\ Exists(row') => row'.event = log'[Len(log')].event
         /\ \/ row' = row /\ log' = log
            \/ /\ Applies(row, q) /\ Len(log') = Len(log) + 1
               /\ \A i \in 1 .. Len(log) : log'[i] = log[i]
               /\ log'[Len(log')] = [event |-> q.event, device |-> q.device, path |-> q.path]
               /\ row'.event = q.event
<1>1. q \in Put /\ log \in Seq(Entry) /\ Len(log) \in Nat
  BY LenProperties DEF ServerInv
<1>2. CASE Applies(row, q)
  <2> DEFINE e == [event |-> q.event, device |-> q.device, path |-> q.path]
  <2>1. e \in Entry /\ e.event = q.event
    BY <1>1 DEF Put, Entry
  <2>2. log' = Append(log, e)
    BY <1>2 DEF Handle
  <2>3. row' = ApplyBody(q)
    BY <1>2 DEF Handle, PutRow
  <2>4. row' \in RowType /\ row'.event = q.event /\ row'.revision = q.base + 1
    BY <1>1, <2>3 DEF ApplyBody, RowType, Put
  <2>5. q.base = Len(log)
    BY <1>2 DEF Applies, Current, ServerInv
  <2> HIDE DEF e
  <2>6. /\ log' \in Seq(Entry) /\ Len(log') = Len(log) + 1
        /\ \A i \in 1 .. Len(log) : log'[i] = log[i]
        /\ log'[Len(log) + 1] = e
    BY <1>1, <2>1, <2>2, AppendProperties
  <2> QED  BY <1>2, <2>1, <2>4, <2>5, <2>6 DEF e
<1>3. CASE ~ Applies(row, q)
  BY <1>3 DEF Handle, PutRow, ServerInv
<1> QED  BY <1>2, <1>3

LEMMA LogGrows ==
  ASSUME ServerInv, [Next]_vars
  PROVE  /\ Len(log) \in Nat /\ Len(log') \in Nat /\ Len(log) <= Len(log')
         /\ \A i \in 1 .. Len(log) : log'[i] = log[i]
<1>1. Len(log) \in Nat
  BY LenProperties DEF ServerInv
<1>2. CASE UNCHANGED server
  BY <1>1, <1>2 DEF server
<1>3. ASSUME NEW q \in requests, Handle(q)
      PROVE  /\ Len(log') \in Nat /\ Len(log) <= Len(log')
             /\ \A i \in 1 .. Len(log) : log'[i] = log[i]
  <2>1. \/ log' = log
        \/ Len(log') = Len(log) + 1 /\ \A i \in 1 .. Len(log) : log'[i] = log[i]
    BY <1>3, HandledRow
  <2> QED  BY <1>1, <2>1
<1> QED  BY <1>1, <1>2, <1>3, LogFrame

\* The requests a live save and a replay send.
SaveRequest(d) == Request(d, "save", save[d].event, save[d].base, save[d].path)
ItemBase(d) == IF drain[d].latest = 0 THEN Head(drain[d].pass).base ELSE drain[d].latest
ItemRequest(d) ==
  Request(d, "drain", Head(drain[d].pass).event, ItemBase(d), Head(drain[d].pass).path)

\* A request is one of these, or was there before, though perhaps waited for.
LEMMA RequestsStep ==
  ASSUME [Next]_vars, NEW q \in requests'
  PROVE  \/ q \in requests
         \/ \E r \in requests : q = [r EXCEPT !.waits = FALSE]
         \/ \E d \in Device : \/ save[d].pc = "inspect" /\ q = SaveRequest(d)
                              \/ /\ drain[d].pc = "item" /\ q = ItemRequest(d)
                                 /\ drain' = [drain EXCEPT ![d].pc = "sent"]
<1>1. CASE UNCHANGED requests
  BY <1>1
<1>2. CASE \E r \in requests : Handle(r) \/ Refuse(r)
  BY <1>2 DEF Handle, Refuse
<1>3. ASSUME NEW d \in Device, NEW T, GiveUp(d, T)
      PROVE  q \in requests \/ \E r \in requests : q = [r EXCEPT !.waits = FALSE]
  <2> DEFINE mine == UNION {Waiting(d, t) : t \in T}
  <2>1. mine \subseteq requests
    BY DEF Waiting
  <2>2. PICK arrives \in SUBSET mine :
          requests' = (requests \ mine) \cup {[r EXCEPT !.waits = FALSE] : r \in arrives}
    BY <1>3 DEF GiveUp
  <2> QED  BY <2>1, <2>2
<1>4. CASE \E d \in Device : SaveFails(d) \/ DrainFails(d) \/ Kill(d)
  BY <1>3, <1>4 DEF SaveFails, DrainFails, Kill
<1>5. ASSUME NEW d \in Device, InspectQueue(d), q \notin requests
      PROVE  save[d].pc = "inspect" /\ q = SaveRequest(d)
  BY <1>5 DEF InspectQueue, Send, SaveRequest
<1>6. ASSUME NEW d \in Device, SendItem(d), q \notin requests
      PROVE  /\ drain[d].pc = "item" /\ q = ItemRequest(d)
             /\ drain' = [drain EXCEPT ![d].pc = "sent"]
  BY <1>6 DEF SendItem, Send, ItemRequest, ItemBase
<1> QED  BY <1>1, <1>2, <1>4, <1>5, <1>6, RequestsFrame

-----------------------------------------------------------------------------
(***************************************************************************)
(* The queue and its replay.  A pass is a part of the queue still to do,   *)
(* from its head on; what is done is dequeued, so the queue loses its head *)
(* whenever the pass does.                                                 *)
(***************************************************************************)
PassInv ==
  \A d \in Device : drain[d].pc \in {"item", "sent"} =>
    /\ drain[d].pass /= <<>> /\ Len(drain[d].pass) <= Len(queue[d])
    /\ \A i \in 1 .. Len(drain[d].pass) : drain[d].pass[i] = queue[d][i]

\* Writes are queued in the order they were made, and a live save is later than they.
OrderInv ==
  \A d \in Device :
    /\ \A i, j \in 1 .. Len(queue[d]) : i < j => queue[d][i].event < queue[d][j].event
    /\ save[d].pc /= "idle" =>
         \A i \in 1 .. Len(queue[d]) : queue[d][i].event < save[d].event
    /\ \A i \in 1 .. Len(queue[d]) : queue[d][i].event <= used.saves
    /\ save[d].pc /= "idle" => save[d].event <= used.saves

\* What a step may do to the queue of d and its replay.
QueueKept(d) ==
  \/ queue'[d] = queue[d]
  \/ /\ save[d].pc = "enqueue" /\ save'[d].pc = "idle"
     /\ queue'[d] = Append(queue[d], [event |-> save[d].event, base |-> save[d].base,
                                      path |-> save[d].path])
ReplayKept(d) ==
  /\ drain'[d].pass = drain[d].pass /\ drain'[d].latest = drain[d].latest
  /\ drain'[d].pc = drain[d].pc
ReplayEnds(d) == drain'[d].pc \notin {"item", "sent"} /\ drain'[d].latest \in {0, drain[d].latest}
Listed(d) ==
  /\ drain[d].pc = "list" /\ drain'[d].pc = "item" /\ drain'[d].latest = drain[d].latest
  /\ drain'[d].pass = queue[d] /\ queue[d] /= <<>>
ItemSent(d) ==
  /\ drain[d].pc = "item" /\ drain'[d].pc = "sent" /\ drain'[d].latest = drain[d].latest
  /\ drain'[d].pass = drain[d].pass
ItemDone(d) ==
  /\ drain[d].pc \in {"item", "sent"}
  /\ queue'[d] = Tail(queue[d]) /\ drain'[d].pass = Tail(drain[d].pass)
  /\ drain'[d].pc = (IF Len(drain[d].pass) > 1 THEN "item" ELSE "list")
  /\ \/ drain'[d].latest = drain[d].latest
     \/ \E a \in Answers(d, "drain") : a.status = "saved" /\ drain'[d].latest = a.row.revision

ReplayMoves(d) ==
  \/ QueueKept(d) /\ (ReplayKept(d) \/ ReplayEnds(d))
  \/ queue'[d] = queue[d] /\ (Listed(d) \/ ItemSent(d))
  \/ ItemDone(d)

LEMMA TailByRemoval ==
  ASSUME NEW q \in Seq(Item), q /= <<>>, NEW e, e = q[1].event,
         \A i, j \in 1 .. Len(q) : i < j => q[i].event < q[j].event
  PROVE  (IF \E i \in DOMAIN q : q[i].event = e
          THEN RemoveAt(q, CHOOSE i \in DOMAIN q : q[i].event = e) ELSE q) = Tail(q)
<1>1. Len(q) \in Nat \ {0} /\ DOMAIN q = 1 .. Len(q)
  BY EmptySeq, LenProperties
<1>2. \A i \in 1 .. Len(q) : q[i].event \in Nat
  <2>1. ASSUME NEW i \in 1 .. Len(q) PROVE q[i] \in Item
    BY ElementOfSeq
  <2> QED  BY <2>1, Bounds DEF Item, Event
<1>3. 1 \in DOMAIN q /\ q[1].event = e
  BY <1>1
<1>4. ASSUME NEW i \in DOMAIN q, q[i].event = e PROVE i = 1
  <2>1. i \in 1 .. Len(q) /\ 1 \in 1 .. Len(q) /\ q[1].event \in Nat
    BY <1>1, <1>2
  <2>2. ~ 1 < i
    BY <1>4, <2>1
  <2> QED  BY <2>1, <2>2
<1>5. (CHOOSE i \in DOMAIN q : q[i].event = e) = 1
  BY <1>3, <1>4
<1>6. RemoveAt(q, 1) = Tail(q)
  <2>1. SubSeq(q, 1, 1 - 1) = <<>>
    BY SubSeqEmpty
  <2>2. Tail(q) = SubSeq(q, 1 + 1, Len(q)) /\ Tail(q) \in Seq(Item)
    BY TailIsSubSeq, HeadTailProperties
  <2>3. <<>> \o Tail(q) = Tail(q)
    BY <2>2, ConcatEmptySeq
  <2> QED  BY <2>1, <2>2, <2>3 DEF RemoveAt
<1> QED  BY <1>3, <1>5, <1>6

\* The head of the pass is the head of the queue.
LEMMA HeadDequeued ==
  ASSUME TInv, PassInv, OrderInv, NEW d \in Device, drain[d].pc \in {"item", "sent"},
         Dequeue(d, Head(drain[d].pass).event)
  PROVE  queue' = [queue EXCEPT ![d] = Tail(queue[d])]
<1> DEFINE q == queue[d]
           e == Head(drain[d].pass).event
<1>1. q \in Seq(Item) /\ drain[d] \in DrainType
  BY DEF TInv, DevicesInv
<1>2. /\ drain[d].pass \in Seq(Item) /\ drain[d].pass /= <<>>
      /\ Len(drain[d].pass) <= Len(q) /\ drain[d].pass[1] = q[1] /\ Len(q) > 0
  <2>1. drain[d].pass \in Seq(Item) /\ drain[d].pass /= <<>>
    BY <1>1 DEF DrainType, PassInv
  <2>2. Len(drain[d].pass) \in Nat \ {0} /\ Len(q) \in Nat
    BY <1>1, <2>1, EmptySeq, LenProperties
  <2>3. Len(drain[d].pass) <= Len(q) /\ drain[d].pass[1] = q[1]
    <3>1. Len(drain[d].pass) <= Len(q) /\ \A i \in 1 .. Len(drain[d].pass) : drain[d].pass[i] = q[i]
      BY DEF PassInv
    <3>2. 1 \in 1 .. Len(drain[d].pass)
      BY <2>2
    <3> QED  BY <1>1, <2>1, <3>1, <3>2
  <2> QED  BY <2>1, <2>2, <2>3
<1>3. e = q[1].event
  BY <1>2
<1>4. q /= <<>>
  BY <1>1, <1>2, EmptySeq
<1>5. \A i, j \in 1 .. Len(q) : i < j => q[i].event < q[j].event
  BY DEF OrderInv
<1>6. queue' = [queue EXCEPT ![d] =
                  IF \E i \in DOMAIN q : q[i].event = e
                  THEN RemoveAt(q, CHOOSE i \in DOMAIN q : q[i].event = e) ELSE q]
  BY DEF Dequeue
<1> HIDE DEF q, e
<1>7. (IF \E i \in DOMAIN q : q[i].event = e
       THEN RemoveAt(q, CHOOSE i \in DOMAIN q : q[i].event = e) ELSE q) = Tail(q)
  BY <1>1, <1>3, <1>4, <1>5, TailByRemoval
<1> QED  BY <1>6, <1>7 DEF q

\* A replay that is flushed is either left at work or begins.
LEMMA FlushedReplay ==
  ASSUME DevicesInv, NEW d \in Device, NEW old,
         drain' = [drain EXCEPT ![d] = Flushed(d, old)]
  PROVE  ReplayKept(d) \/ ReplayEnds(d)
<1>1. drain \in [Device -> DrainType] /\ drain'[d] = Flushed(d, old)
  BY DEF DevicesInv
<1>2. CASE drain[d].pc = "idle"
  BY <1>1, <1>2 DEF Flushed, Started, NoDrain, ReplayEnds
<1>3. CASE drain[d].pc /= "idle"
  BY <1>1, <1>3 DEF Flushed, ReplayKept, DrainType
<1> QED  BY <1>2, <1>3

\* A replay that has done the head of its pass.
LEMMA AdvancedReplay ==
  ASSUME NEW r \in DrainType, r.pass /= <<>>
  PROVE  /\ Advanced(r) \in DrainType
         /\ Advanced(r).pass = Tail(r.pass) /\ Advanced(r).latest = r.latest
         /\ Advanced(r).pc = IF Len(r.pass) > 1 THEN "item" ELSE "list"
<1>1. Tail(r.pass) \in Seq(Item)
  BY HeadTailProperties DEF DrainType
<1> QED  BY <1>1 DEF Advanced, DrainType

LEMMA OtherReplays ==
  ASSUME DevicesInv, NEW d \in Device, NEW e \in Device, d /= e,
         drain' = drain \/ \E x : drain' = [drain EXCEPT ![e] = x],
         queue' = queue \/ \E y : queue' = [queue EXCEPT ![e] = y]
  PROVE  ReplayMoves(d)
<1>1. drain'[d] = drain[d] /\ queue'[d] = queue[d]
  BY DEF DevicesInv
<1> QED  BY <1>1 DEF ReplayMoves, QueueKept, ReplayKept

LEMMA ReturnedReplay ==
  ASSUME DevicesInv, NEW d \in Device, drain' = [drain EXCEPT ![d] = Returned(drain[d])]
  PROVE  ReplayEnds(d)
BY DEF DevicesInv, DrainType, Returned, ReplayEnds

LEMMA EnqueueMoves ==
  ASSUME DevicesInv, NEW d \in Device, Enqueue(d)
  PROVE  ReplayMoves(d)
<1>1. QueueKept(d)
  BY DEF DevicesInv, Enqueue, QueueKept, NoSave
<1>2. CASE drain' = drain
  BY <1>1, <1>2 DEF ReplayMoves, ReplayKept
<1>3. CASE drain' = [drain EXCEPT ![d] = Flushed(d, OldWrites(d))]
  BY <1>1, <1>3, FlushedReplay DEF ReplayMoves
<1> QED  BY <1>2, <1>3 DEF Enqueue

LEMMA ListMoves ==
  ASSUME DevicesInv, NEW d \in Device, ListPass(d)
  PROVE  ReplayMoves(d)
<1>1. queue' = queue /\ drain[d].pc = "list" /\ drain \in [Device -> DrainType]
  BY DEF ListPass, local, DevicesInv
<1>2. CASE queue[d] = <<>>
  <2>1. drain' = [drain EXCEPT ![d] = Returned(drain[d])]
    BY <1>2 DEF ListPass
  <2> QED  BY <1>1, <2>1, ReturnedReplay DEF ReplayMoves, QueueKept
<1>3. CASE queue[d] /= <<>>
  <2>1. drain'[d] = [drain[d] EXCEPT !.pc = "item", !.pass = queue[d]]
    BY <1>1, <1>3 DEF ListPass
  <2>2. Listed(d)
    BY <1>1, <1>3, <2>1 DEF Listed, DrainType
  <2> QED  BY <1>1, <2>2 DEF ReplayMoves
<1> QED  BY <1>2, <1>3

LEMMA DropMoves ==
  ASSUME TInv, PassInv, OrderInv, NEW d \in Device, DropHeldBack(d)
  PROVE  ReplayMoves(d)
<1>1. drain[d].pc = "item" /\ drain \in [Device -> DrainType] /\ queue \in [Device -> Seq(Item)]
  BY DEF DropHeldBack, TInv, DevicesInv
<1>2. queue' = [queue EXCEPT ![d] = Tail(queue[d])]
  BY <1>1, HeadDequeued DEF DropHeldBack
<1>3. drain[d] \in DrainType /\ drain[d].pass /= <<>> /\ drain'[d] = Advanced(drain[d])
  BY <1>1 DEF DropHeldBack, PassInv
<1>4. ItemDone(d)
  BY <1>1, <1>2, <1>3, AdvancedReplay DEF ItemDone
<1> QED  BY <1>4 DEF ReplayMoves

LEMMA SendMoves ==
  ASSUME DevicesInv, NEW d \in Device, SendItem(d)
  PROVE  ReplayMoves(d)
<1>1. queue' = queue /\ drain[d].pc = "item" /\ drain \in [Device -> DrainType]
  BY DEF SendItem, local, DevicesInv
<1>2. CASE drain' = [drain EXCEPT ![d] = Returned(drain[d])]
  BY <1>1, <1>2, ReturnedReplay DEF ReplayMoves, QueueKept
<1>3. CASE drain' = [drain EXCEPT ![d].pc = "sent"]
  <2>1. drain'[d] = [drain[d] EXCEPT !.pc = "sent"]
    BY <1>1, <1>3
  <2>2. ItemSent(d)
    BY <1>1, <2>1 DEF ItemSent, DrainType
  <2> QED  BY <1>1, <2>2 DEF ReplayMoves
<1> QED  BY <1>2, <1>3 DEF SendItem

\* The replay as its answer leaves it, before it moves on.
LEMMA AnsweredReplay ==
  ASSUME TInv, NEW d \in Device, ReplayAnswered(d)
  PROVE  \E r \in DrainType, a \in Answers(d, "drain") :
           /\ drain' = [drain EXCEPT ![d] = Advanced(r)]
           /\ r.pass = drain[d].pass
           /\ r.latest = drain[d].latest \/ (a.status = "saved" /\ r.latest = a.row.revision)
           /\ replies' = replies \ {a}
<1>1. PICK a \in Answers(d, "drain") :
        /\ ReplayAccepted(d, a) \/ ReplayConflicts(d, a) \/ ReplayRefused(d, a)
        /\ replies' = replies \ {a}
  BY DEF ReplayAnswered
<1>2. drain[d] \in DrainType
  BY DEF TInv, DevicesInv
<1>6. a.row.revision \in Nat
  <2>1. a \in Answer
    BY DEF Answers, TInv, ServerInv
  <2> QED  BY <2>1 DEF Answer, RowType
<1>3. CASE ReplayAccepted(d, a) /\ a.row.revision \in Nat
  <2> DEFINE r == [drain[d] EXCEPT !.latest = a.row.revision]
  <2>1. /\ r \in DrainType /\ r.pass = drain[d].pass /\ r.latest = a.row.revision
        /\ drain' = [drain EXCEPT ![d] = Advanced(r)] /\ a.status = "saved"
    BY <1>2, <1>3 DEF DrainType, ReplayAccepted
  <2> QED  BY <1>1, <2>1
<1>4. CASE ReplayConflicts(d, a)
  <2> DEFINE r == [drain[d] EXCEPT !.latched = TRUE]
  <2>1. /\ r \in DrainType /\ r.pass = drain[d].pass /\ r.latest = drain[d].latest
        /\ drain' = [drain EXCEPT ![d] = Advanced(r)]
    BY <1>2, <1>4 DEF DrainType, ReplayConflicts
  <2> QED  BY <1>1, <2>1
<1>5. CASE ReplayRefused(d, a)
  BY <1>1, <1>2, <1>5 DEF ReplayRefused
<1> QED  BY <1>1, <1>3, <1>4, <1>5, <1>6

LEMMA AnswerMoves ==
  ASSUME TInv, PassInv, OrderInv, NEW d \in Device, ReplayAnswered(d)
  PROVE  ReplayMoves(d)
<1>1. /\ drain[d].pc = "sent" /\ drain \in [Device -> DrainType]
      /\ queue \in [Device -> Seq(Item)] /\ drain[d].pass /= <<>>
  BY DEF ReplayAnswered, TInv, DevicesInv, PassInv
<1>2. queue' = [queue EXCEPT ![d] = Tail(queue[d])]
  BY <1>1, HeadDequeued DEF ReplayAnswered
<1>3. PICK r \in DrainType, a \in Answers(d, "drain") :
        /\ drain' = [drain EXCEPT ![d] = Advanced(r)]
        /\ r.pass = drain[d].pass
        /\ r.latest = drain[d].latest \/ (a.status = "saved" /\ r.latest = a.row.revision)
  BY AnsweredReplay
<1>4. /\ drain'[d] = Advanced(r) /\ Advanced(r).pass = Tail(drain[d].pass)
      /\ Advanced(r).latest = r.latest
      /\ Advanced(r).pc = IF Len(drain[d].pass) > 1 THEN "item" ELSE "list"
  BY <1>1, <1>3, AdvancedReplay
<1>5. ItemDone(d)
  BY <1>1, <1>2, <1>3, <1>4 DEF ItemDone
<1> QED  BY <1>5 DEF ReplayMoves

LEMMA ReplayStep ==
  ASSUME TInv, PassInv, OrderInv, [Next]_vars, NEW d \in Device
  PROVE  ReplayMoves(d)
<1>1. DevicesInv
  BY DEF TInv
<1>2. CASE UNCHANGED <<queue, drain>>
  BY <1>2 DEF ReplayMoves, QueueKept, ReplayKept
<1>3. ASSUME NEW e \in Device, Open(e) \/ GoOnline(e) PROVE ReplayMoves(d)
  <2>1. queue' = queue
    BY <1>3 DEF Open, OpenFromCache, OpenFromServer, OpenAfresh, Mount, GoOnline, local
  <2>2. drain' = drain \/ drain' = [drain EXCEPT ![e] = Flushed(e, OldWrites(e))]
    BY <1>3 DEF Open, OpenFromCache, OpenFromServer, OpenAfresh, Mount, GoOnline
  <2>3. CASE d = e
    <3>1. ReplayKept(d) \/ ReplayEnds(d)
      BY <1>1, <2>2, <2>3, FlushedReplay DEF ReplayKept
    <3> QED  BY <2>1, <3>1 DEF ReplayMoves, QueueKept
  <2>4. CASE d /= e
    BY <1>1, <2>1, <2>2, <2>4, OtherReplays
  <2> QED  BY <2>3, <2>4
<1>4. ASSUME NEW e \in Device, Enqueue(e) \/ DrainStep(e) \/ Kill(e), d /= e
      PROVE  ReplayMoves(d)
  <2>1. drain' = drain \/ \E x : drain' = [drain EXCEPT ![e] = x]
    <3>1. CASE ReplayAnswered(e)
      BY <3>1, AnsweredReplay
    <3> QED
      BY <1>4, <3>1 DEF Enqueue, DrainStep, Kill, ListPass, DropHeldBack, SendItem, DrainFails, EndDrain
  <2>2. queue' = queue \/ \E y : queue' = [queue EXCEPT ![e] = y]
    BY <1>4 DEF Enqueue, DrainStep, Kill, ListPass, DropHeldBack, SendItem, DrainFails, EndDrain,
       ReplayAnswered, Dequeue, local
  <2> QED  BY <1>1, <1>4, <2>1, <2>2, OtherReplays
<1>5. CASE Enqueue(d)
  BY <1>1, <1>5, EnqueueMoves
<1>6. CASE DrainStep(d)
  <2>1. CASE ListPass(d)
    BY <1>1, <2>1, ListMoves
  <2>2. CASE DropHeldBack(d)
    BY <2>2, DropMoves
  <2>3. CASE SendItem(d)
    BY <1>1, <2>3, SendMoves
  <2>4. CASE DrainFails(d)
    <3>1. queue' = queue /\ drain' = [drain EXCEPT ![d] = Returned(drain[d])]
      BY <2>4 DEF DrainFails, local
    <3> QED  BY <1>1, <3>1, ReturnedReplay DEF ReplayMoves, QueueKept
  <2>5. CASE ReplayAnswered(d)
    BY <2>5, AnswerMoves
  <2>6. CASE EndDrain(d)
    <3>1. queue' = queue /\ drain'[d] = Finished(d)
      BY <1>1, <2>6 DEF EndDrain, local, DevicesInv
    <3>2. ReplayEnds(d)
      BY <3>1 DEF Finished, Started, NoDrain, ReplayEnds
    <3> QED  BY <3>1, <3>2 DEF ReplayMoves, QueueKept
  <2> QED  BY <1>6, <2>1, <2>2, <2>3, <2>4, <2>5, <2>6 DEF DrainStep
<1>7. CASE Kill(d)
  <2>1. queue' = queue /\ drain'[d] = NoDrain
    BY <1>1, <1>7 DEF Kill, local, DevicesInv
  <2>2. ReplayEnds(d)
    BY <2>1 DEF NoDrain, ReplayEnds
  <2> QED  BY <2>1, <2>2 DEF ReplayMoves, QueueKept
<1>8. \/ UNCHANGED <<queue, drain>>
      \/ \E e \in Device : Open(e) \/ GoOnline(e) \/ Enqueue(e) \/ DrainStep(e) \/ Kill(e)
  BY DrainFrame, QueueFrame DEF DrainStep
<1> QED  BY <1>2, <1>3, <1>4, <1>5, <1>6, <1>7, <1>8

-----------------------------------------------------------------------------
(***************************************************************************)
(* The live save of a device: left alone, at an end, going on with the     *)
(* same write, or begun with an event nobody has had.                      *)
(***************************************************************************)
SaveBegins(d) ==
  /\ save[d].pc = "idle" /\ used.saves < MaxSaves
  /\ used'.saves = used.saves + 1
  /\ save'[d].event = used.saves + 1 /\ save'[d].base = reader[d].base
  /\ save'[d].pc = "inspect" /\ queue'[d] = queue[d] /\ requests' = requests

SaveMoves(d) ==
  \/ save'[d] = save[d]
  \/ save'[d].pc = "idle"
  \/ /\ save[d].pc /= "idle" /\ save'[d].pc \in {"sent", "enqueue"}
     /\ save'[d].event = save[d].event
     /\ save'[d].base = save[d].base /\ save'[d].path = save[d].path
  \/ SaveBegins(d)

LEMMA BeginMoves ==
  ASSUME TInv, NEW d \in Device, BeginSave(d)
  PROVE  save' \in [Device -> SaveType] /\ SaveMoves(d)
<1>1. /\ save \in [Device -> SaveType] /\ reader[d] \in ReaderType /\ used \in UsedType
      /\ save[d].pc = "idle" /\ requests' = requests /\ queue' = queue
  BY DEF TInv, DevicesInv, ServerInv, BeginSave, net
<1>2. CASE UNCHANGED save
  BY <1>1, <1>2 DEF SaveMoves
<1>3. CASE /\ used.saves < MaxSaves /\ Spend("saves")
           /\ save' = [save EXCEPT ![d] = [pc |-> "inspect", event |-> used.saves + 1,
                                           base |-> reader[d].base,
                                           path |-> Head(reader[d].waiting).path]]
  <2> DEFINE s == [pc |-> "inspect", event |-> used.saves + 1, base |-> reader[d].base,
                   path |-> Head(reader[d].waiting).path]
  <2>1. used.saves \in Nat /\ used.saves + 1 \in Event
    BY <1>1, <1>3, Bounds DEF UsedType, Event
  <2>2. Head(reader[d].waiting) \in Link
    BY <1>1, HeadTailProperties DEF BeginSave, ReaderType
  <2>3. s \in SaveType
    BY <1>1, <2>1, <2>2 DEF SaveType, ReaderType, Link
  <2>4. used'.saves = used.saves + 1
    BY <1>1, <1>3 DEF Spend, UsedType
  <2>5. save' = [save EXCEPT ![d] = s] /\ save'[d] = s
    BY <1>1, <1>3
  <2>6. SaveMoves(d)
    BY <1>1, <1>3, <2>4, <2>5 DEF SaveMoves, SaveBegins
  <2> HIDE DEF s
  <2> QED  BY <1>1, <2>3, <2>5, <2>6
<1> QED  BY <1>2, <1>3 DEF BeginSave

LEMMA SaveStepMoves ==
  ASSUME TInv, [Next]_vars
  PROVE  save' \in [Device -> SaveType] /\ \A d \in Device : SaveMoves(d)
<1>1. save \in [Device -> SaveType]
  BY DEF TInv, DevicesInv
<1>2. ASSUME NEW e \in Device, NEW s \in SaveType, save' = [save EXCEPT ![e] = s]
      PROVE  /\ save' \in [Device -> SaveType] /\ save'[e] = s
             /\ \A d \in Device \ {e} : save'[d] = save[d]
  BY <1>1, <1>2
<1>3. ASSUME NEW e \in Device, save' = [save EXCEPT ![e] = NoSave]
      PROVE  save' \in [Device -> SaveType] /\ \A d \in Device : SaveMoves(d)
  BY <1>2, <1>3, Blanks DEF SaveMoves
<1>4. ASSUME NEW e \in Device, NEW pc \in {"sent", "enqueue"}, save[e].pc /= "idle",
             save' = [save EXCEPT ![e].pc = pc]
      PROVE  save' \in [Device -> SaveType] /\ \A d \in Device : SaveMoves(d)
  <2> DEFINE s == [save[e] EXCEPT !.pc = pc]
  <2>1. /\ s \in SaveType /\ s.pc = pc /\ s.event = save[e].event /\ s.base = save[e].base
        /\ s.path = save[e].path
    BY <1>1 DEF SaveType
  <2>2. save' = [save EXCEPT ![e] = s]
    BY <1>4
  <2> HIDE DEF s
  <2> QED  BY <1>2, <1>4, <2>1, <2>2 DEF SaveMoves
<1>5. ASSUME NEW e \in Device, SaveStep(e) \/ Kill(e)
      PROVE  save' \in [Device -> SaveType] /\ \A d \in Device : SaveMoves(d)
  <2>1. CASE BeginSave(e)
    <3>1. \A d \in Device \ {e} : save'[d] = save[d]
      BY <1>1, <2>1 DEF BeginSave
    <3> QED  BY <2>1, <3>1, BeginMoves DEF SaveMoves
  <2>2. CASE InspectQueue(e)
    <3>1. /\ save[e].pc = "inspect"
          /\ save' = [save EXCEPT ![e].pc = "sent"] \/ save' = [save EXCEPT ![e].pc = "enqueue"]
      BY <2>2 DEF InspectQueue
    <3> QED  BY <1>4, <3>1
  <2>3. CASE SaveFails(e)
    BY <1>4, <2>3 DEF SaveFails
  <2>4. CASE Enqueue(e) \/ SaveAnswered(e) \/ Kill(e)
    BY <1>3, <2>4 DEF Enqueue, SaveAnswered, Kill
  <2> QED  BY <1>5, <2>1, <2>2, <2>3, <2>4 DEF SaveStep
<1>6. CASE UNCHANGED save
  BY <1>1, <1>6 DEF SaveMoves
<1> QED  BY <1>5, <1>6, SaveFrame

-----------------------------------------------------------------------------
(***************************************************************************)
(* The types are kept.                                                     *)
(***************************************************************************)
\* An answer is an old one, or that of a request that somebody waits for.
AnswerTo(q, a) ==
  /\ q.waits /\ a.device = q.device /\ a.thread = q.thread
  /\ a.status = "refused" \/ (Handle(q) /\ a.status = PutStatus(row, q))
  /\ a.row = row'

LEMMA AnswersStep ==
  ASSUME TInv, [Next]_vars, NEW a \in replies'
  PROVE  a \in replies \/ \E q \in requests : a \in Answer /\ AnswerTo(q, a) /\ (Handle(q) \/ Refuse(q))
<1>1. requests \subseteq Put /\ row \in RowType
  BY DEF TInv, ServerInv
<1>2. ASSUME NEW d \in Device, NEW T, GiveUp(d, T) PROVE a \in replies
  BY <1>2 DEF GiveUp
<1>3. CASE \E d \in Device : SaveFails(d) \/ DrainFails(d) \/ Kill(d)
  BY <1>2, <1>3 DEF SaveFails, DrainFails, Kill
<1>4. CASE \E d \in Device : SaveAnswered(d) \/ ReplayAnswered(d)
  BY <1>4 DEF SaveAnswered, ReplayAnswered
<1>5. ASSUME NEW q \in requests, Handle(q), a \notin replies
      PROVE  a \in Answer /\ AnswerTo(q, a)
  <2>1. q.waits /\ a = [device |-> q.device, thread |-> q.thread, base |-> q.base,
                        status |-> PutStatus(row, q), row |-> row']
    BY <1>5 DEF Handle
  <2>2. PutStatus(row, q) \in {"saved", "conflict", "refused"}
    BY DEF PutStatus
  <2>3. row' \in RowType
    BY <1>5, HandledRow DEF TInv
  <2> QED  BY <1>1, <1>5, <2>1, <2>2, <2>3 DEF Put, Answer, AnswerTo
<1>6. ASSUME NEW q \in requests, Refuse(q), a \notin replies
      PROVE  a \in Answer /\ AnswerTo(q, a)
  <2>1. q.waits /\ a = [device |-> q.device, thread |-> q.thread, base |-> q.base,
                        status |-> "refused", row |-> row]
    BY <1>6 DEF Refuse
  <2>2. row' = row
    BY <1>6 DEF Refuse, server
  <2> QED  BY <1>1, <1>6, <2>1, <2>2 DEF Put, Answer, AnswerTo
<1>7. CASE UNCHANGED replies
  BY <1>7
<1> QED  BY <1>3, <1>4, <1>5, <1>6, <1>7, RepliesFrame

LEMMA StepRequestsType ==
  ASSUME TInv, PassInv, [Next]_vars PROVE requests' \subseteq Put
<1> SUFFICES ASSUME NEW q \in requests' PROVE q \in Put
  OBVIOUS
<1>1. requests \subseteq Put
  BY DEF TInv, ServerInv
<1>2. ASSUME NEW r \in requests, q = [r EXCEPT !.waits = FALSE] PROVE q \in Put
  <2>1. r \in Put
    BY <1>1
  <2> QED  BY <1>2, <2>1 DEF Put
<1>3. ASSUME NEW d \in Device, save[d].pc = "inspect", q = SaveRequest(d) PROVE q \in Put
  <2>1. save[d] \in SaveType /\ save[d].event \in Event
    BY <1>3 DEF TInv, DevicesInv
  <2> QED  BY <1>3, <2>1 DEF SaveRequest, Request, Put, SaveType, Thread
<1>4. ASSUME NEW d \in Device, drain[d].pc = "item", q = ItemRequest(d) PROVE q \in Put
  <2>1. drain[d] \in DrainType /\ drain[d].pass /= <<>>
    BY <1>4 DEF TInv, DevicesInv, PassInv
  <2>2. Head(drain[d].pass) \in Item
    BY <2>1, HeadTailProperties DEF DrainType
  <2>3. ItemBase(d) \in Nat
    BY <2>1, <2>2 DEF ItemBase, DrainType, Item
  <2> QED  BY <1>4, <2>2, <2>3 DEF ItemRequest, Request, Put, Item, Thread
<1> QED  BY <1>1, <1>2, <1>3, <1>4, RequestsStep

LEMMA StepUsed == ASSUME TInv, [Next]_vars PROVE used' \in UsedType /\ used.saves <= used'.saves
<1>1. used \in UsedType /\ used.saves \in Nat
  BY Bounds DEF TInv, ServerInv, UsedType
<1>2. CASE UNCHANGED used
  BY <1>1, <1>2
<1>3. CASE SpendsOne
  BY <1>1, <1>3, Bounds DEF SpendsOne, Spend, UsedType
<1> QED  BY <1>2, <1>3, UsedFrame

LEMMA StepServerInv == ASSUME TInv, PassInv, [Next]_vars PROVE ServerInv'
<1>1. ServerInv
  BY DEF TInv
<1>2. /\ row' \in RowType /\ log' \in Seq(Entry) /\ row'.revision = Len(log')
      /\ Exists(row') => row'.event = log'[Len(log')].event
  <2>1. CASE UNCHANGED server
    BY <1>1, <2>1 DEF server, ServerInv
  <2>2. CASE \E q \in requests : Handle(q)
    BY <1>1, <2>2, HandledRow
  <2> QED  BY <2>1, <2>2, LogFrame
<1>3. requests' \subseteq Put
  BY StepRequestsType
<1>4. ASSUME NEW a \in replies' PROVE a \in Answer /\ a.row.revision <= Len(log')
  <2>1. CASE a \in replies
    <3>1. a \in Answer /\ a.row.revision <= Len(log) /\ a.row.revision \in Nat
      BY <1>1, <2>1 DEF ServerInv, Answer, RowType
    <3>2. Len(log) \in Nat /\ Len(log') \in Nat /\ Len(log) <= Len(log')
      BY <1>1, LogGrows
    <3> QED  BY <3>1, <3>2
  <2>2. CASE \E q \in requests : a \in Answer /\ AnswerTo(q, a)
    <3>1. Len(log') \in Nat /\ a.row = row'
      BY <1>1, <2>2, LogGrows DEF AnswerTo
    <3> QED  BY <1>2, <2>2, <3>1
  <2> QED  BY <2>1, <2>2, AnswersStep
<1>5. online' \in [Device -> BOOLEAN]
  <2>1. online \in [Device -> BOOLEAN]
    BY <1>1 DEF ServerInv
  <2> QED  BY <2>1, OnlineFrame DEF GoOffline, GoOnline
<1>6. used' \in UsedType
  BY StepUsed
<1> QED  BY <1>2, <1>3, <1>4, <1>5, <1>6 DEF ServerInv

\* Readers.
LEMMA EmittedType ==
  ASSUME NEW r \in ReaderType, NEW path \in Path
  PROVE  Emitted(r, path) \in ReaderType /\ Emitted(r, path).base = r.base
<1>1. CASE r.signed /\ r.sig = path
  BY <1>1 DEF Emitted
<1>2. CASE ~ (r.signed /\ r.sig = path)
  <2> DEFINE w == Append(r.waiting, [path |-> path, generation |-> r.generation])
  <2>1. [path |-> path, generation |-> r.generation] \in Link /\ r.waiting \in Seq(Link)
    BY DEF ReaderType, Link
  <2>2. w \in Seq(Link)
    BY <2>1, AppendProperties
  <2>3. Emitted(r, path) = [r EXCEPT !.signed = TRUE, !.sig = path, !.waiting = w]
    BY <1>2 DEF Emitted
  <2> HIDE DEF w
  <2> QED  BY <2>2, <2>3 DEF ReaderType
<1> QED  BY <1>1, <1>2

\* The reader of d is replaced by one that is not ahead of the server.
LEMMA ReaderReplaced ==
  ASSUME DevicesInv, NEW d \in Device, NEW r \in ReaderType, r.base <= Len(log),
         reader' = [reader EXCEPT ![d] = r]
  PROVE  /\ reader' \in [Device -> ReaderType]
         /\ \A e \in Device : reader'[e].base <= Len(log)
<1>1. reader \in [Device -> ReaderType] /\ \A e \in Device : reader[e].base <= Len(log)
  BY DEF DevicesInv
<1> QED  BY <1>1

LEMMA MountedReader ==
  ASSUME NEW base \in Nat, NEW path \in Path
  PROVE  Mounted(base, path) \in ReaderType /\ Mounted(base, path).base = base
<1> DEFINE r == [Closed EXCEPT !.open = TRUE, !.base = base, !.path = path]
<1>1. r \in ReaderType /\ r.base = base
  BY Blanks DEF ReaderType
<1> HIDE DEF r
<1>2. Emitted(r, path) \in ReaderType /\ Emitted(r, path).base = base
  BY <1>1, EmittedType
<1> QED  BY <1>2 DEF Mounted, r

LEMMA OpenReader ==
  ASSUME TInv, NEW d \in Device, Open(d)
  PROVE  \E r \in ReaderType : r.base <= Len(log) /\ reader' = [reader EXCEPT ![d] = r]
<1>1. /\ cache[d] \in CacheType /\ cache[d].revision <= Len(log)
      /\ row \in RowType /\ row.revision = Len(log) /\ Len(log) \in Nat
  BY LenProperties DEF TInv, DevicesInv, ServerInv
<1>2. ASSUME NEW base \in Nat, base <= Len(log), NEW path \in Path, Mount(d, base, path)
      PROVE  \E r \in ReaderType : r.base <= Len(log) /\ reader' = [reader EXCEPT ![d] = r]
  <2>1. reader' = [reader EXCEPT ![d] = Mounted(base, path)]
    BY <1>2 DEF Mount
  <2> QED  BY <1>2, <2>1, MountedReader
<1>3. CASE OpenFromCache(d)
  BY <1>1, <1>2, <1>3 DEF OpenFromCache, CacheType
<1>4. CASE OpenFromServer(d)
  BY <1>1, <1>2, <1>4 DEF OpenFromServer, RowType
<1>5. CASE OpenAfresh(d)
  BY <1>1, <1>2, <1>5, EmptyPath DEF OpenAfresh
<1> QED  BY <1>3, <1>4, <1>5 DEF Open

LEMMA ChoosingReader ==
  ASSUME TInv, NEW d \in Device, Choose(d)
  PROVE  \E r \in ReaderType : r.base <= Len(log) /\ reader' = [reader EXCEPT ![d] = r]
<1> DEFINE path == Append(reader[d].path, used.choices + 1)
           r == [reader[d] EXCEPT !.path = path]
<1>1. reader[d] \in ReaderType /\ reader[d].base <= Len(log)
  BY DEF TInv, DevicesInv
<1>2. used.choices + 1 \in 1 .. MaxChoices
  BY Bounds DEF Choose, TInv, ServerInv, UsedType
<1>3. path \in Path
  <2>1. reader[d].path \in Seq(1 .. MaxChoices)
    BY <1>1 DEF ReaderType, Path
  <2> QED  BY <1>2, <2>1, AppendProperties DEF Path
<1>4. reader' = [reader EXCEPT ![d] = Emitted(r, path)]
  BY DEF Choose
<1> HIDE DEF path
<1>5. r \in ReaderType /\ r.base = reader[d].base
  BY <1>1, <1>3 DEF ReaderType
<1> HIDE DEF r
<1> QED  BY <1>1, <1>3, <1>4, <1>5, EmittedType

LEMMA BeginningReader ==
  ASSUME TInv, NEW d \in Device, BeginSave(d)
  PROVE  \E r \in ReaderType : r.base <= Len(log) /\ reader' = [reader EXCEPT ![d] = r]
<1>1. reader[d] \in ReaderType /\ reader[d].base <= Len(log) /\ reader[d].waiting /= <<>>
  BY DEF TInv, DevicesInv, BeginSave
<1>2. Tail(reader[d].waiting) \in Seq(Link)
  BY <1>1, HeadTailProperties DEF ReaderType
<1>3. CASE reader' = [reader EXCEPT ![d].waiting = Tail(reader[d].waiting)]
  <2> DEFINE r == [reader[d] EXCEPT !.waiting = Tail(reader[d].waiting)]
  <2>1. r \in ReaderType /\ r.base = reader[d].base
    BY <1>1, <1>2 DEF ReaderType
  <2>2. reader' = [reader EXCEPT ![d] = r]
    BY <1>3
  <2> QED  BY <1>1, <2>1, <2>2
<1>4. CASE reader' = [reader EXCEPT ![d].waiting = Tail(reader[d].waiting),
                                    ![d].signed = FALSE, ![d].sig = <<>>]
  <2> DEFINE r == [reader[d] EXCEPT !.waiting = Tail(reader[d].waiting), !.signed = FALSE, !.sig = <<>>]
  <2>1. r \in ReaderType /\ r.base = reader[d].base
    BY <1>1, <1>2, EmptyPath DEF ReaderType
  <2>2. reader' = [reader EXCEPT ![d] = r]
    BY <1>1, <1>4 DEF TInv, DevicesInv
  <2> QED  BY <1>1, <2>1, <2>2
<1> QED  BY <1>3, <1>4 DEF BeginSave

LEMMA AnsweredReader ==
  ASSUME TInv, NEW d \in Device, SaveAnswered(d)
  PROVE  \/ reader' = reader
         \/ \E r \in ReaderType : r.base <= Len(log) /\ reader' = [reader EXCEPT ![d] = r]
<1>1. reader[d] \in ReaderType
  BY DEF TInv, DevicesInv
<1>2. PICK a \in Answers(d, "save") : SaveAccepted(d, a) \/ SaveConflicts(d, a) \/ SaveRefused(a)
  BY DEF SaveAnswered
<1>3. a.row.revision \in Nat /\ a.row.revision <= Len(log) /\ a.row.path \in Path
  <2>1. a \in Answer /\ a.row.revision <= Len(log)
    BY DEF Answers, TInv, ServerInv
  <2> QED  BY <2>1 DEF Answer, RowType
<1>4. CASE SaveRefused(a)
  BY <1>4 DEF SaveRefused
<1>5. CASE SaveAccepted(d, a)
  <2> DEFINE r == [reader[d] EXCEPT !.base = a.row.revision]
  <2>1. r \in ReaderType /\ r.base = a.row.revision
    BY <1>1, <1>3 DEF ReaderType
  <2>2. reader' = [reader EXCEPT ![d] = r]
    BY <1>5 DEF SaveAccepted
  <2> QED  BY <1>3, <2>1, <2>2
<1>6. CASE SaveConflicts(d, a)
  <2> DEFINE r == [reader[d] EXCEPT !.base = a.row.revision, !.path = a.row.path,
                                    !.generation = reader[d].generation + 1]
  <2>0. reader[d].generation + 1 \in Nat
    BY <1>1 DEF ReaderType
  <2>1. r \in ReaderType /\ r.base = a.row.revision
    BY <1>1, <1>3, <2>0 DEF ReaderType
  <2>2. reader' = [reader EXCEPT ![d] = Emitted(r, a.row.path)]
    BY <1>6 DEF SaveConflicts
  <2> HIDE DEF r
  <2> QED  BY <1>3, <2>1, <2>2, EmittedType
<1> QED  BY <1>2, <1>4, <1>5, <1>6

LEMMA StepReaders ==
  ASSUME TInv, [Next]_vars
  PROVE  /\ reader' \in [Device -> ReaderType]
         /\ \A d \in Device : reader'[d].base <= Len(log)
<1>0. DevicesInv /\ Len(log) \in Nat
  BY LenProperties DEF TInv, ServerInv
<1>1. CASE UNCHANGED reader
  BY <1>0, <1>1 DEF DevicesInv
<1>2. ASSUME NEW d \in Device, Open(d) \/ Choose(d) \/ BeginSave(d) \/ SaveAnswered(d) \/ Kill(d)
      PROVE  UNCHANGED reader \/
               \E r \in ReaderType : r.base <= Len(log) /\ reader' = [reader EXCEPT ![d] = r]
  <2>1. CASE Kill(d)
    <3>1. reader' = [reader EXCEPT ![d] = Closed]
      BY <2>1 DEF Kill
    <3>2. Closed \in ReaderType /\ Closed.base <= Len(log)
      BY <1>0, Blanks
    <3> QED  BY <3>1, <3>2
  <2> QED  BY <1>2, <2>1, OpenReader, ChoosingReader, BeginningReader, AnsweredReader
<1>3. ASSUME NEW d \in Device, NEW r \in ReaderType, r.base <= Len(log),
             reader' = [reader EXCEPT ![d] = r]
      PROVE  /\ reader' \in [Device -> ReaderType]
             /\ \A e \in Device : reader'[e].base <= Len(log)
  BY <1>0, <1>3, ReaderReplaced
<1> QED  BY <1>1, <1>2, <1>3, ReaderFrame

\* Caches.
LEMMA StepCaches ==
  ASSUME TInv, [Next]_vars
  PROVE  /\ cache' \in [Device -> CacheType]
         /\ \A d \in Device : cache'[d].revision <= Len(log)
<1>0. /\ cache \in [Device -> CacheType] /\ \A d \in Device : cache[d].revision <= Len(log)
      /\ reader \in [Device -> ReaderType] /\ \A d \in Device : reader[d].base <= Len(log)
      /\ row \in RowType /\ row.revision = Len(log) /\ Len(log) \in Nat
  BY LenProperties DEF TInv, ServerInv, DevicesInv
<1>1. ASSUME NEW d \in Device, NEW n \in Nat, n <= Len(log), NEW path \in Path,
             cache' = [cache EXCEPT ![d] = Cached(n, path)]
      PROVE  /\ cache' \in [Device -> CacheType]
             /\ \A e \in Device : cache'[e].revision <= Len(log)
  <2>1. Cached(n, path) \in CacheType /\ Cached(n, path).revision = n
    BY DEF Cached, CacheType
  <2> QED  BY <1>0, <1>1, <2>1
<1>2. CASE UNCHANGED cache
  BY <1>0, <1>2
<1>3. ASSUME NEW d \in Device, OpenFromServer(d)
      PROVE  cache' = [cache EXCEPT ![d] = Cached(row.revision, row.path)]
  BY <1>3 DEF OpenFromServer
<1>4. row.revision \in Nat /\ row.revision <= Len(log) /\ row.path \in Path
  BY <1>0 DEF RowType
<1>5. ASSUME NEW d \in Device, BeginSave(d)
      PROVE  \/ UNCHANGED cache
             \/ \E path \in Path : cache' = [cache EXCEPT ![d] = Cached(reader[d].base, path)]
  <2>1. Head(reader[d].waiting) \in Link
    BY <1>0, <1>5, HeadTailProperties DEF BeginSave, ReaderType
  <2> QED  BY <1>5, <2>1 DEF BeginSave, Link
<1>6. \A d \in Device : reader[d].base \in Nat
  BY <1>0 DEF ReaderType
<1>7. ASSUME NEW a \in replies
      PROVE  a.row.revision \in Nat /\ a.row.revision <= Len(log) /\ a.row.path \in Path
  <2>1. a \in Answer /\ a.row.revision <= Len(log)
    BY DEF TInv, ServerInv
  <2> QED  BY <2>1 DEF Answer, RowType
<1>8. ASSUME NEW d \in Device, SaveAnswered(d) \/ ReplayAnswered(d)
      PROVE  \/ UNCHANGED cache
             \/ \E a \in replies : cache' = [cache EXCEPT ![d] = Cached(a.row.revision, a.row.path)]
  BY <1>8 DEF SaveAnswered, ReplayAnswered, SaveAccepted, SaveConflicts, SaveRefused,
     ReplayAccepted, ReplayConflicts, ReplayRefused, Answers
<1>9. CASE \E d \in Device : OpenFromServer(d)
  BY <1>1, <1>3, <1>4, <1>9
<1>10. CASE \E d \in Device : BeginSave(d)
  BY <1>0, <1>1, <1>2, <1>5, <1>6, <1>10
<1>11. CASE \E d \in Device : SaveAnswered(d) \/ ReplayAnswered(d)
  BY <1>1, <1>2, <1>7, <1>8, <1>11
<1> QED  BY <1>2, <1>9, <1>10, <1>11, CacheFrame

\* Queues.
LEMMA StepQueues ==
  ASSUME TInv, PassInv, OrderInv, [Next]_vars
  PROVE  queue' \in [Device -> Seq(Item)]
<1>0. queue \in [Device -> Seq(Item)]
  BY DEF TInv, DevicesInv
<1>1. CASE UNCHANGED queue
  BY <1>0, <1>1
<1>2. ASSUME NEW d \in Device, Enqueue(d) PROVE queue' \in [Device -> Seq(Item)]
  <2> DEFINE w == [event |-> save[d].event, base |-> save[d].base, path |-> save[d].path]
  <2>1. save[d] \in SaveType /\ save[d].event \in Event
    BY <1>2 DEF Enqueue, TInv, DevicesInv
  <2>2. w \in Item
    BY <2>1 DEF SaveType, Item
  <2>3. queue' = [queue EXCEPT ![d] = Append(queue[d], w)]
    BY <1>2 DEF Enqueue
  <2> HIDE DEF w
  <2>4. Append(queue[d], w) \in Seq(Item)
    BY <1>0, <2>2, AppendProperties
  <2> QED  BY <1>0, <2>3, <2>4
<1>3. ASSUME NEW d \in Device, DropHeldBack(d) \/ ReplayAnswered(d)
      PROVE  queue' \in [Device -> Seq(Item)]
  <2>1. drain[d].pc \in {"item", "sent"} /\ Dequeue(d, Head(drain[d].pass).event)
    BY <1>3 DEF DropHeldBack, ReplayAnswered
  <2>2. queue' = [queue EXCEPT ![d] = Tail(queue[d])]
    BY <2>1, HeadDequeued
  <2>3. queue[d] /= <<>> /\ queue[d] \in Seq(Item)
    <3>1. /\ drain[d].pass \in Seq(Item) /\ drain[d].pass /= <<>>
          /\ Len(drain[d].pass) <= Len(queue[d])
      BY <2>1 DEF PassInv, TInv, DevicesInv, DrainType
    <3>2. Len(drain[d].pass) \in Nat \ {0} /\ Len(queue[d]) \in Nat /\ queue[d] \in Seq(Item)
      BY <1>0, <3>1, EmptySeq, LenProperties
    <3> QED  BY <3>1, <3>2, EmptySeq
  <2>4. Tail(queue[d]) \in Seq(Item)
    BY <2>3, HeadTailProperties
  <2> QED  BY <1>0, <2>2, <2>4
<1> QED  BY <1>1, <1>2, <1>3, QueueFrame

\* Replays.
LEMMA OldEvents == ASSUME TInv, NEW d \in Device PROVE OldWrites(d) \subseteq Event
<1>1. queue[d] \in Seq(Item) /\ (save[d].pc = "enqueue" => save[d].event \in Event)
  BY DEF TInv, DevicesInv
<1>2. \A i \in DOMAIN queue[d] : queue[d][i].event \in Event
  <2>1. DOMAIN queue[d] = 1 .. Len(queue[d])
    BY <1>1, LenProperties
  <2>2. ASSUME NEW i \in DOMAIN queue[d] PROVE queue[d][i] \in Item
    BY <1>1, <2>1, ElementOfSeq
  <2> QED  BY <2>2 DEF Item
<1> QED  BY <1>1, <1>2 DEF OldWrites

LEMMA ReplayTypes ==
  ASSUME TInv, NEW d \in Device
  PROVE  /\ Flushed(d, OldWrites(d)) \in DrainType
         /\ Finished(d) \in DrainType
         /\ Returned(drain[d]) \in DrainType
<1>1. drain[d] \in DrainType /\ OldWrites(d) \in SUBSET Event
  BY OldEvents DEF TInv, DevicesInv
<1> HIDE DEF OldWrites
<1>2. Started(OldWrites(d)) \in DrainType
  BY <1>1, Blanks DEF Started, DrainType
<1>3. [drain[d] EXCEPT !.rerun = TRUE] \in DrainType /\ Returned(drain[d]) \in DrainType
  BY <1>1 DEF DrainType, Returned
<1> QED  BY <1>2, <1>3, Blanks DEF Flushed, Finished

LEMMA StepReplays ==
  ASSUME TInv, PassInv, OrderInv, [Next]_vars
  PROVE  drain' \in [Device -> DrainType]
<1>0. drain \in [Device -> DrainType] /\ queue \in [Device -> Seq(Item)]
  BY DEF TInv, DevicesInv
<1>1. CASE UNCHANGED drain
  BY <1>0, <1>1
<1>2. ASSUME NEW d \in Device, NEW r \in DrainType, drain' = [drain EXCEPT ![d] = r]
      PROVE  drain' \in [Device -> DrainType]
  BY <1>0, <1>2
<1>3. ASSUME NEW d \in Device, Open(d) \/ Enqueue(d) \/ GoOnline(d)
      PROVE  drain' \in [Device -> DrainType]
  <2>1. UNCHANGED drain \/ drain' = [drain EXCEPT ![d] = Flushed(d, OldWrites(d))]
    BY <1>3 DEF Open, OpenFromCache, OpenFromServer, OpenAfresh, Mount, Enqueue, GoOnline
  <2> QED  BY <1>1, <1>2, <2>1, ReplayTypes
<1>4. ASSUME NEW d \in Device, Kill(d) PROVE drain' \in [Device -> DrainType]
  BY <1>2, <1>4, Blanks DEF Kill
<1>5. ASSUME NEW d \in Device, DrainStep(d) PROVE drain' \in [Device -> DrainType]
  <2>1. CASE ListPass(d)
    <3>1. [drain[d] EXCEPT !.pc = "item", !.pass = queue[d]] \in DrainType
      BY <1>0 DEF DrainType
    <3>2. \/ drain' = [drain EXCEPT ![d] = Returned(drain[d])]
          \/ drain' = [drain EXCEPT ![d] = [drain[d] EXCEPT !.pc = "item", !.pass = queue[d]]]
      BY <2>1 DEF ListPass
    <3> QED  BY <1>2, <3>1, <3>2, ReplayTypes
  <2>2. CASE DropHeldBack(d)
    <3>1. drain[d].pass /= <<>> /\ drain' = [drain EXCEPT ![d] = Advanced(drain[d])]
      BY <2>2 DEF DropHeldBack, PassInv
    <3> QED  BY <1>0, <1>2, <3>1, AdvancedReplay
  <2>3. CASE SendItem(d)
    <3>1. [drain[d] EXCEPT !.pc = "sent"] \in DrainType
      BY <1>0 DEF DrainType
    <3>2. \/ drain' = [drain EXCEPT ![d] = Returned(drain[d])]
          \/ drain' = [drain EXCEPT ![d] = [drain[d] EXCEPT !.pc = "sent"]]
      BY <2>3 DEF SendItem
    <3> QED  BY <1>2, <3>1, <3>2, ReplayTypes
  <2>4. CASE DrainFails(d)
    BY <1>2, <2>4, ReplayTypes DEF DrainFails
  <2>5. CASE ReplayAnswered(d)
    <3>1. drain[d].pass /= <<>>
      BY <2>5 DEF ReplayAnswered, PassInv
    <3>2. PICK r \in DrainType : drain' = [drain EXCEPT ![d] = Advanced(r)] /\ r.pass = drain[d].pass
      BY <2>5, AnsweredReplay
    <3> QED  BY <1>2, <3>1, <3>2, AdvancedReplay
  <2>6. CASE EndDrain(d)
    BY <1>2, <2>6, ReplayTypes DEF EndDrain
  <2> QED  BY <1>5, <2>1, <2>2, <2>3, <2>4, <2>5, <2>6 DEF DrainStep
<1> QED  BY <1>1, <1>3, <1>4, <1>5, DrainFrame

LEMMA StepDevicesInv ==
  ASSUME TInv, PassInv, OrderInv, [Next]_vars PROVE DevicesInv'
<1>1. Len(log) \in Nat /\ Len(log') \in Nat /\ Len(log) <= Len(log')
  BY LogGrows DEF TInv
<1>2. cache' \in [Device -> CacheType] /\ reader' \in [Device -> ReaderType]
  BY StepCaches, StepReaders
<1>3. ASSUME NEW d \in Device
      PROVE  cache'[d].revision <= Len(log') /\ reader'[d].base <= Len(log')
  <2>1. cache'[d].revision \in Nat /\ reader'[d].base \in Nat
    BY <1>2 DEF CacheType, ReaderType
  <2> QED  BY <1>1, <2>1, StepCaches, StepReaders
<1>4. ASSUME NEW d \in Device, save'[d].pc /= "idle" PROVE save'[d].event \in Event
  <2>1. SaveMoves(d) /\ (save[d].pc /= "idle" => save[d].event \in Event)
    BY SaveStepMoves DEF TInv, DevicesInv
  <2>2. CASE SaveBegins(d)
    BY <2>2, Bounds DEF SaveBegins, Event, TInv, ServerInv, UsedType
  <2> QED  BY <1>4, <2>1, <2>2 DEF SaveMoves
<1> QED  BY <1>2, <1>3, <1>4, StepQueues, StepReplays, SaveStepMoves DEF DevicesInv

-----------------------------------------------------------------------------
(***************************************************************************)
(* Pass and order are kept.                                                *)
(***************************************************************************)
LEMMA QueueElements ==
  ASSUME TInv, NEW d \in Device
  PROVE  /\ queue[d] \in Seq(Item) /\ Len(queue[d]) \in Nat
         /\ \A i \in 1 .. Len(queue[d]) : /\ queue[d][i].event \in Nat /\ queue[d][i].event \in Event
                                          /\ queue[d][i].base \in Nat
<1>1. queue[d] \in Seq(Item) /\ Len(queue[d]) \in Nat
  BY LenProperties DEF TInv, DevicesInv
<1>2. ASSUME NEW i \in 1 .. Len(queue[d])
      PROVE  queue[d][i].event \in Nat /\ queue[d][i].event \in Event /\ queue[d][i].base \in Nat
  <2>1. queue[d][i] \in Item
    BY <1>1, ElementOfSeq
  <2> QED  BY <2>1, Bounds DEF Item, Event
<1> QED  BY <1>1, <1>2

LEMMA PassElements ==
  ASSUME TInv, PassInv, NEW d \in Device, drain[d].pc \in {"item", "sent"}
  PROVE  /\ drain[d].pass \in Seq(Item) /\ Len(drain[d].pass) \in Nat \ {0}
         /\ Len(drain[d].pass) <= Len(queue[d])
         /\ Head(drain[d].pass) = queue[d][1] /\ 1 \in 1 .. Len(queue[d]) /\ queue[d] /= <<>>
<1>1. drain[d].pass \in Seq(Item) /\ drain[d].pass /= <<>>
  BY DEF TInv, DevicesInv, DrainType, PassInv
<1>2. Len(drain[d].pass) \in Nat \ {0}
  BY <1>1, EmptySeq
<1>3. queue[d] \in Seq(Item) /\ Len(queue[d]) \in Nat /\ Len(drain[d].pass) <= Len(queue[d])
  BY QueueElements DEF PassInv
<1>4. drain[d].pass[1] = queue[d][1]
  <2>1. \A i \in 1 .. Len(drain[d].pass) : drain[d].pass[i] = queue[d][i]
    BY DEF PassInv
  <2> QED  BY <1>1, <1>2, <1>3, <2>1
<1>5. Head(drain[d].pass) = drain[d].pass[1]
  BY <1>1
<1>6. queue[d] /= <<>> /\ 1 \in 1 .. Len(queue[d])
  <2>1. Len(queue[d]) /= 0
    BY <1>2, <1>3
  <2>2. 1 \in 1 .. Len(queue[d])
    BY <1>3, <2>1
  <2> QED  BY <1>3, <2>1, <2>2, EmptySeq
<1> QED  BY <1>1, <1>2, <1>3, <1>4, <1>5, <1>6

\* The live save's write goes to the end.
QueueLonger(d) ==
  /\ save[d].pc /= "idle" /\ save'[d].pc = "idle"
  /\ Len(queue'[d]) = Len(queue[d]) + 1
  /\ \A i \in 1 .. Len(queue[d]) : queue'[d][i] = queue[d][i]
  /\ queue'[d][Len(queue[d]) + 1].event = save[d].event
  /\ queue'[d][Len(queue[d]) + 1].base = save[d].base
  /\ queue'[d][Len(queue[d]) + 1].path = save[d].path

QueueShorter(d) ==
  /\ Len(queue'[d]) = Len(queue[d]) - 1
  /\ \A i \in 1 .. Len(queue'[d]) : queue'[d][i] = queue[d][i + 1]

LEMMA QueueKeptFacts ==
  ASSUME TInv, NEW d \in Device, QueueKept(d)
  PROVE  queue'[d] = queue[d] \/ QueueLonger(d)
<1>1. queue[d] \in Seq(Item)
  BY QueueElements
<1>2. ASSUME save[d].pc = "enqueue", save'[d].pc = "idle",
             queue'[d] = Append(queue[d], [event |-> save[d].event, base |-> save[d].base,
                                           path |-> save[d].path])
      PROVE  QueueLonger(d)
  <2> DEFINE w == [event |-> save[d].event, base |-> save[d].base, path |-> save[d].path]
  <2>1. save[d] \in SaveType /\ save[d].event \in Event
    BY <1>2 DEF TInv, DevicesInv
  <2>2. w \in Item /\ w.event = save[d].event /\ w.base = save[d].base /\ w.path = save[d].path
    BY <2>1 DEF SaveType, Item
  <2>3. queue'[d] = Append(queue[d], w)
    BY <1>2
  <2> HIDE DEF w
  <2>4. /\ Len(queue'[d]) = Len(queue[d]) + 1
        /\ \A i \in 1 .. Len(queue[d]) : queue'[d][i] = queue[d][i]
        /\ queue'[d][Len(queue[d]) + 1] = w
    BY <1>1, <2>2, <2>3, AppendProperties
  <2> QED  BY <1>2, <2>2, <2>4 DEF QueueLonger
<1> QED  BY <1>2 DEF QueueKept

LEMMA QueueStep ==
  ASSUME TInv, PassInv, OrderInv, [Next]_vars, NEW d \in Device
  PROVE  queue'[d] = queue[d] \/ QueueLonger(d) \/ (ItemDone(d) /\ QueueShorter(d))
<1>1. queue[d] \in Seq(Item)
  BY QueueElements
<1>2. CASE ItemDone(d)
  <2>1. queue[d] /= <<>> /\ queue'[d] = Tail(queue[d])
    BY <1>2, PassElements DEF ItemDone
  <2>2. QueueShorter(d)
    BY <1>1, <2>1, HeadTailProperties DEF QueueShorter
  <2> QED  BY <1>2, <2>2
<1>3. ReplayMoves(d)
  BY ReplayStep
<1> QED  BY <1>2, <1>3, QueueKeptFacts DEF ReplayMoves

\* A write that is queued after a step was queued before, or was the live save's.
LEMMA QueuedBefore ==
  ASSUME TInv, PassInv, OrderInv, [Next]_vars, NEW d \in Device, NEW i \in 1 .. Len(queue'[d])
  PROVE  \/ \E j \in 1 .. Len(queue[d]) : queue'[d][i] = queue[d][j]
         \/ /\ save[d].pc /= "idle" /\ save'[d].pc = "idle"
            /\ queue'[d][i].event = save[d].event /\ queue'[d][i].base = save[d].base
            /\ queue'[d][i].path = save[d].path
<1>1. Len(queue[d]) \in Nat
  BY QueueElements
<1>2. CASE QueueLonger(d)
  <2>1. i \in 1 .. Len(queue[d]) \/ i = Len(queue[d]) + 1
    BY <1>1, <1>2 DEF QueueLonger
  <2> QED  BY <1>2, <2>1 DEF QueueLonger
<1>3. CASE QueueShorter(d)
  <2>1. i + 1 \in 1 .. Len(queue[d])
    BY <1>1, <1>3 DEF QueueShorter
  <2> QED  BY <1>3, <2>1 DEF QueueShorter
<1> QED  BY <1>2, <1>3, QueueStep

LEMMA StepOrderInv ==
  ASSUME TInv, PassInv, OrderInv, [Next]_vars PROVE OrderInv'
<1> SUFFICES ASSUME NEW d \in Device
             PROVE  /\ \A i, j \in 1 .. Len(queue'[d]) : i < j => queue'[d][i].event < queue'[d][j].event
                    /\ save'[d].pc /= "idle" =>
                         \A i \in 1 .. Len(queue'[d]) : queue'[d][i].event < save'[d].event
                    /\ \A i \in 1 .. Len(queue'[d]) : queue'[d][i].event <= used'.saves
                    /\ save'[d].pc /= "idle" => save'[d].event <= used'.saves
  BY DEF OrderInv
<1>1. /\ used.saves \in Nat /\ used'.saves \in Nat /\ used.saves <= used'.saves
      /\ save[d].pc /= "idle" => save[d].event \in Nat /\ save[d].event <= used.saves
  <2>1. used \in UsedType /\ used' \in UsedType /\ used.saves <= used'.saves
    BY StepUsed DEF TInv, ServerInv
  <2>2. save[d].pc /= "idle" => save[d].event \in Event /\ save[d].event <= used.saves
    BY DEF TInv, DevicesInv, OrderInv
  <2> QED  BY <2>1, <2>2, Bounds DEF UsedType, Event
<1>2. /\ Len(queue[d]) \in Nat
      /\ \A i \in 1 .. Len(queue[d]) : /\ queue[d][i].event \in Nat
                                       /\ queue[d][i].event <= used.saves
                                       /\ save[d].pc /= "idle" => queue[d][i].event < save[d].event
      /\ \A i, j \in 1 .. Len(queue[d]) : i < j => queue[d][i].event < queue[d][j].event
  BY QueueElements DEF OrderInv
<1>3. SaveMoves(d)
  BY SaveStepMoves
<1>4. \A i, j \in 1 .. Len(queue'[d]) : i < j => queue'[d][i].event < queue'[d][j].event
  <2>1. CASE queue'[d] = queue[d]
    BY <1>2, <2>1
  <2>2. CASE QueueLonger(d)
    <3> SUFFICES ASSUME NEW i \in 1 .. Len(queue'[d]), NEW j \in 1 .. Len(queue'[d]), i < j
                 PROVE  queue'[d][i].event < queue'[d][j].event
      OBVIOUS
    <3>1. i \in 1 .. Len(queue[d])
      BY <1>2, <2>2 DEF QueueLonger
    <3>2. CASE j \in 1 .. Len(queue[d])
      BY <1>2, <2>2, <3>1, <3>2 DEF QueueLonger
    <3>3. CASE j = Len(queue[d]) + 1
      BY <1>2, <2>2, <3>1, <3>3 DEF QueueLonger
    <3>4. j \in 1 .. Len(queue[d]) \/ j = Len(queue[d]) + 1
      BY <1>2, <2>2 DEF QueueLonger
    <3> QED  BY <3>2, <3>3, <3>4
  <2>3. CASE QueueShorter(d)
    <3> SUFFICES ASSUME NEW i \in 1 .. Len(queue'[d]), NEW j \in 1 .. Len(queue'[d]), i < j
                 PROVE  queue'[d][i].event < queue'[d][j].event
      OBVIOUS
    <3>1. i + 1 \in 1 .. Len(queue[d]) /\ j + 1 \in 1 .. Len(queue[d]) /\ i + 1 < j + 1
      BY <1>2, <2>3 DEF QueueShorter
    <3> QED  BY <1>2, <2>3, <3>1 DEF QueueShorter
  <2> QED  BY <2>1, <2>2, <2>3, QueueStep
<1>5. ASSUME NEW i \in 1 .. Len(queue'[d]) PROVE queue'[d][i].event <= used'.saves
  <2>1. CASE \E j \in 1 .. Len(queue[d]) : queue'[d][i] = queue[d][j]
    BY <1>1, <1>2, <2>1
  <2>2. CASE save[d].pc /= "idle" /\ queue'[d][i].event = save[d].event
    BY <1>1, <2>2
  <2> QED  BY <2>1, <2>2, QueuedBefore
<1>6. ASSUME NEW i \in 1 .. Len(queue'[d]), save'[d].pc /= "idle"
      PROVE  queue'[d][i].event < save'[d].event
  <2>1. PICK j \in 1 .. Len(queue[d]) : queue'[d][i] = queue[d][j]
    BY <1>6, QueuedBefore
  <2>2. CASE SaveBegins(d)
    BY <1>1, <1>2, <2>1, <2>2 DEF SaveBegins
  <2>3. CASE save[d].pc /= "idle" /\ save'[d].event = save[d].event
    BY <1>2, <2>1, <2>3
  <2> QED  BY <1>3, <1>6, <2>2, <2>3 DEF SaveMoves
<1>7. ASSUME save'[d].pc /= "idle" PROVE save'[d].event <= used'.saves
  BY <1>1, <1>3, <1>7 DEF SaveMoves, SaveBegins
<1> QED  BY <1>4, <1>5, <1>6, <1>7

LEMMA StepPassInv ==
  ASSUME TInv, PassInv, OrderInv, [Next]_vars PROVE PassInv'
<1> SUFFICES ASSUME NEW d \in Device, drain'[d].pc \in {"item", "sent"}
             PROVE  /\ drain'[d].pass /= <<>> /\ Len(drain'[d].pass) <= Len(queue'[d])
                    /\ \A i \in 1 .. Len(drain'[d].pass) : drain'[d].pass[i] = queue'[d][i]
  BY DEF PassInv
<1>1. queue[d] \in Seq(Item) /\ Len(queue[d]) \in Nat
  BY QueueElements
<1>2. CASE ReplayKept(d) /\ QueueKept(d)
  <2>1. drain[d].pc \in {"item", "sent"} /\ drain'[d].pass = drain[d].pass
    BY <1>2 DEF ReplayKept
  <2>2. /\ Len(drain[d].pass) \in Nat /\ Len(drain[d].pass) <= Len(queue[d])
        /\ drain[d].pass /= <<>>
        /\ \A i \in 1 .. Len(drain[d].pass) : drain[d].pass[i] = queue[d][i]
    BY <2>1, PassElements DEF PassInv
  <2>3. CASE queue'[d] = queue[d]
    BY <2>1, <2>2, <2>3
  <2>4. CASE QueueLonger(d)
    BY <1>1, <2>1, <2>2, <2>4 DEF QueueLonger
  <2> QED  BY <1>2, <2>3, <2>4, QueueKeptFacts
<1>3. CASE ReplayEnds(d)
  BY <1>3 DEF ReplayEnds
<1>4. CASE queue'[d] = queue[d] /\ Listed(d)
  BY <1>1, <1>4 DEF Listed
<1>5. CASE queue'[d] = queue[d] /\ ItemSent(d)
  BY <1>5 DEF ItemSent, PassInv
<1>6. CASE ItemDone(d)
  <2>1. /\ drain[d].pass \in Seq(Item) /\ Len(drain[d].pass) \in Nat \ {0}
        /\ drain[d].pass /= <<>> /\ queue[d] /= <<>>
        /\ Len(drain[d].pass) <= Len(queue[d])
        /\ \A i \in 1 .. Len(drain[d].pass) : drain[d].pass[i] = queue[d][i]
    BY <1>6, PassElements DEF ItemDone, PassInv
  <2>2. /\ drain'[d].pass \in Seq(Item) /\ Len(drain'[d].pass) = Len(drain[d].pass) - 1
        /\ \A i \in 1 .. Len(drain'[d].pass) : drain'[d].pass[i] = drain[d].pass[i + 1]
    BY <1>6, <2>1, HeadTailProperties DEF ItemDone
  <2>3. /\ Len(queue'[d]) = Len(queue[d]) - 1
        /\ \A i \in 1 .. Len(queue'[d]) : queue'[d][i] = queue[d][i + 1]
    BY <1>1, <1>6, <2>1, HeadTailProperties DEF ItemDone
  <2>4. Len(drain[d].pass) > 1
    BY <1>6 DEF ItemDone
  <2>5. drain'[d].pass /= <<>>
    BY <2>1, <2>2, <2>4, EmptySeq
  <2>6. ASSUME NEW i \in 1 .. Len(drain'[d].pass) PROVE drain'[d].pass[i] = queue'[d][i]
    <3>1. i + 1 \in 1 .. Len(drain[d].pass) /\ i \in 1 .. Len(queue'[d])
      BY <1>1, <2>1, <2>2, <2>3
    <3> QED  BY <2>1, <2>2, <2>3, <3>1
  <2> QED  BY <1>1, <2>1, <2>2, <2>3, <2>5, <2>6
<1> QED  BY <1>2, <1>3, <1>4, <1>5, <1>6, ReplayStep DEF ReplayMoves

-----------------------------------------------------------------------------
(***************************************************************************)
(* What may still land.  A ticket is a write of a device d with event e    *)
(* that may yet be sent, or is under way, from revision b.                 *)
(***************************************************************************)
IsTicket(d, e, b) ==
  \/ \E q \in requests : q.device = d /\ q.event = e /\ q.base = b
  \/ \E i \in 1 .. Len(queue[d]) : queue[d][i].event = e /\ queue[d][i].base = b
  \/ save[d].pc /= "idle" /\ save[d].event = e /\ save[d].base = b

\* In the log l, event e of device d is what revision n was spent on.
Lands(l, d, n, e) == n \in 1 .. Len(l) /\ l[n].device = d /\ l[n].event = e

\* From revision b, event e of d can no longer be applied once it, or a later event
\* of d, is in the log l.
Stale(l, d, e, b) ==
  b <= Len(l) /\ \A i \in 1 .. Len(l) : l[i].device = d /\ l[i].event >= e => b < i

TicketsInv == \A d \in Device, e \in Event, b \in Nat : IsTicket(d, e, b) => Stale(log, d, e, b)

\* Every event in use was given out, and to one device.
Issued(d, e) == (\E b \in Nat : IsTicket(d, e, b)) \/ \E n \in Nat : Lands(log, d, n, e)
OwnersInv ==
  \A e \in Event : /\ \A d \in Device : Issued(d, e) => e <= used.saves
                   /\ \A c, d \in Device : Issued(c, e) /\ Issued(d, e) => c = d

\* The revision a replay goes on from was spent on a write of the device that comes
\* before everything it has queued or is saving.
LatestOf(d, e) ==
  /\ Lands(log, d, drain[d].latest, e) /\ e <= used.saves
  /\ \A i \in 1 .. Len(queue[d]) : e < queue[d][i].event
  /\ save[d].pc /= "idle" => e < save[d].event

LatestInv == \A d \in Device : drain[d].latest /= 0 => \E e \in Event : LatestOf(d, e)

\* A replay waits for one request or one answer at most, about the head of its pass,
\* and an answer that says "saved" names the revision that write was given.
MessagesOf(d) ==
  /\ \A q \in Waiting(d, "drain") :
       drain[d].pc = "sent" /\ q.event = Head(drain[d].pass).event
  /\ \A a \in Answers(d, "drain") :
       /\ drain[d].pc = "sent"
       /\ a.status = "saved" => Lands(log, d, a.row.revision, Head(drain[d].pass).event)
  /\ \A p, q \in Waiting(d, "drain") : p = q
  /\ \A a, b \in Answers(d, "drain") : a = b
  /\ Waiting(d, "drain") = {} \/ Answers(d, "drain") = {}

MessagesInv == \A d \in Device : MessagesOf(d)

\* The invariant the theorems rest on.
IInv ==
  /\ TInv /\ PassInv /\ OrderInv /\ TicketsInv /\ OwnersInv /\ LatestInv /\ MessagesInv
  /\ SavesLandInOrder

-----------------------------------------------------------------------------
(***************************************************************************)
(* Facts about the log and the tickets.                                    *)
(***************************************************************************)
LEMMA LogEntries ==
  ASSUME ServerInv
  PROVE  /\ Len(log) \in Nat
         /\ \A i \in 1 .. Len(log) : log[i].event \in Nat /\ log[i].event \in Event /\ log[i].device \in Device
<1>1. log \in Seq(Entry) /\ Len(log) \in Nat
  BY LenProperties DEF ServerInv
<1>2. ASSUME NEW i \in 1 .. Len(log)
      PROVE  log[i].event \in Nat /\ log[i].event \in Event /\ log[i].device \in Device
  <2>1. log[i] \in Entry
    BY <1>1, ElementOfSeq
  <2> QED  BY <2>1, Bounds DEF Entry, Event
<1> QED  BY <1>1, <1>2

LEMMA LandsStays ==
  ASSUME ServerInv, [Next]_vars, NEW d, NEW n, NEW e, Lands(log, d, n, e)
  PROVE  Lands(log', d, n, e)
BY LogGrows DEF Lands

\* A step adds at most one entry to the log, that of a save it applies.
Applied(q) ==
  /\ Applies(row, q) /\ Len(log') = Len(log) + 1
  /\ \A i \in 1 .. Len(log) : log'[i] = log[i]
  /\ log'[Len(log) + 1].event = q.event /\ log'[Len(log) + 1].device = q.device

LEMMA LogStep ==
  ASSUME ServerInv, [Next]_vars
  PROVE  log' = log \/ \E q \in requests : Handle(q) /\ Applied(q)
<1>1. CASE UNCHANGED server
  BY <1>1 DEF server
<1>2. ASSUME NEW q \in requests, Handle(q) PROVE log' = log \/ Applied(q)
  <2>1. \/ log' = log
        \/ /\ Applies(row, q) /\ Len(log') = Len(log) + 1
           /\ \A i \in 1 .. Len(log) : log'[i] = log[i]
           /\ log'[Len(log')] = [event |-> q.event, device |-> q.device, path |-> q.path]
    BY <1>2, HandledRow
  <2> QED  BY <2>1 DEF Applied
<1>3. CASE \E q \in requests : Handle(q)
  BY <1>2, <1>3
<1> QED  BY <1>1, <1>3, LogFrame

\* A ticket was there before the step, or is that of a save which begins, or of an
\* item which is sent from the revision the replay has reached.
LEMMA TicketsStep ==
  ASSUME TInv, PassInv, OrderInv, [Next]_vars,
         NEW d \in Device, NEW e \in Event, NEW b \in Nat, IsTicket(d, e, b)'
  PROVE  \/ IsTicket(d, e, b)
         \/ SaveBegins(d) /\ e = used.saves + 1 /\ b = reader[d].base
         \/ /\ drain[d].pc = "item" /\ drain[d].latest /= 0 /\ b = drain[d].latest
            /\ e = queue[d][1].event
<1>1. ASSUME NEW q \in requests', q.device = d, q.event = e, q.base = b
      PROVE  \/ IsTicket(d, e, b)
             \/ /\ drain[d].pc = "item" /\ drain[d].latest /= 0 /\ b = drain[d].latest
                /\ e = queue[d][1].event
  <2>1. CASE q \in requests
    BY <1>1, <2>1 DEF IsTicket
  <2>2. ASSUME NEW r \in requests, q = [r EXCEPT !.waits = FALSE] PROVE IsTicket(d, e, b)
    <3>1. r \in Put
      BY DEF TInv, ServerInv
    <3>2. r.device = d /\ r.event = e /\ r.base = b
      BY <1>1, <2>2, <3>1 DEF Put
    <3> QED  BY <3>2 DEF IsTicket
  <2>3. ASSUME NEW c \in Device, save[c].pc = "inspect", q = SaveRequest(c) PROVE IsTicket(d, e, b)
    BY <1>1, <2>3 DEF SaveRequest, Request, IsTicket
  <2>4. ASSUME NEW c \in Device, drain[c].pc = "item", q = ItemRequest(c)
        PROVE  \/ IsTicket(d, e, b)
               \/ /\ drain[d].pc = "item" /\ drain[d].latest /= 0 /\ b = drain[d].latest
                  /\ e = queue[d][1].event
    <3>1. c = d /\ e = Head(drain[d].pass).event /\ b = ItemBase(d)
      BY <1>1, <2>4 DEF ItemRequest, Request
    <3>2. Head(drain[d].pass) = queue[d][1] /\ 1 \in 1 .. Len(queue[d])
      BY <2>4, <3>1, PassElements
    <3> QED  BY <2>4, <3>1, <3>2 DEF ItemBase, IsTicket
  <2> QED  BY <2>1, <2>2, <2>3, <2>4, RequestsStep
<1>2. ASSUME NEW i \in 1 .. Len(queue'[d]), queue'[d][i].event = e, queue'[d][i].base = b
      PROVE  IsTicket(d, e, b)
  BY <1>2, QueuedBefore DEF IsTicket
<1>3. ASSUME save'[d].pc /= "idle", save'[d].event = e, save'[d].base = b
      PROVE  IsTicket(d, e, b) \/ (SaveBegins(d) /\ e = used.saves + 1 /\ b = reader[d].base)
  <2>1. SaveMoves(d)
    BY SaveStepMoves
  <2> QED  BY <1>3, <2>1 DEF SaveMoves, SaveBegins, IsTicket
<1> QED  BY <1>1, <1>2, <1>3 DEF IsTicket

LEMMA UsedSaves == ASSUME TInv, [Next]_vars
                   PROVE  used.saves \in Nat /\ used'.saves \in Nat /\ used.saves <= used'.saves
<1>1. used \in UsedType /\ used' \in UsedType
  BY StepUsed DEF TInv, ServerInv
<1> QED  BY <1>1, StepUsed, Bounds DEF UsedType

LEMMA LoggedIsIssued ==
  ASSUME TInv, OwnersInv, NEW i \in 1 .. Len(log)
  PROVE  /\ log[i].event <= used.saves /\ Issued(log[i].device, log[i].event)
         /\ Lands(log, log[i].device, i, log[i].event)
<1>1. log[i].event \in Event /\ log[i].device \in Device /\ Len(log) \in Nat
  BY LogEntries DEF TInv
<1>2. Lands(log, log[i].device, i, log[i].event) /\ i \in Nat
  BY <1>1 DEF Lands
<1>3. Issued(log[i].device, log[i].event)
  BY <1>2 DEF Issued
<1> QED  BY <1>1, <1>2, <1>3 DEF OwnersInv

-----------------------------------------------------------------------------
(***************************************************************************)
(* Saves land in order.                                                    *)
(***************************************************************************)
LEMMA StepLandsInOrder ==
  ASSUME TInv, TicketsInv, SavesLandInOrder, [Next]_vars PROVE SavesLandInOrder'
<1>0. ServerInv
  BY DEF TInv
<1>1. CASE log' = log
  BY <1>1 DEF SavesLandInOrder
<1>2. ASSUME NEW q \in requests, Applied(q) PROVE SavesLandInOrder'
  <2>1. Len(log) \in Nat /\ \A i \in 1 .. Len(log) : log[i].event \in Nat
    BY <1>0, LogEntries
  <2>2. log' \in Seq(Entry) /\ DOMAIN log' = 1 .. Len(log) + 1 /\ DOMAIN log = 1 .. Len(log)
    <3>1. log' \in Seq(Entry)
      BY <1>0, HandledRow, LogFrame DEF server, ServerInv
    <3> QED  BY <1>0, <1>2, <3>1, LenProperties DEF ServerInv, Applied
  <2>3. q.device \in Device /\ q.event \in Event /\ q.event \in Nat /\ q.base \in Nat
    BY <1>0, Bounds DEF ServerInv, Put, Event
  <2>4. q.base = Len(log)
    BY <1>0, <1>2 DEF Applied, Applies, Current, ServerInv
  <2>5. IsTicket(q.device, q.event, q.base)
    BY DEF IsTicket
  <2>6. Stale(log, q.device, q.event, q.base)
    BY <2>3, <2>5 DEF TicketsInv
  <2>7. ASSUME NEW i \in 1 .. Len(log), log[i].device = q.device PROVE log[i].event < q.event
    <3>1. CASE log[i].event >= q.event
      <4>1. q.base < i
        BY <2>6, <2>7, <3>1 DEF Stale
      <4> QED  BY <2>1, <2>4, <4>1
    <3> QED  BY <2>1, <2>3, <3>1
  <2>8. ASSUME NEW i \in 1 .. Len(log) + 1, NEW j \in 1 .. Len(log) + 1, i < j,
               log'[i].device = log'[j].device
        PROVE  log'[i].event < log'[j].event
    <3>1. i \in 1 .. Len(log)
      BY <2>1, <2>8
    <3>2. CASE j \in 1 .. Len(log)
      BY <1>2, <2>2, <2>8, <3>1, <3>2 DEF Applied, SavesLandInOrder
    <3>3. CASE j = Len(log) + 1
      BY <1>2, <2>7, <2>8, <3>1, <3>3 DEF Applied
    <3>4. j \in 1 .. Len(log) \/ j = Len(log) + 1
      BY <2>1
    <3> QED  BY <3>2, <3>3, <3>4
  <2> QED  BY <2>2, <2>8 DEF SavesLandInOrder
<1> QED  BY <1>0, <1>1, <1>2, LogStep

LEMMA StaleStays ==
  ASSUME TInv, [Next]_vars, NEW d \in Device, NEW e \in Event, NEW b \in Nat, Stale(log, d, e, b)
  PROVE  Stale(log', d, e, b)
<1>1. /\ Len(log) \in Nat /\ Len(log') \in Nat /\ Len(log) <= Len(log')
      /\ \A i \in 1 .. Len(log) : log'[i] = log[i]
  BY LogGrows DEF TInv
<1>2. ASSUME NEW i \in 1 .. Len(log'), log'[i].device = d, log'[i].event >= e PROVE b < i
  <2>1. CASE i \in 1 .. Len(log)
    BY <1>1, <1>2, <2>1 DEF Stale
  <2>2. CASE i > Len(log)
    BY <1>1, <2>2 DEF Stale
  <2> QED  BY <1>1, <2>1, <2>2
<1> QED  BY <1>1, <1>2 DEF Stale

LEMMA StepTicketsInv ==
  ASSUME TInv, PassInv, OrderInv, TicketsInv, OwnersInv, LatestInv, SavesLandInOrder, [Next]_vars
  PROVE  TicketsInv'
<1> SUFFICES ASSUME NEW d \in Device, NEW e \in Event, NEW b \in Nat, IsTicket(d, e, b)'
             PROVE  Stale(log', d, e, b)
  BY DEF TicketsInv
<1>1. /\ Len(log) \in Nat
      /\ \A i \in 1 .. Len(log) : log[i].event \in Nat /\ log[i].event <= used.saves
  BY LogEntries, LoggedIsIssued DEF TInv
<1>2. e \in Nat
  BY Bounds DEF Event
<1>3. CASE IsTicket(d, e, b)
  BY <1>3, StaleStays DEF TicketsInv
<1>4. CASE SaveBegins(d) /\ e = used.saves + 1 /\ b = reader[d].base
  <2>1. b <= Len(log)
    BY <1>4 DEF TInv, DevicesInv
  <2>2. \A i \in 1 .. Len(log) : ~ log[i].event >= e
    BY <1>1, <1>4, UsedSaves
  <2> QED  BY <2>1, <2>2, StaleStays DEF Stale
<1>5. CASE /\ drain[d].pc = "item" /\ drain[d].latest /= 0 /\ b = drain[d].latest
           /\ e = queue[d][1].event
  <2>1. 1 \in 1 .. Len(queue[d])
    BY <1>5, PassElements
  <2>2. PICK f \in Event : Lands(log, d, b, f) /\ f < e
    BY <1>5, <2>1 DEF LatestInv, LatestOf
  <2>3. ASSUME NEW i \in 1 .. Len(log), log[i].device = d, log[i].event >= e PROVE b < i
    <3>1. f \in Nat /\ b \in 1 .. Len(log) /\ log[b].event = f /\ log[b].device = d
      BY <2>2, Bounds DEF Event, Lands
    <3>2. i /= b
      BY <1>1, <1>2, <2>2, <2>3, <3>1
    <3>3. CASE i < b
      <4>1. i \in DOMAIN log /\ b \in DOMAIN log
        BY <3>1, LenProperties DEF TInv, ServerInv
      <4>2. log[i].event < f
        BY <2>3, <3>1, <3>3, <4>1 DEF SavesLandInOrder
      <4> QED  BY <1>1, <1>2, <2>2, <2>3, <3>1, <4>2
    <3> QED  BY <1>1, <3>1, <3>2, <3>3
  <2>4. b <= Len(log)
    BY <1>1, <2>2 DEF Lands
  <2> QED  BY <2>3, <2>4, StaleStays DEF Stale
<1> QED  BY <1>3, <1>4, <1>5, TicketsStep

-----------------------------------------------------------------------------
(***************************************************************************)
(* An event belongs to one device.                                         *)
(***************************************************************************)
LEMMA OneBegins ==
  ASSUME TInv, [Next]_vars, NEW c \in Device, NEW d \in Device, SaveBegins(c), SaveBegins(d)
  PROVE  c = d
<1>1. \A e \in Device : save'[e] /= save[e] \/ ~ SaveBegins(e)
  BY DEF SaveBegins
<1>2. save \in [Device -> SaveType]
  BY DEF TInv, DevicesInv
<1>3. ASSUME NEW e \in Device, SaveStep(e) \/ Kill(e)
      PROVE  \A x \in Device \ {e} : save'[x] = save[x]
  BY <1>2, <1>3 DEF SaveStep, BeginSave, InspectQueue, SaveFails, Enqueue, SaveAnswered, Kill
<1> QED  BY <1>1, <1>3, SaveFrame

LEMMA IssuedStep ==
  ASSUME TInv, PassInv, OrderInv, [Next]_vars, NEW d \in Device, NEW e \in Event, Issued(d, e)'
  PROVE  Issued(d, e) \/ (SaveBegins(d) /\ e = used.saves + 1)
<1>1. ASSUME NEW b \in Nat, IsTicket(d, e, b)'
      PROVE  Issued(d, e) \/ (SaveBegins(d) /\ e = used.saves + 1)
  <2>1. CASE IsTicket(d, e, b)
    BY <2>1 DEF Issued
  <2>2. CASE drain[d].pc = "item" /\ e = queue[d][1].event
    <3>1. 1 \in 1 .. Len(queue[d])
      BY <2>2, PassElements
    <3>2. queue[d][1].base \in Nat
      BY <3>1, QueueElements
    <3>3. IsTicket(d, e, queue[d][1].base)
      BY <2>2, <3>1 DEF IsTicket
    <3> QED  BY <3>2, <3>3 DEF Issued
  <2> QED  BY <1>1, <2>1, <2>2, TicketsStep
<1>2. ASSUME NEW n \in Nat, Lands(log', d, n, e) PROVE Issued(d, e)
  <2>1. Len(log) \in Nat
    BY LogEntries DEF TInv
  <2>2. CASE log' = log
    BY <1>2, <2>2 DEF Issued
  <2>3. ASSUME NEW q \in requests, Applied(q) PROVE Issued(d, e)
    <3>1. CASE n \in 1 .. Len(log)
      BY <1>2, <2>3, <3>1 DEF Applied, Lands, Issued
    <3>2. CASE n = Len(log) + 1
      <4>1. q.device = d /\ q.event = e
        BY <1>2, <2>3, <3>2 DEF Applied, Lands
      <4>2. q.base \in Nat
        BY DEF TInv, ServerInv, Put
      <4>3. IsTicket(d, e, q.base)
        BY <4>1 DEF IsTicket
      <4> QED  BY <4>2, <4>3 DEF Issued
    <3> QED  BY <1>2, <2>1, <2>3, <3>1, <3>2 DEF Applied, Lands
  <2> QED  BY <2>2, <2>3, LogStep DEF TInv
<1> QED  BY <1>1, <1>2 DEF Issued

LEMMA StepOwnersInv ==
  ASSUME TInv, PassInv, OrderInv, OwnersInv, [Next]_vars PROVE OwnersInv'
<1>1. ASSUME NEW d \in Device, NEW e \in Event, Issued(d, e)' PROVE e <= used'.saves
  <2>1. e \in Nat
    BY Bounds DEF Event
  <2>2. CASE Issued(d, e)
    BY <2>1, <2>2, UsedSaves DEF OwnersInv
  <2>3. CASE SaveBegins(d) /\ e = used.saves + 1
    BY <2>1, <2>3, UsedSaves DEF SaveBegins
  <2> QED  BY <1>1, <2>2, <2>3, IssuedStep
<1>2. ASSUME NEW c \in Device, NEW d \in Device, NEW e \in Event, Issued(c, e)', Issued(d, e)'
      PROVE  c = d
  <2>1. e = used.saves + 1 => ~ Issued(c, e) /\ ~ Issued(d, e)
    BY UsedSaves DEF OwnersInv
  <2>2. CASE Issued(c, e) /\ Issued(d, e)
    BY <2>2 DEF OwnersInv
  <2>3. CASE SaveBegins(c) /\ SaveBegins(d)
    BY <2>3, OneBegins
  <2> QED  BY <1>2, <2>1, <2>2, <2>3, IssuedStep
<1> QED  BY <1>1, <1>2 DEF OwnersInv

-----------------------------------------------------------------------------
(***************************************************************************)
(* The messages of a replay, and the revision it goes on from.             *)
(***************************************************************************)
\* A save the server calls saved is the one the row's revision was spent on.
LEMMA SavedLands ==
  ASSUME TInv, OwnersInv, [Next]_vars, NEW q \in requests, Handle(q), PutStatus(row, q) = "saved"
  PROVE  Lands(log', q.device, row'.revision, q.event)
<1>1. /\ Len(log) \in Nat /\ row.revision = Len(log) /\ q \in Put
      /\ Exists(row) => row.event = log[Len(log)].event
  BY LogEntries DEF TInv, ServerInv
<1>2. CASE AlreadyApplied(row, q)
  <2>1. row' = row /\ log' = log
    BY <1>2 DEF Handle, PutRow, Applies
  <2>2. Len(log) \in 1 .. Len(log) /\ log[Len(log)].event = q.event
    BY <1>1, <1>2 DEF AlreadyApplied, Exists
  <2>3. log[Len(log)].device \in Device /\ Issued(log[Len(log)].device, q.event)
    BY <2>2, LogEntries, LoggedIsIssued DEF TInv
  <2>4. q.device \in Device /\ q.event \in Event /\ q.base \in Nat
    BY <1>1 DEF Put
  <2>5. Issued(q.device, q.event)
    BY <2>4 DEF Issued, IsTicket
  <2>6. log[Len(log)].device = q.device
    BY <2>3, <2>4, <2>5 DEF OwnersInv
  <2> QED  BY <1>1, <2>1, <2>2, <2>6 DEF Lands
<1>3. CASE ~ AlreadyApplied(row, q)
  <2>1. Applies(row, q)
    BY <1>3 DEF PutStatus, Applies
  <2>2. /\ row'.revision = Len(log') /\ Len(log') = Len(log) + 1
        /\ log'[Len(log')].event = q.event /\ log'[Len(log')].device = q.device
    <3>1. \/ row' = row
          \/ /\ row'.revision = Len(log') /\ Len(log') = Len(log) + 1
             /\ log'[Len(log')] = [event |-> q.event, device |-> q.device, path |-> q.path]
      BY HandledRow DEF TInv
    <3>2. row' /= row
      <4>1. row' = ApplyBody(q) /\ row'.revision = q.base + 1 /\ q.base = row.revision
        BY <2>1 DEF Handle, PutRow, ApplyBody, Applies, Current
      <4> QED  BY <1>1, <4>1
    <3> QED  BY <3>1, <3>2
  <2> QED  BY <1>1, <2>2 DEF Lands
<1> QED  BY <1>2, <1>3

\* Where a replay waits for an answer it stays, unless it is given up or answered.
LEMMA SentFrame ==
  ASSUME TInv, [Next]_vars, NEW d \in Device, drain[d].pc = "sent"
  PROVE  DrainFails(d) \/ ReplayAnswered(d) \/ Kill(d) \/ ReplayKept(d)
<1>1. drain \in [Device -> DrainType] /\ DevicesInv
  BY DEF TInv, DevicesInv
<1>2. ASSUME NEW e \in Device, Open(e) \/ Enqueue(e) \/ GoOnline(e) PROVE ReplayKept(d)
  <2>1. drain' = drain \/ drain' = [drain EXCEPT ![e] = Flushed(e, OldWrites(e))]
    BY <1>2 DEF Open, OpenFromCache, OpenFromServer, OpenAfresh, Mount, Enqueue, GoOnline
  <2>2. CASE e = d
    <3>1. Flushed(d, OldWrites(d)) = [drain[d] EXCEPT !.rerun = TRUE]
      BY DEF Flushed
    <3> QED  BY <1>1, <2>1, <2>2, <3>1 DEF ReplayKept, DrainType
  <2> QED  BY <1>1, <2>1, <2>2 DEF ReplayKept
<1>3. ASSUME NEW e \in Device, DrainStep(e) \/ Kill(e), e /= d PROVE drain'[d] = drain[d]
  <2>1. CASE ReplayAnswered(e)
    BY <1>1, <1>3, <2>1, AnsweredReplay
  <2> QED
    BY <1>1, <1>3, <2>1 DEF DrainStep, Kill, ListPass, DropHeldBack, SendItem, DrainFails, EndDrain
<1>4. CASE DrainStep(d)
  BY <1>4 DEF DrainStep, ListPass, DropHeldBack, SendItem, EndDrain
<1> QED  BY <1>2, <1>3, <1>4, DrainFrame DEF ReplayKept

NoMessages(d) == Waiting(d, "drain") = {} /\ Answers(d, "drain") = {}

LEMMA GivenUp ==
  ASSUME TInv, NEW d \in Device, NEW T, "drain" \in T, GiveUp(d, T)
  PROVE  NoMessages(d)'
<1> DEFINE mine == UNION {Waiting(d, t) : t \in T}
<1>1. PICK arrives \in SUBSET mine :
        requests' = (requests \ mine) \cup {[q EXCEPT !.waits = FALSE] : q \in arrives}
  BY DEF GiveUp
<1>2. mine \subseteq requests /\ requests \subseteq Put /\ Waiting(d, "drain") \subseteq mine
  BY DEF Waiting, TInv, ServerInv
<1>3. ASSUME NEW q \in requests', q.waits PROVE q \in requests \ mine
  <2>1. ASSUME NEW r \in arrives, q = [r EXCEPT !.waits = FALSE] PROVE FALSE
    <3>1. r \in Put
      BY <1>2
    <3> QED  BY <1>3, <2>1, <3>1 DEF Put
  <2> QED  BY <1>1, <2>1
<1>4. replies' \cap Answers(d, "drain") = {} /\ replies' \subseteq replies
  BY DEF GiveUp
<1>5. Waiting(d, "drain")' = {}
  BY <1>2, <1>3 DEF Waiting
<1>6. Answers(d, "drain")' = {}
  BY <1>4 DEF Answers
<1> QED  BY <1>5, <1>6 DEF NoMessages

LEMMA NoMessagesSuffices == ASSUME NEW d \in Device, NoMessages(d)' PROVE MessagesOf(d)'
BY DEF NoMessages, MessagesOf

LEMMA AnswersStay ==
  ASSUME TInv, [Next]_vars, NEW d \in Device,
         \A q \in Waiting(d, "drain") : ~ (Handle(q) \/ Refuse(q))
  PROVE  Answers(d, "drain")' \subseteq Answers(d, "drain")
<1> SUFFICES ASSUME NEW a \in replies', a.device = d, a.thread = "drain", a \notin replies
             PROVE  FALSE
  BY DEF Answers
<1>1. PICK q \in requests : AnswerTo(q, a) /\ (Handle(q) \/ Refuse(q))
  BY AnswersStep
<1>2. q \in Waiting(d, "drain")
  BY <1>1 DEF AnswerTo, Waiting
<1> QED  BY <1>1, <1>2

LEMMA WaitingStep ==
  ASSUME TInv, [Next]_vars, NEW d \in Device, NEW q \in Waiting(d, "drain")'
  PROVE  \/ q \in Waiting(d, "drain")
         \/ /\ drain[d].pc = "item" /\ q = ItemRequest(d)
            /\ drain' = [drain EXCEPT ![d].pc = "sent"]
<1>1. q \in requests' /\ q.device = d /\ q.thread = "drain" /\ q.waits
  BY DEF Waiting
<1>2. CASE q \in requests
  BY <1>1, <1>2 DEF Waiting
<1>3. ASSUME NEW r \in requests, q = [r EXCEPT !.waits = FALSE] PROVE FALSE
  <2>1. r \in Put
    BY DEF TInv, ServerInv
  <2> QED  BY <1>1, <1>3, <2>1 DEF Put
<1>4. ASSUME NEW c \in Device, q = SaveRequest(c) PROVE FALSE
  BY <1>1, <1>4 DEF SaveRequest, Request
<1>5. ASSUME NEW c \in Device, q = ItemRequest(c) PROVE c = d
  BY <1>1, <1>5 DEF ItemRequest, Request
<1> QED  BY <1>1, <1>2, <1>3, <1>4, <1>5, RequestsStep

\* The server takes the request and answers who waits for it.
LEMMA ServedMessages ==
  ASSUME TInv, OwnersInv, MessagesInv, [Next]_vars, NEW d \in Device,
         NEW q \in Waiting(d, "drain"), Handle(q) \/ Refuse(q)
  PROVE  MessagesOf(d)'
<1>1. /\ q \in requests /\ q.waits /\ q.device = d /\ q.thread = "drain"
      /\ requests' = requests \ {q} /\ drain' = drain
  BY DEF Waiting, Handle, Refuse
<1>2. /\ drain[d].pc = "sent" /\ q.event = Head(drain[d].pass).event
      /\ \A p \in Waiting(d, "drain") : p = q
      /\ Answers(d, "drain") = {}
  BY DEF MessagesInv, MessagesOf
<1>3. Waiting(d, "drain")' = {}
  BY <1>1, <1>2 DEF Waiting
<1>4. \E x : replies' = replies \cup {x}
  BY <1>1 DEF Handle, Refuse
<1>5. \A a, b \in Answers(d, "drain")' : a = b
  BY <1>2, <1>4 DEF Answers
<1>6. ASSUME NEW a \in Answers(d, "drain")', a.status = "saved"
      PROVE  Lands(log', d, a.row.revision, q.event)
  <2>1. a \in replies' /\ a \notin replies /\ a.device = d /\ a.thread = "drain"
    BY <1>2 DEF Answers
  <2>2. PICK p \in requests : AnswerTo(p, a)
    BY <2>1, AnswersStep
  <2>3. p = q
    BY <1>2, <2>1, <2>2 DEF AnswerTo, Waiting
  <2>4. Handle(q) /\ PutStatus(row, q) = "saved" /\ a.row = row'
    BY <1>6, <2>2, <2>3 DEF AnswerTo
  <2> QED  BY <1>1, <2>4, SavedLands
<1> QED  BY <1>1, <1>2, <1>3, <1>5, <1>6 DEF MessagesOf

LEMMA StepMessagesInv ==
  ASSUME TInv, PassInv, OwnersInv, MessagesInv, [Next]_vars PROVE MessagesInv'
<1> SUFFICES ASSUME NEW d \in Device, \A q \in Waiting(d, "drain") : ~ (Handle(q) \/ Refuse(q))
             PROVE  MessagesOf(d)'
  BY ServedMessages DEF MessagesInv
<1>1. MessagesOf(d) /\ Answers(d, "drain")' \subseteq Answers(d, "drain")
  BY AnswersStay DEF MessagesInv
<1>2. CASE drain[d].pc = "item"
  <2>1. NoMessages(d) /\ Answers(d, "drain")' = {}
    BY <1>1, <1>2 DEF MessagesOf, NoMessages
  <2>2. CASE NoMessages(d)'
    BY <2>2, NoMessagesSuffices
  <2>3. CASE ~ NoMessages(d)'
    <3>1. /\ Waiting(d, "drain")' \subseteq {ItemRequest(d)}
          /\ drain' = [drain EXCEPT ![d].pc = "sent"]
      BY <2>1, <2>3, WaitingStep DEF NoMessages
    <3>2. drain'[d].pc = "sent" /\ drain'[d].pass = drain[d].pass
      BY <3>1 DEF TInv, DevicesInv, DrainType
    <3>3. ItemRequest(d).event = Head(drain[d].pass).event
      BY DEF ItemRequest, Request
    <3> QED  BY <2>1, <3>1, <3>2, <3>3 DEF MessagesOf
  <2> QED  BY <2>2, <2>3
<1>3. CASE drain[d].pc = "sent"
  <2>1. Waiting(d, "drain")' \subseteq Waiting(d, "drain")
    BY <1>3, WaitingStep
  <2>2. CASE DrainFails(d) \/ Kill(d)
    BY <2>2, GivenUp, NoMessagesSuffices DEF DrainFails, Kill, Thread
  <2>3. CASE ReplayAnswered(d)
    <3>1. PICK a \in Answers(d, "drain") : replies' = replies \ {a}
      BY <2>3, AnsweredReplay
    <3>2. Answers(d, "drain")' = {} /\ Waiting(d, "drain") = {}
      BY <1>1, <3>1 DEF MessagesOf, Answers
    <3> QED  BY <2>1, <3>2, NoMessagesSuffices DEF NoMessages
  <2>4. CASE ReplayKept(d)
    <3>1. ASSUME NEW a \in Answers(d, "drain"), a.status = "saved"
          PROVE  Lands(log', d, a.row.revision, Head(drain[d].pass).event)
      BY <1>1, <3>1, LandsStays DEF MessagesOf, TInv
    <3> QED  BY <1>1, <1>3, <2>1, <2>4, <3>1 DEF MessagesOf, ReplayKept
  <2> QED  BY <1>3, <2>2, <2>3, <2>4, SentFrame
<1>4. CASE drain[d].pc \notin {"item", "sent"}
  <2>1. NoMessages(d)'
    BY <1>1, <1>4, WaitingStep DEF MessagesOf, NoMessages
  <2> QED  BY <2>1, NoMessagesSuffices
<1> QED  BY <1>2, <1>3, <1>4

LEMMA LaterEvents ==
  ASSUME TInv, OrderInv, [Next]_vars, NEW d \in Device, NEW e \in Event, e <= used.saves,
         save[d].pc /= "idle" => e < save[d].event
  PROVE  e <= used'.saves /\ (save'[d].pc /= "idle" => e < save'[d].event)
<1>1. e \in Nat
  BY Bounds DEF Event
<1>2. SaveMoves(d)
  BY SaveStepMoves
<1> QED  BY <1>1, <1>2, UsedSaves DEF SaveMoves, SaveBegins

LEMMA StepLatestInv ==
  ASSUME TInv, PassInv, OrderInv, MessagesInv, LatestInv, [Next]_vars PROVE LatestInv'
<1> SUFFICES ASSUME NEW d \in Device, drain'[d].latest /= 0
             PROVE  \E e \in Event : LatestOf(d, e)'
  BY DEF LatestInv
<1>0. ServerInv
  BY DEF TInv
<1>1. CASE drain'[d].latest = drain[d].latest
  <2>1. PICK e \in Event : LatestOf(d, e)
    BY <1>1 DEF LatestInv
  <2>2. Lands(log', d, drain'[d].latest, e)
    BY <1>0, <1>1, <2>1, LandsStays DEF LatestOf
  <2>3. e <= used'.saves /\ (save'[d].pc /= "idle" => e < save'[d].event)
    BY <2>1, LaterEvents DEF LatestOf
  <2>4. ASSUME NEW i \in 1 .. Len(queue'[d]) PROVE e < queue'[d][i].event
    BY <2>1, QueuedBefore DEF LatestOf
  <2>5. LatestOf(d, e)'
    BY <2>2, <2>3, <2>4 DEF LatestOf
  <2> QED  BY <2>5
<1>2. ASSUME NEW a \in Answers(d, "drain"), a.status = "saved",
             drain'[d].latest = a.row.revision, ItemDone(d)
      PROVE  \E e \in Event : LatestOf(d, e)'
  <2>1. /\ drain[d].pc \in {"item", "sent"}
        /\ Lands(log, d, a.row.revision, Head(drain[d].pass).event)
    BY <1>2 DEF MessagesInv, MessagesOf
  <2>2. Head(drain[d].pass) = queue[d][1] /\ 1 \in 1 .. Len(queue[d])
    BY <2>1, PassElements
  <2>3. PICK e \in Event : e = queue[d][1].event
    BY <2>2, QueueElements
  <2>4. Lands(log', d, drain'[d].latest, e)
    BY <1>0, <1>2, <2>1, <2>2, <2>3, LandsStays
  <2>5. queue[d] \in Seq(Item) /\ queue[d] /= <<>> /\ queue'[d] = Tail(queue[d]) /\ Len(queue[d]) \in Nat
    BY <1>2, <2>1, PassElements, QueueElements DEF ItemDone
  <2>6. QueueShorter(d)
    BY <2>5, HeadTailProperties DEF QueueShorter
  <2>7. ASSUME NEW i \in 1 .. Len(queue'[d]) PROVE e < queue'[d][i].event
    <3>1. i + 1 \in 1 .. Len(queue[d]) /\ 1 < i + 1 /\ queue'[d][i] = queue[d][i + 1]
      BY <2>5, <2>6 DEF QueueShorter
    <3> QED  BY <2>2, <2>3, <3>1 DEF OrderInv
  <2>8. e <= used'.saves /\ (save'[d].pc /= "idle" => e < save'[d].event)
    BY <2>2, <2>3, LaterEvents DEF OrderInv
  <2>9. LatestOf(d, e)'
    BY <2>4, <2>7, <2>8 DEF LatestOf
  <2> QED  BY <2>3, <2>9
<1>3. ReplayMoves(d)
  BY ReplayStep
<1> QED
  BY <1>1, <1>2, <1>3 DEF ReplayMoves, ReplayKept, ReplayEnds, Listed, ItemSent, ItemDone

-----------------------------------------------------------------------------
LEMMA InitIInv == Init => IInv
<1> SUFFICES ASSUME Init PROVE IInv
  OBVIOUS
<1>1. TInv
  BY InitTInv
<1>2. /\ log = <<>> /\ Len(log) = 0 /\ requests = {} /\ replies = {}
      /\ \A d \in Device : /\ queue[d] = <<>> /\ Len(queue[d]) = 0 /\ save[d].pc = "idle"
                           /\ drain[d].pc = "idle" /\ drain[d].latest = 0
  BY DEF Init, NoSave, NoDrain
<1>3. PassInv /\ OrderInv /\ LatestInv
  BY <1>2 DEF PassInv, OrderInv, LatestInv
<1>4. \A d \in Device : \A e, b : ~ IsTicket(d, e, b)
  BY <1>2 DEF IsTicket
<1>5. \A d \in Device : \A e : ~ Issued(d, e)
  BY <1>2, <1>4 DEF Issued, Lands
<1>6. TicketsInv /\ OwnersInv
  BY <1>4, <1>5 DEF TicketsInv, OwnersInv
<1>7. MessagesInv
  BY <1>2 DEF MessagesInv, MessagesOf, Waiting, Answers
<1>8. SavesLandInOrder
  BY <1>2, EmptySeq DEF SavesLandInOrder
<1> QED  BY <1>1, <1>3, <1>6, <1>7, <1>8 DEF IInv

LEMMA StepIInv == IInv /\ [Next]_vars => IInv'
<1> SUFFICES ASSUME IInv, [Next]_vars PROVE IInv'
  OBVIOUS
<1>1. /\ TInv /\ PassInv /\ OrderInv /\ TicketsInv /\ OwnersInv /\ LatestInv /\ MessagesInv
      /\ SavesLandInOrder
  BY DEF IInv
<1>2. TInv'
  BY <1>1, StepServerInv, StepDevicesInv DEF TInv
<1>3. PassInv' /\ OrderInv'
  BY <1>1, StepPassInv, StepOrderInv
<1>4. TicketsInv' /\ OwnersInv'
  BY <1>1, StepTicketsInv, StepOwnersInv
<1>5. LatestInv' /\ MessagesInv'
  BY <1>1, StepLatestInv, StepMessagesInv
<1>6. SavesLandInOrder'
  BY <1>1, StepLandsInOrder
<1> QED  BY <1>2, <1>3, <1>4, <1>5, <1>6 DEF IInv

LEMMA Invariant == Spec => []IInv
<1>1. Init => IInv
  BY InitIInv
<1>2. IInv /\ [Next]_vars => IInv'
  BY StepIInv
<1> QED  BY <1>1, <1>2, PTL DEF Spec

LEMMA InvariantTypes == IInv => TypeOK
BY DEF IInv, TInv, ServerInv, DevicesInv, TypeOK, RowType, Entry, Put, Answer, CacheType, Link,
   ReaderType, SaveType, DrainType, UsedType

\* The row, the messages, the caches, the queues and the processes of every device keep
\* their types, a revision counts the saves that were applied, and no bound is overrun:
\* whatever requests are lost or late, and whenever a tab is closed.
THEOREM TypeCorrect == Spec => []TypeOK
BY InvariantTypes, Invariant, PTL

\* The saves of one device (put_reading_state, replayQueue) are applied in the order
\* the child made them and each at most once, though a replay re-bases what it sends,
\* answers get lost, requests arrive after their sender gave up on them and any tab is
\* closed at any moment.
THEOREM SavesLandInOrderAlways == Spec => []SavesLandInOrder
<1>1. IInv => SavesLandInOrder
  BY DEF IInv
<1> QED  BY <1>1, Invariant, PTL

-----------------------------------------------------------------------------
(***************************************************************************)
(* What may take a write out of the queue.                                 *)
(***************************************************************************)
Settled(d, e) ==
  \/ \E k \in DOMAIN log : log[k].event = e
  \/ drain'[d].latched
  \/ \E a \in Answers(d, "drain") : a.status = "refused"

\* A write dropped unsent is dropped by a replay that met a conflict, and stays latched.
LEMMA DropSettles ==
  ASSUME TInv, PassInv, NEW d \in Device, DropHeldBack(d), NEW e
  PROVE  Settled(d, e)
<1>1. drain[d] \in DrainType /\ drain[d].pass /= <<>> /\ drain[d].latched
  BY DEF TInv, DevicesInv, DropHeldBack, HeldBack, PassInv
<1>2. drain'[d] = Advanced(drain[d])
  BY DEF DropHeldBack, TInv, DevicesInv
<1>3. Advanced(drain[d]).latched = drain[d].latched
  BY <1>1 DEF Advanced, DrainType
<1> QED  BY <1>1, <1>2, <1>3 DEF Settled

\* A write the server answered for: the answer is about the head of the queue.
LEMMA AnswerSettles ==
  ASSUME TInv, PassInv, MessagesInv, NEW d \in Device, ReplayAnswered(d)
  PROVE  Settled(d, queue[d][1].event)
<1>1. PICK a \in Answers(d, "drain") :
        ReplayAccepted(d, a) \/ ReplayConflicts(d, a) \/ ReplayRefused(d, a)
  BY DEF ReplayAnswered
<1>2. drain[d].pc = "sent" /\ drain \in [Device -> DrainType] /\ drain[d] \in DrainType
  BY DEF ReplayAnswered, TInv, DevicesInv
<1>3. CASE ReplayAccepted(d, a)
  <2>1. Lands(log, d, a.row.revision, Head(drain[d].pass).event)
    BY <1>1, <1>3 DEF ReplayAccepted, MessagesInv, MessagesOf
  <2>2. Head(drain[d].pass) = queue[d][1]
    BY <1>2, PassElements
  <2>3. log \in Seq(Entry) /\ DOMAIN log = 1 .. Len(log)
    BY LenProperties DEF TInv, ServerInv
  <2> QED  BY <2>1, <2>2, <2>3 DEF Lands, Settled
<1>4. CASE ReplayConflicts(d, a)
  <2>1. drain'[d] = Advanced([drain[d] EXCEPT !.latched = TRUE])
    BY <1>2, <1>4 DEF ReplayConflicts
  <2>2. drain'[d].latched
    BY <1>2, <2>1 DEF Advanced, DrainType
  <2> QED  BY <2>2 DEF Settled
<1>5. CASE ReplayRefused(d, a)
  BY <1>1, <1>5 DEF ReplayRefused, Settled
<1> QED  BY <1>1, <1>3, <1>4, <1>5

\* A write that is still queued, at its place or one further to the front, has not left.
LEMMA StepSettles ==
  ASSUME IInv, [Next]_vars, NEW d \in Device, NEW i \in DOMAIN queue[d],
         \A j \in DOMAIN queue'[d] : queue'[d][j].event /= queue[d][i].event
  PROVE  Settled(d, queue[d][i].event)
<1>1. TInv /\ PassInv /\ OrderInv /\ MessagesInv /\ TInv'
  BY StepIInv DEF IInv
<1>2. /\ queue[d] \in Seq(Item) /\ Len(queue[d]) \in Nat /\ DOMAIN queue[d] = 1 .. Len(queue[d])
      /\ queue'[d] \in Seq(Item) /\ Len(queue'[d]) \in Nat /\ DOMAIN queue'[d] = 1 .. Len(queue'[d])
  BY <1>1, LenProperties DEF TInv, DevicesInv
<1>3. ~ (queue'[d] = queue[d])
  OBVIOUS
<1>4. ~ QueueLonger(d)
  BY <1>2 DEF QueueLonger
<1>5. QueueShorter(d)
  BY <1>1, <1>3, <1>4, QueueStep
<1>6. i = 1
  <2>1. CASE i > 1
    <3>1. i - 1 \in 1 .. Len(queue'[d]) /\ queue'[d][i - 1] = queue[d][(i - 1) + 1]
      BY <1>2, <1>5, <2>1 DEF QueueShorter
    <3>2. (i - 1) + 1 = i
      BY <1>2
    <3> QED  BY <1>2, <3>1, <3>2
  <2> QED  BY <1>2, <2>1
<1>7. \E c \in Device : Enqueue(c) \/ DropHeldBack(c) \/ ReplayAnswered(c)
  BY <1>3, QueueFrame
<1>8. ASSUME NEW c \in Device, Enqueue(c) \/ DropHeldBack(c) \/ ReplayAnswered(c) PROVE c = d
  <2>1. queue \in [Device -> Seq(Item)]
    BY <1>1 DEF TInv, DevicesInv
  <2>2. \E x : queue' = [queue EXCEPT ![c] = x]
    BY <1>8 DEF Enqueue, DropHeldBack, ReplayAnswered, Dequeue
  <2> QED  BY <1>3, <2>1, <2>2
<1>9. CASE Enqueue(d)
  <2>1. QueueKept(d)
    BY <1>1, <1>9 DEF TInv, DevicesInv, Enqueue, QueueKept, NoSave
  <2> QED  BY <1>1, <1>3, <1>4, <2>1, QueueKeptFacts
<1> QED  BY <1>1, <1>6, <1>7, <1>8, <1>9, DropSettles, AnswerSettles

\* A write leaves the offline queue (replayQueue) only when the server applied or refused
\* it or when a conflict latched the story: no lost answer, no replay that ends early and
\* no tab that is closed takes one away.
THEOREM QueuedWritesAreSettledAlways == Spec => QueuedWritesAreSettled
<1>1. IInv /\ [Next]_vars =>
        [\A d \in Device : \A i \in DOMAIN queue[d] :
           (\A j \in DOMAIN queue'[d] : queue'[d][j].event /= queue[d][i].event) =>
             \/ \E k \in DOMAIN log : log[k].event = queue[d][i].event
             \/ drain'[d].latched
             \/ \E a \in Answers(d, "drain") : a.status = "refused"]_vars
  <2> SUFFICES ASSUME IInv, [Next]_vars, NEW d \in Device, NEW i \in DOMAIN queue[d],
                      \A j \in DOMAIN queue'[d] : queue'[d][j].event /= queue[d][i].event
               PROVE  Settled(d, queue[d][i].event)
    BY DEF Settled
  <2> QED  BY StepSettles
<1> QED  BY <1>1, Invariant, PTL DEF Spec, QueuedWritesAreSettled

-----------------------------------------------------------------------------
(***************************************************************************)
(* Places on one line of choices.                                          *)
(***************************************************************************)
LEMMA PrefixPointwise ==
  ASSUME NEW p \in Path, NEW q \in Path
  PROVE  IsPrefix(p, q) <=> Len(p) <= Len(q) /\ \A i \in 1 .. Len(p) : p[i] = q[i]
<1>1. /\ p \in Seq(1 .. MaxChoices) /\ q \in Seq(1 .. MaxChoices)
      /\ Len(p) \in Nat /\ Len(q) \in Nat
  BY LenProperties DEF Path
<1>2. ASSUME Len(p) <= Len(q), SubSeq(p, 1, Len(p)) = SubSeq(q, 1, Len(p)), NEW i \in 1 .. Len(p)
      PROVE  p[i] = q[i]
  <2>1. SubSeq(p, 1, Len(p))[i] = p[i] /\ SubSeq(q, 1, Len(p))[i] = q[i]
    BY <1>1, <1>2
  <2> QED  BY <1>2, <2>1
<1>3. ASSUME Len(p) <= Len(q), \A i \in 1 .. Len(p) : p[i] = q[i]
      PROVE  SubSeq(p, 1, Len(p)) = SubSeq(q, 1, Len(p))
  BY <1>1, <1>3
<1> QED  BY <1>2, <1>3 DEF IsPrefix

LEMMA PrefixOrder ==
  ASSUME NEW p \in Path, NEW q \in Path, NEW r \in Path
  PROVE  /\ IsPrefix(p, p)
         /\ IsPrefix(p, q) /\ IsPrefix(q, r) => IsPrefix(p, r)
<1>1. Len(p) \in Nat /\ Len(q) \in Nat /\ Len(r) \in Nat
  BY LenProperties DEF Path
<1>2. IsPrefix(p, p)
  BY <1>1, PrefixPointwise
<1>3. ASSUME IsPrefix(p, q), IsPrefix(q, r) PROVE IsPrefix(p, r)
  <2>1. Len(p) <= Len(q) /\ \A i \in 1 .. Len(p) : p[i] = q[i]
    BY <1>3, PrefixPointwise
  <2>2. Len(q) <= Len(r) /\ \A i \in 1 .. Len(q) : q[i] = r[i]
    BY <1>3, PrefixPointwise
  <2>3. Len(p) <= Len(r) /\ \A i \in 1 .. Len(p) : p[i] = r[i]
    BY <1>1, <2>1, <2>2
  <2> QED  BY <2>3, PrefixPointwise
<1> QED  BY <1>2, <1>3

LEMMA PrefixAppend ==
  ASSUME NEW p \in Path, NEW c \in 1 .. MaxChoices
  PROVE  Append(p, c) \in Path /\ IsPrefix(p, Append(p, c))
<1>1. p \in Seq(1 .. MaxChoices) /\ Len(p) \in Nat
  BY LenProperties DEF Path
<1> DEFINE q == Append(p, c)
<1>2. q \in Path /\ Len(q) = Len(p) + 1 /\ \A i \in 1 .. Len(p) : q[i] = p[i]
  BY <1>1, AppendProperties DEF Path
<1> HIDE DEF q
<1>3. IsPrefix(p, q)
  BY <1>1, <1>2, PrefixPointwise
<1> QED  BY <1>2, <1>3 DEF q

LEMMA PrefixEmpty == ASSUME NEW p \in Path PROVE IsPrefix(<<>>, p)
<1> DEFINE q == <<>>
<1>1. q \in Path /\ Len(q) = 0 /\ Len(p) \in Nat
  BY EmptyPath, LenProperties DEF Path
<1> HIDE DEF q
<1>2. IsPrefix(q, p)
  BY <1>1, PrefixPointwise
<1> QED  BY <1>2 DEF q

\* A place comes before all of some places; one set of places goes on from another.
Before(p, S) == \A q \in S : IsPrefix(p, q)
GoesOn(T, S) == \A q \in T : \E p \in S : IsPrefix(p, q)

LEMMA BeforeStays ==
  ASSUME NEW p \in Path, NEW S \in SUBSET Path, NEW T \in SUBSET Path, Before(p, S), GoesOn(T, S)
  PROVE  Before(p, T)
BY PrefixOrder DEF Before, GoesOn

LEMMA SubsetGoesOn ==
  ASSUME NEW S \in SUBSET Path, NEW T \in SUBSET S
  PROVE  GoesOn(T, S)
BY PrefixOrder DEF GoesOn

-----------------------------------------------------------------------------
(***************************************************************************)
(* What a reader is yet to save: the page it shows and, before it, the     *)
(* saves waiting for their turn that no adopted conflict has superseded.   *)
(***************************************************************************)
Coming(r) == {i \in 1 .. Len(r.waiting) : r.waiting[i].generation = r.generation}
Shown(r) == {r.path} \cup {r.waiting[i].path : i \in Coming(r)}

InLine(r) ==
  /\ \A i \in 1 .. Len(r.waiting) : r.waiting[i].generation <= r.generation
  /\ \A i \in Coming(r) : IsPrefix(r.waiting[i].path, r.path)
  /\ \A i, j \in Coming(r) : i < j => IsPrefix(r.waiting[i].path, r.waiting[j].path)

LEMMA ReaderTyped ==
  ASSUME NEW r \in ReaderType
  PROVE  /\ r.path \in Path /\ r.generation \in Nat /\ r.base \in Nat
         /\ r.waiting \in Seq(Link) /\ Len(r.waiting) \in Nat
         /\ \A i \in 1 .. Len(r.waiting) : r.waiting[i].path \in Path /\ r.waiting[i].generation \in Nat
         /\ Shown(r) \subseteq Path
<1>1. /\ r.path \in Path /\ r.generation \in Nat /\ r.base \in Nat
      /\ r.waiting \in Seq(Link) /\ Len(r.waiting) \in Nat
  BY LenProperties DEF ReaderType
<1>2. ASSUME NEW i \in 1 .. Len(r.waiting)
      PROVE  r.waiting[i].path \in Path /\ r.waiting[i].generation \in Nat
  <2>1. r.waiting[i] \in Link
    BY <1>1, ElementOfSeq
  <2> QED  BY <2>1 DEF Link
<1> QED  BY <1>1, <1>2 DEF Shown, Coming

\* A reading that is issued joins the line at its end.
LEMMA EmittedInLine ==
  ASSUME NEW r \in ReaderType, InLine(r)
  PROVE  /\ InLine(Emitted(r, r.path)) /\ Shown(Emitted(r, r.path)) = Shown(r)
         /\ Emitted(r, r.path).generation = r.generation /\ Emitted(r, r.path).open = r.open
<1> DEFINE w == [path |-> r.path, generation |-> r.generation]
           s == Append(r.waiting, w)
           e == [r EXCEPT !.signed = TRUE, !.sig = r.path, !.waiting = s]
<1>1. CASE r.signed /\ r.sig = r.path
  BY <1>1 DEF Emitted
<1>2. CASE ~ (r.signed /\ r.sig = r.path)
  <2>0. /\ r.path \in Path /\ r.generation \in Nat /\ r.waiting \in Seq(Link) /\ Len(r.waiting) \in Nat
        /\ \A i \in 1 .. Len(r.waiting) : r.waiting[i].path \in Path /\ r.waiting[i].generation \in Nat
    BY ReaderTyped
  <2>1. w \in Link /\ w.path = r.path /\ w.generation = r.generation
    BY <2>0 DEF Link
  <2>2. Emitted(r, r.path) = e
    BY <1>2 DEF Emitted
  <2>3. /\ e.path = r.path /\ e.generation = r.generation /\ e.open = r.open /\ e.waiting = s
    BY DEF ReaderType
  <2> HIDE DEF w
  <2>4. /\ Len(s) = Len(r.waiting) + 1 /\ s[Len(r.waiting) + 1] = w
        /\ \A i \in 1 .. Len(r.waiting) : s[i] = r.waiting[i]
    BY <2>0, <2>1, AppendProperties
  <2> HIDE DEF s, e
  <2>5. Coming(e) = Coming(r) \cup {Len(r.waiting) + 1}
    BY <2>0, <2>1, <2>3, <2>4 DEF Coming
  <2>6. \A i \in Coming(r) : i \in 1 .. Len(r.waiting) /\ i < Len(r.waiting) + 1 /\ e.waiting[i] = r.waiting[i]
    BY <2>0, <2>3, <2>4 DEF Coming
  <2>7. e.waiting[Len(r.waiting) + 1].path = r.path
    BY <2>1, <2>3, <2>4
  <2>8. Shown(e) = Shown(r)
    BY <2>3, <2>5, <2>6, <2>7 DEF Shown
  <2>9. ASSUME NEW i \in 1 .. Len(e.waiting) PROVE e.waiting[i].generation <= e.generation
    <3>1. i \in 1 .. Len(r.waiting) \/ i = Len(r.waiting) + 1
      BY <2>0, <2>3, <2>4
    <3> QED  BY <2>0, <2>1, <2>3, <2>4, <3>1 DEF InLine
  <2>10. ASSUME NEW i \in Coming(e) PROVE IsPrefix(e.waiting[i].path, e.path)
    BY <2>0, <2>3, <2>5, <2>6, <2>7, PrefixOrder DEF InLine
  <2>11. ASSUME NEW i \in Coming(e), NEW j \in Coming(e), i < j
         PROVE  IsPrefix(e.waiting[i].path, e.waiting[j].path)
    <3>1. CASE j = Len(r.waiting) + 1
      BY <2>3, <2>7, <2>10, <3>1
    <3>2. CASE j \in Coming(r)
      <4>1. i \in Coming(r)
        BY <2>0, <2>5, <2>6, <2>11, <3>2
      <4> QED  BY <2>6, <2>11, <3>2, <4>1 DEF InLine
    <3> QED  BY <2>5, <3>1, <3>2
  <2> QED  BY <2>2, <2>3, <2>8, <2>9, <2>10, <2>11 DEF InLine
<1> QED  BY <1>1, <1>2

\* The page moves on.
LEMMA MovedInLine ==
  ASSUME NEW r \in ReaderType, InLine(r), NEW p \in Path, IsPrefix(r.path, p),
         NEW s, s = [r EXCEPT !.path = p]
  PROVE  InLine(s) /\ GoesOn(Shown(s), Shown(r)) /\ s.path = p
<1>1. /\ s.path = p /\ s.waiting = r.waiting /\ s.generation = r.generation /\ Coming(s) = Coming(r)
  BY DEF ReaderType, Coming
<1>2. /\ r.path \in Path /\ Len(r.waiting) \in Nat
      /\ \A i \in 1 .. Len(r.waiting) : r.waiting[i].path \in Path
  BY ReaderTyped
<1>3. \A i \in Coming(r) : r.waiting[i].path \in Path
  BY <1>2 DEF Coming
<1>4. \A i \in Coming(r) : IsPrefix(r.waiting[i].path, p)
  BY <1>2, <1>3, PrefixOrder DEF InLine
<1>5. InLine(s)
  BY <1>1, <1>4 DEF InLine
<1>6. GoesOn(Shown(s), Shown(r))
  BY <1>1, <1>2, <1>3, PrefixOrder DEF GoesOn, Shown
<1> QED  BY <1>1, <1>5, <1>6

\* The save whose turn has come leaves the line at its front.
LEMMA TailInLine ==
  ASSUME NEW r \in ReaderType, InLine(r), r.waiting /= <<>>, NEW s,
         s.path = r.path, s.generation = r.generation, s.waiting = Tail(r.waiting)
  PROVE  /\ InLine(s) /\ Shown(s) \subseteq Shown(r)
         /\ Head(r.waiting).path \in Path
         /\ Head(r.waiting).generation = r.generation =>
              Head(r.waiting).path \in Shown(r) /\ Before(Head(r.waiting).path, Shown(s))
<1>1. /\ r.path \in Path /\ r.waiting \in Seq(Link) /\ Len(r.waiting) \in Nat
      /\ \A i \in 1 .. Len(r.waiting) : r.waiting[i].path \in Path /\ r.waiting[i].generation \in Nat
  BY ReaderTyped
<1>2. /\ Len(r.waiting) \in Nat \ {0} /\ Len(s.waiting) = Len(r.waiting) - 1
      /\ \A i \in 1 .. Len(s.waiting) : s.waiting[i] = r.waiting[i + 1]
  BY <1>1, EmptySeq, HeadTailProperties
<1>3. Head(r.waiting) = r.waiting[1] /\ 1 \in 1 .. Len(r.waiting)
  BY <1>1, <1>2
<1>4. \A i \in 1 .. Len(s.waiting) : i \in Nat /\ i + 1 \in 1 .. Len(r.waiting) /\ 1 < i + 1
  BY <1>2
<1>5. \A i \in Coming(s) :
        i \in Nat /\ i + 1 \in Coming(r) /\ 1 < i + 1 /\ s.waiting[i] = r.waiting[i + 1]
  BY <1>2, <1>4 DEF Coming
<1>6. Shown(s) \subseteq Shown(r)
  BY <1>5 DEF Shown
<1>7. InLine(s)
  <2>1. \A i \in 1 .. Len(s.waiting) : s.waiting[i].generation <= s.generation
    BY <1>2, <1>4 DEF InLine
  <2>2. \A i \in Coming(s) : IsPrefix(s.waiting[i].path, s.path)
    BY <1>5 DEF InLine
  <2>3. ASSUME NEW i \in Coming(s), NEW j \in Coming(s), i < j
        PROVE  IsPrefix(s.waiting[i].path, s.waiting[j].path)
    <3>1. i + 1 < j + 1
      BY <1>5, <2>3
    <3> QED  BY <1>5, <3>1 DEF InLine
  <2> QED  BY <2>1, <2>2, <2>3 DEF InLine
<1>8. ASSUME r.waiting[1].generation = r.generation
      PROVE  r.waiting[1].path \in Shown(r) /\ Before(r.waiting[1].path, Shown(s))
  <2>1. 1 \in Coming(r)
    BY <1>3, <1>8 DEF Coming
  <2>2. \A i \in Coming(s) : IsPrefix(r.waiting[1].path, s.waiting[i].path)
    BY <1>5, <2>1 DEF InLine
  <2>3. IsPrefix(r.waiting[1].path, s.path)
    BY <2>1 DEF InLine
  <2> QED  BY <2>1, <2>2, <2>3 DEF Shown, Before
<1> QED  BY <1>1, <1>3, <1>6, <1>7, <1>8

\* A reader that shows a place and whose waiting saves are all superseded.
LEMMA FreshInLine ==
  ASSUME NEW r \in ReaderType, \A i \in 1 .. Len(r.waiting) : r.waiting[i].generation < r.generation
  PROVE  InLine(r) /\ Shown(r) = {r.path}
<1>1. /\ r.generation \in Nat
      /\ \A i \in 1 .. Len(r.waiting) : r.waiting[i].generation \in Nat
  BY ReaderTyped
<1>2. Coming(r) = {}
  BY <1>1 DEF Coming
<1> QED  BY <1>1, <1>2 DEF InLine, Shown

-----------------------------------------------------------------------------
(***************************************************************************)
(* As long as no tab is closed, all that a device is yet to save goes on   *)
(* from all that it saved: the writes queued, the save under way, the      *)
(* saves waiting for their turn and the page that is shown lie on one line *)
(* of choices.  A conflict begins a new line, and finds the queue empty.   *)
(***************************************************************************)
\* p goes on from what the log l says was held at revision b.
From(l, b, p) == b > 0 => b <= Len(l) /\ IsPrefix(l[b].path, p)

\* What the live save and the reader of d, or d altogether, are yet to save.
Unsaved(d) == Shown(reader[d]) \cup (IF save[d].pc = "idle" THEN {} ELSE {save[d].path})
Ahead(d) == Unsaved(d) \cup {queue[d][i].path : i \in 1 .. Len(queue[d])}

ReaderLine(d) ==
  /\ InLine(reader[d])
  /\ reader[d].base > 0 => Before(log[reader[d].base].path, Shown(reader[d]))

SaveLine(d) ==
  save[d].pc /= "idle" =>
    /\ Before(save[d].path, Shown(reader[d]))
    /\ From(log, save[d].base, save[d].path)
    /\ save[d].pc = "sent" => queue[d] = <<>>

QueueLine(d) ==
  \A i \in 1 .. Len(queue[d]) :
    /\ Before(queue[d][i].path, Unsaved(d))
    /\ From(log, queue[d][i].base, queue[d][i].path)
    /\ \A j \in 1 .. Len(queue[d]) : i < j => IsPrefix(queue[d][i].path, queue[d][j].path)

ReplayLine(d) == drain[d].latest > 0 => Before(log[drain[d].latest].path, Ahead(d))

\* A reader that was never opened has left nothing behind.
ClosedLine(d) ==
  ~ reader[d].open =>
    /\ reader[d] = Closed /\ save[d].pc = "idle" /\ queue[d] = <<>> /\ drain[d].latest = 0
    /\ ~ cache[d].present

LinesInv ==
  \A d \in Device : ReaderLine(d) /\ SaveLine(d) /\ QueueLine(d) /\ ReplayLine(d) /\ ClosedLine(d)

\* What the row or an answer holds is what the server held at that revision.
Held(l, n, p) == n > 0 => n \in 1 .. Len(l) /\ l[n].path = p

LogInv ==
  /\ \A i, j \in 1 .. Len(log) : i <= j => IsPrefix(log[i].path, log[j].path)
  /\ Held(log, row.revision, row.path) /\ (row.revision = 0 => row.path = <<>>)
  /\ \A a \in replies : Held(log, a.row.revision, a.row.path)
  /\ \A q \in requests : From(log, q.base, q.path)
  /\ \A d \in Device : cache[d].present => From(log, cache[d].revision, cache[d].path)

\* An event stands for one place, whoever carries it.
Carries(e, p) ==
  \/ \E q \in requests : q.event = e /\ q.path = p
  \/ \E d \in Device : \/ \E i \in 1 .. Len(queue[d]) : queue[d][i].event = e /\ queue[d][i].path = p
                       \/ save[d].pc /= "idle" /\ save[d].event = e /\ save[d].path = p
  \/ \E i \in 1 .. Len(log) : log[i].event = e /\ log[i].path = p

PlacesInv == \A e \in Event : \A p, q \in Path : Carries(e, p) /\ Carries(e, q) => p = q

\* A live save waits for one request or one answer at most, about itself, and no
\* replay has gone further than the answer.
LiveMessagesOf(d) ==
  /\ \A q \in Waiting(d, "save") : save[d].pc = "sent" /\ q.event = save[d].event
  /\ \A a \in Answers(d, "save") :
       /\ save[d].pc = "sent"
       /\ a.status = "saved" => Lands(log, d, a.row.revision, save[d].event)
       /\ drain[d].latest <= a.row.revision
  /\ \A p, q \in Waiting(d, "save") : p = q
  /\ \A a, b \in Answers(d, "save") : a = b
  /\ Waiting(d, "save") = {} \/ Answers(d, "save") = {}

LiveMessagesInv == \A d \in Device : LiveMessagesOf(d)

\* The invariant of the time in which no tab is closed.
AInv == IInv /\ LinesInv /\ LogInv /\ PlacesInv /\ LiveMessagesInv

NoKill == \A d \in Device : ~ Kill(d)

\* The places of a device and of the log.
PlacesTyped ==
  /\ Len(log) \in Nat /\ \A n \in 1 .. Len(log) : log[n].path \in Path
  /\ row.revision \in Nat /\ row.path \in Path
  /\ \A a \in replies : a.row.revision \in Nat /\ a.row.path \in Path
  /\ \A d \in Device :
       /\ reader[d] \in ReaderType /\ Shown(reader[d]) \subseteq Path
       /\ reader[d].base \in Nat /\ reader[d].base <= Len(log)
       /\ save[d].path \in Path /\ save[d].base \in Nat
       /\ Len(queue[d]) \in Nat
       /\ \A i \in 1 .. Len(queue[d]) : queue[d][i].path \in Path
       /\ drain[d].latest \in Nat
       /\ Unsaved(d) \subseteq Path /\ Ahead(d) \subseteq Path

LEMMA TypedPlaces == TInv => PlacesTyped
<1> SUFFICES ASSUME TInv PROVE PlacesTyped
  OBVIOUS
<1>0. ServerInv /\ DevicesInv
  BY DEF TInv
<1>1. log \in Seq(Entry) /\ Len(log) \in Nat
  BY <1>0, LenProperties DEF ServerInv
<1>2. ASSUME NEW n \in 1 .. Len(log) PROVE log[n].path \in Path
  <2>1. log[n] \in Entry
    BY <1>1, ElementOfSeq
  <2> QED  BY <2>1 DEF Entry
<1>3. row.revision \in Nat /\ row.path \in Path
  BY <1>0 DEF ServerInv, RowType
<1>4. ASSUME NEW a \in replies PROVE a.row.revision \in Nat /\ a.row.path \in Path
  <2>1. a \in Answer
    BY <1>0 DEF ServerInv
  <2> QED  BY <2>1 DEF Answer, RowType
<1>5. ASSUME NEW d \in Device
      PROVE  /\ reader[d] \in ReaderType /\ Shown(reader[d]) \subseteq Path
             /\ reader[d].base \in Nat /\ reader[d].base <= Len(log)
             /\ save[d].path \in Path /\ save[d].base \in Nat
             /\ Len(queue[d]) \in Nat
             /\ \A i \in 1 .. Len(queue[d]) : queue[d][i].path \in Path
             /\ drain[d].latest \in Nat
             /\ Unsaved(d) \subseteq Path /\ Ahead(d) \subseteq Path
  <2>1. /\ reader[d] \in ReaderType /\ reader[d].base <= Len(log) /\ save[d] \in SaveType
        /\ queue[d] \in Seq(Item) /\ drain[d] \in DrainType
    BY <1>0 DEF DevicesInv
  <2>2. Shown(reader[d]) \subseteq Path /\ reader[d].base \in Nat
    BY <2>1, ReaderTyped
  <2>3. save[d].path \in Path /\ save[d].base \in Nat
    BY <2>1 DEF SaveType
  <2>4. Len(queue[d]) \in Nat
    BY <2>1, LenProperties
  <2>5. ASSUME NEW i \in 1 .. Len(queue[d]) PROVE queue[d][i].path \in Path
    <3>1. queue[d][i] \in Item
      BY <2>1, ElementOfSeq
    <3> QED  BY <3>1 DEF Item
  <2>6. drain[d].latest \in Nat
    BY <2>1 DEF DrainType
  <2>7. Unsaved(d) \subseteq Path
    BY <2>2, <2>3 DEF Unsaved
  <2>8. Ahead(d) \subseteq Path
    BY <2>5, <2>7 DEF Ahead
  <2> QED  BY <2>1, <2>2, <2>3, <2>4, <2>5, <2>6, <2>7, <2>8
<1> QED  BY <1>1, <1>2, <1>3, <1>4, <1>5 DEF PlacesTyped

LEMMA TypedPlacesNext == TInv' => PlacesTyped'
BY TypedPlaces, PTL

-----------------------------------------------------------------------------
(***************************************************************************)
(* What a step does to a reader: it shows and issues places further on, or *)
(* it adopts the answer to a live save, or it is opened.                   *)
(***************************************************************************)
ReaderGoesOn(d) ==
  /\ InLine(reader'[d]) /\ GoesOn(Shown(reader'[d]), Shown(reader[d]))
  /\ reader'[d].open = reader[d].open
  /\ \/ reader'[d].base = reader[d].base
     \/ \E a \in Answers(d, "save") :
          save[d].pc = "sent" /\ a.status = "saved" /\ reader'[d].base = a.row.revision

Adopts(d) ==
  /\ save[d].pc = "sent" /\ save'[d] = NoSave /\ queue'[d] = queue[d] /\ drain'[d] = drain[d]
  /\ log' = log /\ InLine(reader'[d]) /\ reader'[d].open = reader[d].open
  /\ \E a \in Answers(d, "save") :
       reader'[d].base = a.row.revision /\ Shown(reader'[d]) = {a.row.path}

Mounts(d) ==
  /\ ~ reader[d].open /\ reader'[d].open /\ ~ cache[d].present
  /\ save'[d] = save[d] /\ queue'[d] = queue[d] /\ log' = log /\ InLine(reader'[d])
  /\ \/ reader'[d].base = 0
     \/ reader'[d].base = row.revision /\ Shown(reader'[d]) = {row.path}

LEMMA SameReader ==
  ASSUME TInv, NEW d \in Device, InLine(reader[d]), reader'[d] = reader[d]
  PROVE  ReaderGoesOn(d)
<1>1. Shown(reader[d]) \subseteq Path
  BY TypedPlaces DEF PlacesTyped
<1> QED  BY <1>1, SubsetGoesOn DEF ReaderGoesOn

LEMMA MountedInLine ==
  ASSUME NEW base \in Nat, NEW path \in Path
  PROVE  LET m == Mounted(base, path)
         IN  m.open /\ m.base = base /\ InLine(m) /\ Shown(m) = {path}
<1> DEFINE r == [Closed EXCEPT !.open = TRUE, !.base = base, !.path = path]
<1>1. r \in ReaderType /\ r.base = base /\ r.path = path /\ r.open /\ r.waiting = <<>>
  BY Blanks DEF ReaderType, Closed
<1>2. Len(r.waiting) = 0
  BY <1>1
<1>3. Mounted(base, path) = Emitted(r, r.path)
  BY <1>1 DEF Mounted
<1> HIDE DEF r
<1>4. InLine(r) /\ Shown(r) = {path}
  BY <1>1, <1>2, FreshInLine
<1>5. Emitted(r, r.path).base = base
  BY <1>1, EmittedType DEF ReaderType
<1> QED  BY <1>1, <1>3, <1>4, <1>5, EmittedInLine

LEMMA OpenMounts ==
  ASSUME TInv, NEW d \in Device, ClosedLine(d), Open(d)
  PROVE  Mounts(d)
<1>1. reader \in [Device -> ReaderType] /\ row.revision \in Nat /\ row.path \in Path
  BY TypedPlaces DEF TInv, DevicesInv, PlacesTyped
<1>2. ASSUME NEW base \in Nat, NEW path \in Path, Mount(d, base, path), ~ reader[d].open, ~ cache[d].present,
             base = 0 \/ (base = row.revision /\ path = row.path)
      PROVE  Mounts(d)
  <2>1. /\ reader'[d] = Mounted(base, path) /\ save' = save /\ queue' = queue /\ log' = log
    BY <1>1, <1>2 DEF Mount, server
  <2> QED  BY <1>2, <2>1, MountedInLine DEF Mounts
<1>3. CASE OpenFromCache(d)
  BY <1>3 DEF OpenFromCache, ClosedLine
<1>4. CASE OpenFromServer(d)
  BY <1>1, <1>2, <1>4 DEF OpenFromServer
<1>5. CASE OpenAfresh(d)
  <2>1. 0 \in Nat /\ <<>> \in Path
    BY EmptyPath
  <2>2. /\ Mount(d, 0, <<>>) /\ ~ reader[d].open /\ ~ cache[d].present
    BY <1>5 DEF OpenAfresh
  <2>3. reader'[d] = Mounted(0, <<>>) /\ save' = save /\ queue' = queue /\ log' = log
    BY <1>1, <2>2 DEF Mount, server
  <2>4. Mounted(0, <<>>).open /\ Mounted(0, <<>>).base = 0 /\ InLine(Mounted(0, <<>>))
    BY <2>1, MountedInLine
  <2>5. reader'[d].open /\ reader'[d].base = 0 /\ InLine(reader'[d])
    BY <2>3, <2>4
  <2> QED  BY <2>2, <2>3, <2>5 DEF Mounts
<1> QED  BY <1>3, <1>4, <1>5 DEF Open

LEMMA ChooseGoesOn ==
  ASSUME TInv, NEW d \in Device, InLine(reader[d]), Choose(d)
  PROVE  ReaderGoesOn(d)
<1> DEFINE path == Append(reader[d].path, used.choices + 1)
           r == [reader[d] EXCEPT !.path = path]
<1>1. reader \in [Device -> ReaderType] /\ reader[d] \in ReaderType /\ reader[d].path \in Path
  BY DEF TInv, DevicesInv, ReaderType
<1>2. used.choices + 1 \in 1 .. MaxChoices
  BY Bounds DEF Choose, TInv, ServerInv, UsedType
<1>3. path \in Path /\ IsPrefix(reader[d].path, path)
  BY <1>1, <1>2, PrefixAppend
<1>4. reader'[d] = Emitted(r, path)
  BY <1>1 DEF Choose
<1> HIDE DEF path
<1>5. r \in ReaderType /\ r.base = reader[d].base /\ r.open = reader[d].open
  BY <1>1, <1>3 DEF ReaderType
<1>6. InLine(r) /\ GoesOn(Shown(r), Shown(reader[d])) /\ r.path = path
  BY <1>1, <1>3, MovedInLine
<1> HIDE DEF r
<1>7. Emitted(r, path).base = reader[d].base
  BY <1>3, <1>5, EmittedType
<1> QED  BY <1>4, <1>5, <1>6, <1>7, EmittedInLine DEF ReaderGoesOn

\* A save that begins carries a place of the reader's line, before all it still shows.
Begins(d) ==
  /\ save'[d].path \in Shown(reader[d]) /\ Before(save'[d].path, Shown(reader'[d]))
  /\ save'[d].base = reader[d].base /\ reader'[d].base = reader[d].base

LEMMA BeginGoesOn ==
  ASSUME TInv, NEW d \in Device, InLine(reader[d]), BeginSave(d)
  PROVE  ReaderGoesOn(d) /\ (save' = save \/ Begins(d))
<1>1. /\ reader \in [Device -> ReaderType] /\ reader[d] \in ReaderType /\ reader[d].waiting /= <<>>
      /\ save \in [Device -> SaveType] /\ Shown(reader[d]) \subseteq Path
  BY ReaderTyped DEF TInv, DevicesInv, BeginSave
<1>2. /\ reader'[d].path = reader[d].path /\ reader'[d].generation = reader[d].generation
      /\ reader'[d].waiting = Tail(reader[d].waiting) /\ reader'[d].base = reader[d].base
      /\ reader'[d].open = reader[d].open
  <2>1. CASE reader' = [reader EXCEPT ![d].waiting = Tail(reader[d].waiting)]
    BY <1>1, <2>1 DEF ReaderType
  <2>2. CASE reader' = [reader EXCEPT ![d].waiting = Tail(reader[d].waiting),
                                      ![d].signed = FALSE, ![d].sig = <<>>]
    BY <1>1, <2>2 DEF ReaderType
  <2> QED  BY <2>1, <2>2 DEF BeginSave
<1> DEFINE r == reader[d]
           s == reader'[d]
<1>3. /\ InLine(s) /\ Shown(s) \subseteq Shown(r)
      /\ Head(r.waiting).generation = r.generation =>
           Head(r.waiting).path \in Shown(r) /\ Before(Head(r.waiting).path, Shown(s))
  <2> HIDE DEF r, s
  <2>1. /\ r \in ReaderType /\ InLine(r) /\ r.waiting /= <<>>
        /\ s.path = r.path /\ s.generation = r.generation /\ s.waiting = Tail(r.waiting)
    BY <1>1, <1>2 DEF r, s
  <2> QED  BY <2>1, TailInLine
<1>4. ReaderGoesOn(d)
  BY <1>1, <1>2, <1>3, SubsetGoesOn DEF ReaderGoesOn
<1>5. CASE Head(reader[d].waiting).generation /= reader[d].generation
  BY <1>4, <1>5 DEF BeginSave
<1>6. CASE Head(reader[d].waiting).generation = reader[d].generation
  <2>1. save'[d].path = Head(reader[d].waiting).path /\ save'[d].base = reader[d].base
    BY <1>1, <1>6 DEF BeginSave
  <2> QED  BY <1>2, <1>3, <1>4, <1>6, <2>1 DEF Begins
<1> QED  BY <1>5, <1>6

LEMMA AnsweredGoesOn ==
  ASSUME TInv, NEW d \in Device, InLine(reader[d]), SaveAnswered(d)
  PROVE  ReaderGoesOn(d) \/ Adopts(d)
<1>1. /\ reader \in [Device -> ReaderType] /\ reader[d] \in ReaderType /\ save \in [Device -> SaveType]
      /\ save[d].pc = "sent" /\ save'[d] = NoSave /\ queue' = queue /\ drain' = drain /\ log' = log
  BY DEF TInv, DevicesInv, SaveAnswered, server
<1>2. PICK a \in Answers(d, "save") : SaveAccepted(d, a) \/ SaveConflicts(d, a) \/ SaveRefused(a)
  BY DEF SaveAnswered
<1>3. a.row.revision \in Nat /\ a.row.path \in Path
  BY TypedPlaces DEF Answers, PlacesTyped
<1>4. CASE SaveRefused(a)
  BY <1>4, SameReader DEF SaveRefused
<1>5. CASE SaveAccepted(d, a)
  <2>1. reader'[d] = [reader[d] EXCEPT !.base = a.row.revision]
    BY <1>1, <1>5 DEF SaveAccepted
  <2>2. /\ reader'[d].path = reader[d].path /\ reader'[d].generation = reader[d].generation
        /\ reader'[d].waiting = reader[d].waiting /\ reader'[d].base = a.row.revision
        /\ reader'[d].open = reader[d].open
    BY <1>1, <2>1 DEF ReaderType
  <2>3. InLine(reader'[d]) /\ Shown(reader'[d]) = Shown(reader[d])
    BY <2>2 DEF InLine, Shown, Coming
  <2>4. GoesOn(Shown(reader'[d]), Shown(reader[d]))
    BY <1>1, <2>3, ReaderTyped, SubsetGoesOn
  <2> QED  BY <1>1, <1>5, <2>2, <2>3, <2>4 DEF ReaderGoesOn, SaveAccepted
<1>6. CASE SaveConflicts(d, a)
  <2> DEFINE r == [reader[d] EXCEPT !.base = a.row.revision, !.path = a.row.path,
                                    !.generation = reader[d].generation + 1]
  <2>0. /\ reader[d].generation \in Nat /\ reader[d].generation + 1 \in Nat
        /\ Len(reader[d].waiting) \in Nat
        /\ \A i \in 1 .. Len(reader[d].waiting) : reader[d].waiting[i].generation \in Nat
    BY <1>1, ReaderTyped
  <2>1. /\ r \in ReaderType /\ r.base = a.row.revision /\ r.path = a.row.path
        /\ r.generation = reader[d].generation + 1 /\ r.waiting = reader[d].waiting
        /\ r.open = reader[d].open
    BY <1>1, <1>3, <2>0 DEF ReaderType
  <2>2. reader'[d] = Emitted(r, r.path)
    BY <1>1, <1>6 DEF SaveConflicts
  <2> HIDE DEF r
  <2>3. \A i \in 1 .. Len(r.waiting) : r.waiting[i].generation < r.generation
    BY <2>0, <2>1 DEF InLine
  <2>4. InLine(r) /\ Shown(r) = {a.row.path}
    BY <2>1, <2>3, FreshInLine
  <2>5. Emitted(r, r.path).base = a.row.revision
    BY <1>3, <2>1, EmittedType
  <2> QED  BY <1>1, <2>1, <2>2, <2>4, <2>5, EmittedInLine DEF Adopts
<1> QED  BY <1>2, <1>4, <1>5, <1>6

LEMMA ReaderStep ==
  ASSUME TInv, NEW d \in Device, InLine(reader[d]), ClosedLine(d), [Next]_vars, NoKill
  PROVE  ReaderGoesOn(d) \/ Adopts(d) \/ Mounts(d)
<1>1. reader \in [Device -> ReaderType]
  BY DEF TInv, DevicesInv
<1>2. CASE reader'[d] = reader[d]
  BY <1>2, SameReader
<1>3. ASSUME NEW e \in Device, e /= d, Open(e) \/ Choose(e) \/ BeginSave(e) \/ SaveAnswered(e)
      PROVE  reader'[d] = reader[d]
  BY <1>1, <1>3 DEF Open, OpenFromCache, OpenFromServer, OpenAfresh, Mount, Choose, BeginSave,
     SaveAnswered, SaveAccepted, SaveConflicts, SaveRefused
<1> QED
  BY <1>2, <1>3, ReaderFrame, OpenMounts, ChooseGoesOn, BeginGoesOn, AnsweredGoesOn DEF NoKill

-----------------------------------------------------------------------------
(***************************************************************************)
(* The lines are kept.                                                     *)
(***************************************************************************)
LEMMA BeginsHow ==
  ASSUME TInv, NEW d \in Device, InLine(reader[d]), [Next]_vars, NoKill, SaveBegins(d)
  PROVE  Begins(d)
<1>1. save[d].pc = "idle" /\ save'[d] /= save[d] /\ save \in [Device -> SaveType]
  BY DEF SaveBegins, TInv, DevicesInv
<1>2. PICK e \in Device : SaveStep(e)
  BY <1>1, SaveFrame DEF NoKill
<1>3. e = d
  BY <1>1, <1>2 DEF SaveStep, BeginSave, InspectQueue, SaveFails, Enqueue, SaveAnswered
<1>4. BeginSave(d)
  BY <1>1, <1>2, <1>3 DEF SaveStep, InspectQueue, SaveFails, Enqueue, SaveAnswered
<1> QED  BY <1>1, <1>4, BeginGoesOn

\* What a step leaves to save goes on from what there was to save.
LEMMA UnsavedGoesOn ==
  ASSUME TInv, TInv', NEW d \in Device, InLine(reader[d]), ReaderGoesOn(d), [Next]_vars, NoKill
  PROVE  GoesOn(Unsaved(d)', Unsaved(d))
<1>1. save[d].path \in Path
  BY TypedPlaces DEF PlacesTyped
<1>2. GoesOn(Shown(reader'[d]), Shown(reader[d]))
  BY DEF ReaderGoesOn
<1>3. ASSUME save'[d].pc /= "idle" PROVE \E p \in Unsaved(d) : IsPrefix(p, save'[d].path)
  <2>1. SaveMoves(d)
    BY SaveStepMoves
  <2>2. CASE save[d].pc /= "idle" /\ save'[d].path = save[d].path
    BY <1>1, <2>2, PrefixOrder DEF Unsaved
  <2>3. CASE SaveBegins(d)
    <3>1. save'[d].path \in Shown(reader[d]) /\ Shown(reader[d]) \subseteq Path
      BY <2>3, BeginsHow, TypedPlaces DEF Begins, PlacesTyped
    <3> QED  BY <3>1, PrefixOrder DEF Unsaved
  <2> QED  BY <1>3, <2>1, <2>2, <2>3 DEF SaveMoves
<1>4. ASSUME NEW q \in Unsaved(d)' PROVE \E p \in Unsaved(d) : IsPrefix(p, q)
  <2>1. CASE q \in Shown(reader'[d])
    BY <1>2, <2>1 DEF GoesOn, Unsaved
  <2>2. CASE save'[d].pc /= "idle" /\ q = save'[d].path
    BY <1>3, <2>2
  <2> QED  BY <1>4, <2>1, <2>2 DEF Unsaved
<1> QED  BY <1>4 DEF GoesOn

LEMMA AheadGoesOn ==
  ASSUME TInv, TInv', PassInv, OrderInv, NEW d \in Device, InLine(reader[d]), ReaderGoesOn(d),
         [Next]_vars, NoKill
  PROVE  GoesOn(Ahead(d)', Ahead(d))
<1>1. GoesOn(Unsaved(d)', Unsaved(d)) /\ Ahead(d) \subseteq Path
  BY UnsavedGoesOn, TypedPlaces DEF PlacesTyped
<1>2. ASSUME NEW i \in 1 .. Len(queue'[d]) PROVE \E p \in Ahead(d) : IsPrefix(p, queue'[d][i].path)
  <2>1. queue'[d][i].path \in Ahead(d)
    BY QueuedBefore DEF Ahead, Unsaved
  <2> QED  BY <1>1, <2>1, PrefixOrder
<1>3. ASSUME NEW q \in Ahead(d)' PROVE \E p \in Ahead(d) : IsPrefix(p, q)
  <2>1. CASE q \in Unsaved(d)'
    BY <1>1, <2>1 DEF GoesOn, Ahead
  <2>2. CASE \E i \in 1 .. Len(queue'[d]) : q = queue'[d][i].path
    BY <1>2, <2>2
  <2> QED  BY <1>3, <2>1, <2>2 DEF Ahead
<1> QED  BY <1>3 DEF GoesOn

LEMMA LogPlacesStay ==
  ASSUME TInv, [Next]_vars, NEW n \in 1 .. Len(log)
  PROVE  n \in 1 .. Len(log') /\ log'[n] = log[n]
<1>1. ServerInv
  BY DEF TInv
<1> QED  BY <1>1, LogGrows

LEMMA FromStays ==
  ASSUME TInv, [Next]_vars, NEW b \in Nat, NEW p, From(log, b, p)
  PROVE  From(log', b, p)
<1>1. Len(log) \in Nat /\ Len(log') \in Nat /\ Len(log) <= Len(log')
  BY LogGrows DEF TInv
<1>2. CASE b > 0
  <2>1. b \in 1 .. Len(log) /\ IsPrefix(log[b].path, p)
    BY <1>1, <1>2 DEF From
  <2>2. log'[b] = log[b] /\ b <= Len(log')
    BY <1>1, <2>1, LogPlacesStay
  <2> QED  BY <2>1, <2>2 DEF From
<1>3. CASE ~ b > 0
  BY <1>3 DEF From
<1> QED  BY <1>2, <1>3

\* The row a live save or a replay is answered with is the place it saved.
LEMMA LoggedPlace ==
  ASSUME TInv, PlacesInv, NEW d \in Device, NEW n, NEW e \in Event, Lands(log, d, n, e),
         NEW p \in Path, Carries(e, p)
  PROVE  n \in 1 .. Len(log) /\ log[n].path = p
<1>1. n \in 1 .. Len(log) /\ log[n].event = e /\ log[n].path \in Path
  BY TypedPlaces DEF Lands, PlacesTyped
<1>2. Carries(e, log[n].path)
  BY <1>1 DEF Carries
<1> QED  BY <1>1, <1>2 DEF PlacesInv

LEMMA SavedPlace ==
  ASSUME TInv, PlacesInv, LiveMessagesInv, NEW d \in Device, save[d].pc = "sent",
         NEW a \in Answers(d, "save"), a.status = "saved"
  PROVE  a.row.revision \in 1 .. Len(log) /\ log[a.row.revision].path = save[d].path
<1>1. Lands(log, d, a.row.revision, save[d].event)
  BY DEF LiveMessagesInv, LiveMessagesOf
<1>2. save[d].event \in Event /\ save[d].path \in Path
  BY TypedPlaces DEF TInv, DevicesInv, PlacesTyped
<1>3. Carries(save[d].event, save[d].path)
  BY DEF Carries
<1> QED  BY <1>1, <1>2, <1>3, LoggedPlace

LEMMA ReplayedPlace ==
  ASSUME TInv, PassInv, PlacesInv, MessagesInv, NEW d \in Device,
         NEW a \in Answers(d, "drain"), a.status = "saved"
  PROVE  /\ 1 \in 1 .. Len(queue[d]) /\ queue[d] /= <<>>
         /\ a.row.revision \in 1 .. Len(log) /\ log[a.row.revision].path = queue[d][1].path
<1>1. /\ Lands(log, d, a.row.revision, Head(drain[d].pass).event) /\ drain[d].pc = "sent"
  BY DEF MessagesInv, MessagesOf
<1>2. Head(drain[d].pass) = queue[d][1] /\ 1 \in 1 .. Len(queue[d]) /\ queue[d] /= <<>>
  BY <1>1, PassElements
<1>3. queue[d][1].event \in Event /\ queue[d][1].path \in Path
  BY <1>2, QueueElements, TypedPlaces DEF PlacesTyped
<1>4. Carries(queue[d][1].event, queue[d][1].path)
  BY <1>2 DEF Carries
<1> QED  BY <1>1, <1>2, <1>3, <1>4, LoggedPlace

LEMMA StepReaderLine ==
  ASSUME AInv, TInv', NEW d \in Device, [Next]_vars, NoKill
  PROVE  ReaderLine(d)'
<1>1. /\ TInv /\ PlacesInv /\ LiveMessagesInv /\ ReaderLine(d) /\ SaveLine(d) /\ ClosedLine(d)
      /\ \A a \in replies : Held(log, a.row.revision, a.row.path)
      /\ Held(log, row.revision, row.path)
  BY DEF AInv, IInv, LinesInv, LogInv
<1>2. /\ Len(log) \in Nat /\ reader[d].base \in Nat /\ reader[d].base <= Len(log)
      /\ Shown(reader[d]) \subseteq Path /\ \A n \in 1 .. Len(log) : log[n].path \in Path
      /\ save[d].path \in Path /\ row.path \in Path
      /\ \A a \in replies : a.row.revision \in Nat /\ a.row.path \in Path
  BY <1>1, TypedPlaces DEF PlacesTyped
<1>3. Shown(reader'[d]) \subseteq Path
  BY TypedPlacesNext DEF PlacesTyped
<1>4. InLine(reader[d]) /\ (ReaderGoesOn(d) \/ Adopts(d) \/ Mounts(d))
  BY <1>1, ReaderStep DEF ReaderLine
<1>5. ASSUME NEW n \in 1 .. Len(log), reader'[d].base = n, Before(log[n].path, Shown(reader'[d]))
      PROVE  ReaderLine(d)'
  <2>1. log'[n] = log[n]
    BY <1>1, LogPlacesStay
  <2> QED  BY <1>4, <1>5, <2>1 DEF ReaderLine, ReaderGoesOn, Adopts, Mounts
<1>6. CASE reader'[d].base = 0
  BY <1>4, <1>6 DEF ReaderLine, ReaderGoesOn, Adopts, Mounts
<1>7. CASE ReaderGoesOn(d) /\ reader'[d].base = reader[d].base /\ reader[d].base > 0
  <2>1. reader[d].base \in 1 .. Len(log) /\ Before(log[reader[d].base].path, Shown(reader[d]))
    BY <1>1, <1>2, <1>7 DEF ReaderLine
  <2>2. Before(log[reader[d].base].path, Shown(reader'[d]))
    BY <1>2, <1>3, <1>7, <2>1, BeforeStays DEF ReaderGoesOn
  <2> QED  BY <1>5, <1>7, <2>1, <2>2
<1>8. ASSUME NEW a \in Answers(d, "save"), ReaderGoesOn(d), save[d].pc = "sent", a.status = "saved",
             reader'[d].base = a.row.revision
      PROVE  ReaderLine(d)'
  <2>1. a.row.revision \in 1 .. Len(log) /\ log[a.row.revision].path = save[d].path
    BY <1>1, <1>8, SavedPlace
  <2>2. Before(save[d].path, Shown(reader[d]))
    BY <1>1, <1>8 DEF SaveLine
  <2>3. Before(save[d].path, Shown(reader'[d]))
    BY <1>2, <1>3, <1>8, <2>2, BeforeStays DEF ReaderGoesOn
  <2> QED  BY <1>5, <1>8, <2>1, <2>3
<1>9. ASSUME NEW n \in Nat, NEW p \in Path, n > 0, Held(log, n, p), reader'[d].base = n, Shown(reader'[d]) = {p}
      PROVE  ReaderLine(d)'
  <2>1. n \in 1 .. Len(log) /\ log[n].path = p
    BY <1>9 DEF Held
  <2>2. Before(p, Shown(reader'[d]))
    BY <1>9, PrefixOrder DEF Before
  <2> QED  BY <1>5, <1>9, <2>1, <2>2
<1>10. CASE Adopts(d) /\ reader'[d].base /= 0
  <2>1. PICK a \in Answers(d, "save") : reader'[d].base = a.row.revision /\ Shown(reader'[d]) = {a.row.path}
    BY <1>10 DEF Adopts
  <2>2. a \in replies /\ a.row.revision \in Nat /\ a.row.path \in Path /\ a.row.revision > 0
    BY <1>2, <1>10, <2>1 DEF Answers
  <2> QED  BY <1>1, <1>9, <2>1, <2>2
<1>11. CASE Mounts(d) /\ reader'[d].base /= 0
  <2>1. /\ row.revision \in Nat /\ row.revision > 0
        /\ reader'[d].base = row.revision /\ Shown(reader'[d]) = {row.path}
    BY <1>1, <1>11, TypedPlaces DEF Mounts, PlacesTyped
  <2> QED  BY <1>1, <1>2, <1>9, <2>1
<1> QED  BY <1>2, <1>4, <1>6, <1>7, <1>8, <1>10, <1>11 DEF ReaderGoesOn

\* A live save that has been sent found the queue empty, and it stays so.
LEMMA SentQueue ==
  ASSUME TInv, PassInv, OrderInv, NEW d \in Device, SaveLine(d), [Next]_vars, save'[d].pc = "sent"
  PROVE  queue'[d] = <<>>
<1>1. SaveMoves(d) /\ save \in [Device -> SaveType] /\ queue \in [Device -> Seq(Item)]
  BY SaveStepMoves DEF TInv, DevicesInv
<1>2. CASE save[d].pc = "sent"
  <2>1. queue[d] = <<>> /\ Len(queue[d]) = 0
    BY <1>2 DEF SaveLine
  <2>2. ~ QueueLonger(d)
    BY DEF QueueLonger
  <2>3. ~ ItemDone(d)
    BY <2>1, PassElements DEF ItemDone
  <2> QED  BY <2>1, <2>2, <2>3, QueueStep
<1>3. CASE save[d].pc /= "sent"
  <2>1. save'[d] /= save[d]
    BY <1>3
  <2>2. PICK e \in Device : SaveStep(e) \/ Kill(e)
    BY <2>1, SaveFrame
  <2>3. e = d
    BY <1>1, <2>1, <2>2 DEF SaveStep, BeginSave, InspectQueue, SaveFails, Enqueue, SaveAnswered, Kill
  <2>4. InspectQueue(d) \/ BeginSave(d) \/ save' = [save EXCEPT ![d].pc = "enqueue"]
          \/ save' = [save EXCEPT ![d] = NoSave]
    BY <2>2, <2>3 DEF SaveStep, SaveFails, Enqueue, SaveAnswered, Kill
  <2>5. InspectQueue(d)
    BY <1>1, <1>3, <2>4 DEF BeginSave, SaveType, NoSave
  <2>6. queue[d] = <<>> /\ queue' = queue
    BY <1>1, <2>5 DEF InspectQueue, local, SaveType
  <2> QED  BY <2>6
<1> QED  BY <1>2, <1>3

LEMMA StepSaveLine ==
  ASSUME AInv, TInv', NEW d \in Device, [Next]_vars, NoKill
  PROVE  SaveLine(d)'
<1>1. /\ TInv /\ PassInv /\ OrderInv /\ ReaderLine(d) /\ SaveLine(d) /\ ClosedLine(d) /\ InLine(reader[d])
  BY DEF AInv, IInv, LinesInv, ReaderLine
<1> SUFFICES ASSUME save'[d].pc /= "idle"
             PROVE  /\ Before(save'[d].path, Shown(reader'[d]))
                    /\ From(log', save'[d].base, save'[d].path)
  BY <1>1, SentQueue DEF SaveLine
<1>2. /\ save[d].path \in Path /\ save[d].base \in Nat /\ Shown(reader[d]) \subseteq Path
      /\ reader[d].base \in Nat /\ Shown(reader'[d]) \subseteq Path
      /\ reader[d].base <= Len(log)
  BY <1>1, TypedPlaces, TypedPlacesNext DEF PlacesTyped
<1>3. CASE SaveBegins(d)
  <2>1. Begins(d)
    BY <1>1, <1>3, BeginsHow
  <2>2. From(log, reader[d].base, save'[d].path)
    BY <1>1, <1>2, <2>1 DEF ReaderLine, Begins, From, Before
  <2>3. From(log', reader[d].base, save'[d].path)
    BY <1>1, <1>2, <2>2, FromStays
  <2> QED  BY <2>1, <2>3 DEF Begins
<1>4. CASE /\ save[d].pc /= "idle" /\ save'[d].base = save[d].base /\ save'[d].path = save[d].path
  <2>1. /\ Before(save[d].path, Shown(reader[d])) /\ From(log, save[d].base, save[d].path)
    BY <1>1, <1>4 DEF SaveLine
  <2>2. ~ Adopts(d)
    BY DEF Adopts, NoSave
  <2>3. ReaderGoesOn(d)
    BY <1>1, <1>4, <2>2, ReaderStep DEF Mounts, ClosedLine
  <2>4. Before(save[d].path, Shown(reader'[d]))
    BY <1>2, <2>1, <2>3, BeforeStays DEF ReaderGoesOn
  <2>5. From(log', save[d].base, save[d].path)
    BY <1>1, <1>2, <2>1, FromStays
  <2> QED  BY <1>4, <2>4, <2>5
<1>5. SaveMoves(d)
  BY <1>1, SaveStepMoves
<1> QED  BY <1>3, <1>4, <1>5 DEF SaveMoves

LEMMA StepQueueLine ==
  ASSUME AInv, TInv', NEW d \in Device, [Next]_vars, NoKill
  PROVE  QueueLine(d)'
<1>1. /\ TInv /\ PassInv /\ OrderInv /\ ReaderLine(d) /\ SaveLine(d) /\ QueueLine(d) /\ ClosedLine(d)
      /\ InLine(reader[d])
  BY DEF AInv, IInv, LinesInv, ReaderLine
<1>2. /\ Len(queue[d]) \in Nat /\ \A i \in 1 .. Len(queue[d]) : queue[d][i].path \in Path
      /\ \A i \in 1 .. Len(queue[d]) : queue[d][i].base \in Nat
      /\ save[d].path \in Path /\ save[d].base \in Nat /\ Shown(reader[d]) \subseteq Path
      /\ Unsaved(d) \subseteq Path /\ Unsaved(d)' \subseteq Path /\ Shown(reader'[d]) \subseteq Path
  BY <1>1, TypedPlaces, TypedPlacesNext, QueueElements DEF PlacesTyped
<1>3. ReaderGoesOn(d) \/ queue'[d] = <<>>
  <2>1. CASE Adopts(d)
    BY <1>1, <2>1 DEF Adopts, SaveLine
  <2>2. CASE Mounts(d)
    BY <1>1, <2>2 DEF Mounts, ClosedLine
  <2> QED  BY <1>1, <2>1, <2>2, ReaderStep
<1>4. CASE queue'[d] = <<>>
  <2>1. Len(queue'[d]) = 0
    BY <1>4
  <2> QED  BY <2>1 DEF QueueLine
<1>5. CASE ReaderGoesOn(d)
  <2>0. GoesOn(Unsaved(d)', Unsaved(d))
    BY <1>1, <1>5, UnsavedGoesOn
  \* A write that was queued keeps its place in the line.
  <2>1. ASSUME NEW i \in 1 .. Len(queue[d])
        PROVE  /\ Before(queue[d][i].path, Unsaved(d)') /\ From(log', queue[d][i].base, queue[d][i].path)
               /\ \A j \in 1 .. Len(queue[d]) : i < j => IsPrefix(queue[d][i].path, queue[d][j].path)
    <3>1. /\ Before(queue[d][i].path, Unsaved(d)) /\ From(log, queue[d][i].base, queue[d][i].path)
          /\ \A j \in 1 .. Len(queue[d]) : i < j => IsPrefix(queue[d][i].path, queue[d][j].path)
      BY <1>1 DEF QueueLine
    <3>2. Before(queue[d][i].path, Unsaved(d)')
      BY <1>2, <2>0, <3>1, BeforeStays
    <3>3. From(log', queue[d][i].base, queue[d][i].path)
      BY <1>1, <1>2, <3>1, FromStays
    <3> QED  BY <3>1, <3>2, <3>3
  <2>2. CASE queue'[d] = queue[d]
    BY <2>1, <2>2 DEF QueueLine
  <2>3. CASE QueueShorter(d)
    <3>1. \A i \in 1 .. Len(queue'[d]) : i + 1 \in 1 .. Len(queue[d]) /\ queue'[d][i] = queue[d][i + 1]
      BY <1>2, <2>3 DEF QueueShorter
    <3>2. \A i, j \in 1 .. Len(queue'[d]) : i < j => i + 1 < j + 1
      BY <1>2, <2>3 DEF QueueShorter
    <3> QED  BY <2>1, <3>1, <3>2 DEF QueueLine
  <2>4. CASE QueueLonger(d)
    <3>1. /\ Before(save[d].path, Shown(reader[d])) /\ From(log, save[d].base, save[d].path)
          /\ save[d].path \in Unsaved(d) /\ Unsaved(d)' = Shown(reader'[d])
      BY <1>1, <2>4 DEF SaveLine, QueueLonger, Unsaved
    <3>2. Before(save[d].path, Unsaved(d)')
      BY <1>2, <1>5, <3>1, BeforeStays DEF ReaderGoesOn
    <3>3. From(log', save[d].base, save[d].path)
      BY <1>1, <1>2, <3>1, FromStays
    <3>4. \A i \in 1 .. Len(queue[d]) : IsPrefix(queue[d][i].path, save[d].path)
      BY <1>1, <3>1 DEF QueueLine, Before
    <3> DEFINE n == Len(queue[d]) + 1
    <3>5. /\ \A i \in 1 .. Len(queue'[d]) : i \in 1 .. Len(queue[d]) \/ i = n
          /\ \A i \in 1 .. Len(queue[d]) : queue'[d][i] = queue[d][i] /\ i < n
          /\ \A i, j \in 1 .. Len(queue'[d]) : i < j => i \in 1 .. Len(queue[d])
          /\ queue'[d][n].base = save[d].base /\ queue'[d][n].path = save[d].path
      BY <1>2, <2>4 DEF QueueLonger
    <3> HIDE DEF n
    <3>6. ASSUME NEW i \in 1 .. Len(queue'[d])
          PROVE  /\ Before(queue'[d][i].path, Unsaved(d)')
                 /\ From(log', queue'[d][i].base, queue'[d][i].path)
      BY <2>1, <3>2, <3>3, <3>5
    <3>7. ASSUME NEW i \in 1 .. Len(queue'[d]), NEW j \in 1 .. Len(queue'[d]), i < j
          PROVE  IsPrefix(queue'[d][i].path, queue'[d][j].path)
      BY <2>1, <3>4, <3>5, <3>7
    <3> QED  BY <3>6, <3>7 DEF QueueLine
  <2> QED  BY <1>1, <2>2, <2>3, <2>4, QueueStep
<1> QED  BY <1>3, <1>4, <1>5

\* The revision a replay goes on from was spent on a place before all it has left.
LEMMA StepReplayLine ==
  ASSUME AInv, TInv', NEW d \in Device, [Next]_vars, NoKill
  PROVE  ReplayLine(d)'
<1> SUFFICES ASSUME drain'[d].latest > 0
             PROVE  Before(log'[drain'[d].latest].path, Ahead(d)')
  BY DEF ReplayLine
<1>1. /\ TInv /\ PassInv /\ OrderInv /\ MessagesInv /\ LatestInv /\ PlacesInv /\ LiveMessagesInv
      /\ ReaderLine(d) /\ SaveLine(d) /\ QueueLine(d) /\ ReplayLine(d) /\ ClosedLine(d) /\ InLine(reader[d])
      /\ LogInv
  BY DEF AInv, IInv, LinesInv, ReaderLine
<1>2. /\ Ahead(d) \subseteq Path /\ Ahead(d)' \subseteq Path /\ Len(log) \in Nat
      /\ \A n \in 1 .. Len(log) : log[n].path \in Path
      /\ drain[d].latest \in Nat /\ drain'[d].latest \in Nat
      /\ Unsaved(d) \subseteq Path /\ Unsaved(d)' \subseteq Path
      /\ Len(queue[d]) \in Nat /\ \A i \in 1 .. Len(queue[d]) : queue[d][i].path \in Path
  BY <1>1, TypedPlaces, TypedPlacesNext DEF PlacesTyped
<1>3. drain[d].latest > 0 => drain[d].latest \in 1 .. Len(log)
  BY <1>1, <1>2 DEF LatestInv, LatestOf, Lands
<1>4. CASE drain'[d].latest = drain[d].latest /\ ReaderGoesOn(d)
  <2> DEFINE n == drain[d].latest
  <2>1. n \in 1 .. Len(log) /\ log'[n] = log[n] /\ log[n].path \in Path /\ Before(log[n].path, Ahead(d))
    BY <1>1, <1>2, <1>3, <1>4, LogPlacesStay DEF ReplayLine
  <2>2. GoesOn(Ahead(d)', Ahead(d))
    BY <1>1, <1>4, AheadGoesOn
  <2>3. Before(log[n].path, Ahead(d)')
    BY <1>2, <2>1, <2>2, BeforeStays
  <2> QED  BY <1>4, <2>1, <2>3
<1>5. CASE Adopts(d)
  <2>1. PICK a \in Answers(d, "save") : Shown(reader'[d]) = {a.row.path}
    BY <1>5 DEF Adopts
  <2>2. /\ queue'[d] = <<>> /\ save'[d].pc = "idle" /\ log' = log /\ drain'[d] = drain[d]
    BY <1>1, <1>5 DEF Adopts, NoSave, SaveLine
  <2>3. Len(queue'[d]) = 0
    BY <2>2
  <2>4. Ahead(d)' = {a.row.path}
    BY <2>1, <2>2, <2>3 DEF Ahead, Unsaved
  <2>5. /\ a.row.revision \in 1 .. Len(log) /\ log[a.row.revision].path = a.row.path
        /\ drain[d].latest <= a.row.revision
    <3>1. a \in replies /\ drain[d].latest <= a.row.revision /\ a.row.revision \in Nat
      BY <1>1, TypedPlaces DEF Answers, LiveMessagesInv, LiveMessagesOf, PlacesTyped
    <3>2. a.row.revision > 0
      BY <1>2, <2>2, <3>1
    <3> QED  BY <1>1, <3>1, <3>2 DEF LogInv, Held
  <2>6. IsPrefix(log[drain[d].latest].path, a.row.path)
    BY <1>1, <1>3, <2>2, <2>5 DEF LogInv
  <2> QED  BY <2>2, <2>4, <2>6 DEF Before
<1>6. CASE Mounts(d)
  <2>1. drain[d].latest = 0 /\ queue[d] = <<>> /\ Len(queue[d]) = 0
    BY <1>1, <1>6 DEF Mounts, ClosedLine
  <2>2. ~ ItemDone(d)
    BY <1>1, <2>1, PassElements DEF ItemDone
  <2>3. drain'[d].latest = 0
    BY <1>1, <2>1, <2>2, ReplayStep DEF ReplayMoves, ReplayKept, ReplayEnds, Listed, ItemSent
  <2> QED  BY <2>3
<1>7. ASSUME NEW a \in Answers(d, "drain"), a.status = "saved", drain'[d].latest = a.row.revision,
             ItemDone(d), ReaderGoesOn(d)
      PROVE  Before(log'[drain'[d].latest].path, Ahead(d)')
  <2> DEFINE n == a.row.revision
             p == queue[d][1].path
  <2>1. /\ 1 \in 1 .. Len(queue[d]) /\ queue[d] /= <<>>
        /\ n \in 1 .. Len(log) /\ log[n].path = p
    BY <1>1, <1>7, ReplayedPlace
  <2>2. log'[n] = log[n] /\ p \in Path
    BY <1>1, <1>2, <2>1, LogPlacesStay
  <2>3. GoesOn(Unsaved(d)', Unsaved(d)) /\ Before(p, Unsaved(d))
    BY <1>1, <1>7, <2>1, UnsavedGoesOn DEF QueueLine
  <2>4. Before(p, Unsaved(d)')
    BY <1>2, <2>2, <2>3, BeforeStays
  <2>5. QueueShorter(d)
    <3>1. queue'[d] = Tail(queue[d]) /\ queue[d] \in Seq(Item)
      BY <1>1, <1>7, QueueElements DEF ItemDone
    <3> QED  BY <2>1, <3>1, HeadTailProperties DEF QueueShorter
  <2>6. ASSUME NEW i \in 1 .. Len(queue'[d]) PROVE IsPrefix(p, queue'[d][i].path)
    <3>1. i + 1 \in 1 .. Len(queue[d]) /\ 1 < i + 1 /\ queue'[d][i] = queue[d][i + 1]
      BY <1>2, <2>5 DEF QueueShorter
    <3> QED  BY <1>1, <2>1, <3>1 DEF QueueLine
  <2>7. Before(p, Ahead(d)')
    BY <2>4, <2>6 DEF Before, Ahead
  <2> QED  BY <1>7, <2>1, <2>2, <2>7
<1>8. /\ ReaderGoesOn(d) \/ Adopts(d) \/ Mounts(d)
      /\ \/ drain'[d].latest = drain[d].latest
         \/ ItemDone(d) /\ \E a \in Answers(d, "drain") :
                              a.status = "saved" /\ drain'[d].latest = a.row.revision
  <2>1. drain'[d].latest /= 0
    BY <1>2
  <2> QED
    BY <1>1, <2>1, ReaderStep, ReplayStep
    DEF ReplayMoves, ReplayKept, ReplayEnds, Listed, ItemSent, ItemDone
<1> QED  BY <1>4, <1>5, <1>6, <1>7, <1>8

\* Only an open reader leaves anything behind.
LEMMA StepClosedLine ==
  ASSUME AInv, TInv', NEW d \in Device, [Next]_vars, NoKill
  PROVE  ClosedLine(d)'
<1> SUFFICES ASSUME ~ reader'[d].open
             PROVE  /\ reader'[d] = Closed /\ save'[d].pc = "idle" /\ queue'[d] = <<>>
                    /\ drain'[d].latest = 0 /\ ~ cache'[d].present
  BY DEF ClosedLine
<1>1. /\ TInv /\ PassInv /\ OrderInv /\ MessagesInv /\ LiveMessagesInv /\ ClosedLine(d) /\ SaveLine(d)
      /\ InLine(reader[d])
  BY DEF AInv, IInv, LinesInv, ReaderLine
<1>2. ~ reader[d].open
  BY <1>1, ReaderStep DEF ReaderGoesOn, Adopts, Mounts
<1>3. /\ reader[d] = Closed /\ save[d].pc = "idle" /\ queue[d] = <<>> /\ Len(queue[d]) = 0
      /\ drain[d].latest = 0 /\ ~ cache[d].present
  BY <1>1, <1>2 DEF ClosedLine
<1>4. ~ ItemDone(d) /\ ~ Listed(d) /\ ~ QueueLonger(d) /\ drain[d].pc \notin {"item", "sent"}
  BY <1>1, <1>3, PassElements DEF ItemDone, Listed, QueueLonger
<1>5. queue'[d] = <<>>
  BY <1>1, <1>3, <1>4, QueueStep
<1>6. drain'[d].latest = 0
  BY <1>1, <1>3, <1>4, ReplayStep DEF ReplayMoves, ReplayKept, ReplayEnds, ItemSent
<1>7. /\ reader \in [Device -> ReaderType] /\ save \in [Device -> SaveType]
      /\ cache \in [Device -> CacheType]
  BY <1>1 DEF TInv, DevicesInv
<1>8. ~ SaveStep(d) /\ ~ ReplayAnswered(d) /\ ~ Choose(d)
  BY <1>2, <1>3, <1>4 DEF SaveStep, BeginSave, InspectQueue, SaveFails, Enqueue, SaveAnswered,
     ReplayAnswered, Choose
<1>9. ~ Open(d)
  BY <1>1, OpenMounts DEF Mounts
<1>10. save'[d] = save[d]
  <2>1. ASSUME NEW e \in Device, e /= d, SaveStep(e) PROVE save'[d] = save[d]
    BY <1>7, <2>1 DEF SaveStep, BeginSave, InspectQueue, SaveFails, Enqueue, SaveAnswered
  <2> QED  BY <1>8, <2>1, SaveFrame DEF NoKill
<1>11. reader'[d] = reader[d]
  <2>1. ASSUME NEW e \in Device, e /= d, Open(e) \/ Choose(e) \/ BeginSave(e) \/ SaveAnswered(e)
        PROVE  reader'[d] = reader[d]
    BY <1>7, <2>1 DEF Open, OpenFromCache, OpenFromServer, OpenAfresh, Mount, Choose, BeginSave,
       SaveAnswered, SaveAccepted, SaveConflicts, SaveRefused
  <2> QED  BY <1>8, <1>9, <2>1, ReaderFrame DEF NoKill, SaveStep
<1>12. cache'[d] = cache[d]
  <2>1. ASSUME NEW e \in Device, e /= d, OpenFromServer(e) \/ BeginSave(e) \/ SaveAnswered(e) \/ ReplayAnswered(e)
        PROVE  cache'[d] = cache[d]
    BY <1>7, <2>1 DEF OpenFromServer, BeginSave, SaveAnswered, SaveAccepted, SaveConflicts, SaveRefused,
       ReplayAnswered, ReplayAccepted, ReplayConflicts, ReplayRefused
  <2> QED  BY <1>8, <1>9, <2>1, CacheFrame DEF SaveStep, Open
<1> QED  BY <1>3, <1>5, <1>6, <1>10, <1>11, <1>12

LEMMA StepLinesInv ==
  ASSUME AInv, TInv', [Next]_vars, NoKill PROVE LinesInv'
BY StepReaderLine, StepSaveLine, StepQueueLine, StepReplayLine, StepClosedLine DEF LinesInv

-----------------------------------------------------------------------------
(***************************************************************************)
(* The log is one line, and what answers, caches and requests hold stems   *)
(* from it.                                                                *)
(***************************************************************************)
\* A handled save goes on from the row, and makes the row what it carries.
LEMMA HandledPlace ==
  ASSUME AInv, [Next]_vars, NEW q \in requests, Handle(q), log' /= log
  PROVE  /\ q.base = Len(log) /\ Len(log') = Len(log) + 1 /\ q.path \in Path
         /\ \A i \in 1 .. Len(log) : log'[i] = log[i]
         /\ log'[Len(log) + 1].path = q.path /\ log'[Len(log) + 1].event = q.event
         /\ row'.path = q.path /\ row'.revision = Len(log) + 1
         /\ IsPrefix(row.path, q.path)
         /\ \A i \in 1 .. Len(log) : IsPrefix(log[i].path, q.path)
<1>1. /\ ServerInv /\ TInv /\ LogInv /\ q \in Put /\ row.revision = Len(log) /\ Len(log) \in Nat
  BY TypedPlaces DEF AInv, IInv, TInv, ServerInv, PlacesTyped
<1>2. /\ Applies(row, q) /\ Len(log') = Len(log) + 1
      /\ \A i \in 1 .. Len(log) : log'[i] = log[i]
      /\ log'[Len(log')] = [event |-> q.event, device |-> q.device, path |-> q.path]
  BY <1>1, HandledRow
<1>3. q.base = Len(log) /\ q.path \in Path
  BY <1>1, <1>2 DEF Applies, Current, Put
<1>4. row' = ApplyBody(q)
  BY <1>2 DEF Handle, PutRow
<1>5. row'.path = q.path /\ row'.revision = Len(log) + 1
  BY <1>3, <1>4 DEF ApplyBody
<1>6. From(log, q.base, q.path) /\ Held(log, row.revision, row.path)
      /\ \A i, j \in 1 .. Len(log) : i <= j => IsPrefix(log[i].path, log[j].path)
  BY <1>1 DEF LogInv
<1>7. ASSUME NEW i \in 1 .. Len(log) PROVE IsPrefix(log[i].path, q.path)
  <2>1. /\ Len(log) \in 1 .. Len(log) /\ i <= Len(log) /\ Len(log) > 0
    BY <1>1
  <2>2. IsPrefix(log[i].path, log[Len(log)].path) /\ IsPrefix(log[Len(log)].path, q.path)
    BY <1>3, <1>6, <2>1 DEF From
  <2>3. log[i].path \in Path /\ log[Len(log)].path \in Path
    BY <1>1, <2>1, TypedPlaces DEF PlacesTyped
  <2> QED  BY <1>3, <2>2, <2>3, PrefixOrder
<1>8. IsPrefix(row.path, q.path)
  <2>1. CASE Len(log) = 0
    <3>1. row.path = <<>>
      BY <1>1, <2>1 DEF LogInv
    <3> QED  BY <1>3, <3>1, PrefixEmpty
  <2>2. CASE Len(log) > 0
    BY <1>1, <1>6, <1>7, <2>2 DEF Held
  <2> QED  BY <1>1, <2>1, <2>2
<1> QED  BY <1>1, <1>2, <1>3, <1>5, <1>7, <1>8

LEMMA StepLogInv ==
  ASSUME AInv, TInv', [Next]_vars, NoKill PROVE LogInv'
<1>1. /\ TInv /\ PassInv /\ OrderInv /\ LogInv /\ PlacesTyped
      /\ \A d \in Device : ReaderLine(d) /\ SaveLine(d) /\ QueueLine(d) /\ ReplayLine(d) /\ ClosedLine(d)
  BY TypedPlaces DEF AInv, IInv, LinesInv
<1>2. /\ Len(log) \in Nat /\ \A n \in 1 .. Len(log) : log[n].path \in Path
      /\ row.revision \in Nat /\ row.path \in Path
      /\ \A a \in replies : a.row.revision \in Nat /\ a.row.path \in Path
  BY <1>1 DEF PlacesTyped
<1>3. \/ log' = log /\ row' = row
      \/ \E q \in requests : Handle(q) /\ log' /= log
  <2>1. ASSUME NEW q \in requests, Handle(q) PROVE (row' = row /\ log' = log) \/ log' /= log
    <3>1. \/ row' = row /\ log' = log
          \/ Len(log') = Len(log) + 1
      BY <1>1, <2>1, HandledRow DEF TInv
    <3> QED  BY <1>2, <3>1
  <2> QED  BY <2>1, LogFrame DEF server
<1>4. ASSUME NEW n \in Nat, NEW p, Held(log, n, p) PROVE Held(log', n, p)
  BY <1>1, <1>4, LogPlacesStay DEF Held
<1>5. /\ \A i, j \in 1 .. Len(log') : i <= j => IsPrefix(log'[i].path, log'[j].path)
      /\ Held(log', row'.revision, row'.path) /\ (row'.revision = 0 => row'.path = <<>>)
  <2>1. CASE log' = log /\ row' = row
    BY <1>1, <2>1 DEF LogInv
  <2>2. ASSUME NEW q \in requests, Handle(q), log' /= log
        PROVE  /\ \A i, j \in 1 .. Len(log') : i <= j => IsPrefix(log'[i].path, log'[j].path)
               /\ Held(log', row'.revision, row'.path) /\ (row'.revision = 0 => row'.path = <<>>)
    <3>1. /\ Len(log') = Len(log) + 1 /\ q.path \in Path
          /\ \A i \in 1 .. Len(log) : log'[i] = log[i]
          /\ log'[Len(log) + 1].path = q.path
          /\ row'.path = q.path /\ row'.revision = Len(log) + 1
          /\ \A i \in 1 .. Len(log) : IsPrefix(log[i].path, q.path)
      BY <2>2, HandledPlace
    <3>2. ASSUME NEW i \in 1 .. Len(log'), NEW j \in 1 .. Len(log'), i <= j
          PROVE  IsPrefix(log'[i].path, log'[j].path)
      <4>1. CASE j \in 1 .. Len(log)
        <5>1. i \in 1 .. Len(log)
          BY <1>2, <3>1, <3>2, <4>1
        <5> QED  BY <1>1, <3>1, <3>2, <4>1, <5>1 DEF LogInv
      <4>2. CASE j = Len(log) + 1
        <5>1. i \in 1 .. Len(log) \/ i = Len(log) + 1
          BY <1>2, <3>1
        <5> QED  BY <3>1, <4>2, <5>1, PrefixOrder
      <4> QED  BY <1>2, <3>1, <4>1, <4>2
    <3>3. Len(log) + 1 \in 1 .. Len(log') /\ Len(log) + 1 /= 0
      BY <1>2, <3>1
    <3> QED  BY <3>1, <3>2, <3>3 DEF Held
  <2> QED  BY <1>3, <2>1, <2>2
<1>6. ASSUME NEW a \in replies' PROVE Held(log', a.row.revision, a.row.path)
  BY <1>1, <1>2, <1>4, <1>5, AnswersStep DEF LogInv, AnswerTo
<1>7. ASSUME NEW q \in requests' PROVE From(log', q.base, q.path)
  <2>1. CASE q \in requests \/ \E r \in requests : q = [r EXCEPT !.waits = FALSE]
    <3>1. PICK r \in requests : q = r \/ q = [r EXCEPT !.waits = FALSE]
      BY <2>1
    <3>2. r \in Put
      BY <1>1 DEF TInv, ServerInv
    <3>3. q.base = r.base /\ q.path = r.path /\ r.base \in Nat
      BY <3>1, <3>2 DEF Put
    <3> QED  BY <1>1, <3>3, FromStays DEF LogInv
  <2>2. ASSUME NEW d \in Device, save[d].pc = "inspect", q = SaveRequest(d) PROVE From(log', q.base, q.path)
    <3>1. q.base = save[d].base /\ q.path = save[d].path /\ save[d].base \in Nat
      BY <1>1, <2>2 DEF SaveRequest, Request, PlacesTyped
    <3>2. From(log, save[d].base, save[d].path)
      BY <1>1, <2>2 DEF SaveLine
    <3> QED  BY <1>1, <3>1, <3>2, FromStays
  <2>3. ASSUME NEW d \in Device, drain[d].pc = "item", q = ItemRequest(d) PROVE From(log', q.base, q.path)
    <3>1. Head(drain[d].pass) = queue[d][1] /\ 1 \in 1 .. Len(queue[d])
      BY <1>1, <2>3, PassElements
    <3>2. q.base = ItemBase(d) /\ q.path = queue[d][1].path
      BY <2>3, <3>1 DEF ItemRequest, Request
    <3>3. CASE drain[d].latest = 0
      <4>1. q.base = queue[d][1].base /\ queue[d][1].base \in Nat
        BY <1>1, <3>1, <3>2, <3>3, QueueElements DEF ItemBase
      <4>2. From(log, queue[d][1].base, queue[d][1].path)
        BY <1>1, <3>1 DEF QueueLine
      <4> QED  BY <1>1, <3>2, <4>1, <4>2, FromStays
    <3>4. CASE drain[d].latest /= 0
      <4>1. q.base = drain[d].latest /\ drain[d].latest \in Nat
        BY <1>1, <3>2, <3>4 DEF ItemBase, PlacesTyped
      <4>2. drain[d].latest <= Len(log)
        BY <3>4 DEF AInv, IInv, LatestInv, LatestOf, Lands
      <4>3. queue[d][1].path \in Ahead(d)
        BY <3>1 DEF Ahead
      <4>4. From(log, drain[d].latest, queue[d][1].path)
        BY <1>1, <4>1, <4>2, <4>3 DEF ReplayLine, From, Before
      <4> QED  BY <1>1, <3>2, <4>1, <4>4, FromStays
    <3> QED  BY <3>3, <3>4
  <2> QED  BY <1>1, <2>1, <2>2, <2>3, RequestsStep
<1>8. ASSUME NEW d \in Device, cache'[d].present PROVE From(log', cache'[d].revision, cache'[d].path)
  <2>1. cache \in [Device -> CacheType] /\ \A e \in Device : cache[e].revision \in Nat
    BY <1>1 DEF TInv, DevicesInv, CacheType
  <2>2. CASE cache'[d] = cache[d]
    BY <1>1, <1>8, <2>1, <2>2, FromStays DEF LogInv
  <2>3. ASSUME NEW n \in Nat, NEW p, cache' = [cache EXCEPT ![d] = Cached(n, p)], From(log, n, p)
        PROVE  From(log', cache'[d].revision, cache'[d].path)
    <3>1. cache'[d].revision = n /\ cache'[d].path = p
      BY <2>1, <2>3 DEF Cached
    <3> QED  BY <1>1, <2>3, <3>1, FromStays
  <2>4. ASSUME NEW n \in Nat, NEW p \in Path, Held(log, n, p) PROVE From(log, n, p)
    BY <1>2, <2>4, PrefixOrder DEF Held, From
  <2>5. CASE OpenFromServer(d)
    <3>1. cache' = [cache EXCEPT ![d] = Cached(row.revision, row.path)]
      BY <2>5 DEF OpenFromServer
    <3> QED  BY <1>1, <1>2, <2>3, <2>4, <3>1 DEF LogInv
  <2>6. CASE BeginSave(d) /\ cache' /= cache
    <3>1. /\ cache' = [cache EXCEPT ![d] = Cached(reader[d].base, Head(reader[d].waiting).path)]
          /\ save' = [save EXCEPT ![d] = [pc |-> "inspect", event |-> used.saves + 1,
                                          base |-> reader[d].base,
                                          path |-> Head(reader[d].waiting).path]]
          /\ save[d].pc = "idle"
      BY <2>6 DEF BeginSave
    <3>2. save'[d].path = Head(reader[d].waiting).path /\ save'[d].pc = "inspect" /\ save' /= save
      BY <1>1, <3>1 DEF TInv, DevicesInv
    <3>3. Begins(d)
      BY <1>1, <2>6, <3>2, BeginGoesOn DEF ReaderLine
    <3>4. From(log, reader[d].base, save'[d].path) /\ reader[d].base \in Nat
      BY <1>1, <3>3 DEF ReaderLine, Begins, From, Before, PlacesTyped
    <3> QED  BY <2>3, <3>1, <3>2, <3>4
  <2>7. CASE SaveAnswered(d) \/ ReplayAnswered(d)
    <3>1. \/ cache' = cache
          \/ \E a \in replies : cache' = [cache EXCEPT ![d] = Cached(a.row.revision, a.row.path)]
      BY <2>7 DEF SaveAnswered, ReplayAnswered, SaveAccepted, SaveConflicts, SaveRefused,
         ReplayAccepted, ReplayConflicts, ReplayRefused, Answers
    <3> QED  BY <1>1, <1>2, <2>2, <2>3, <2>4, <3>1 DEF LogInv
  <2>8. ASSUME NEW e \in Device, e /= d, OpenFromServer(e) \/ BeginSave(e) \/ SaveAnswered(e) \/ ReplayAnswered(e)
        PROVE  cache'[d] = cache[d]
    BY <2>1, <2>8 DEF OpenFromServer, BeginSave, SaveAnswered, SaveAccepted, SaveConflicts, SaveRefused,
       ReplayAnswered, ReplayAccepted, ReplayConflicts, ReplayRefused
  <2> QED  BY <2>2, <2>5, <2>6, <2>7, <2>8, CacheFrame
<1> QED  BY <1>5, <1>6, <1>7, <1>8 DEF LogInv

-----------------------------------------------------------------------------
(***************************************************************************)
(* An event keeps its place.                                               *)
(***************************************************************************)
LEMMA CarriedIsIssued ==
  ASSUME TInv, NEW e \in Event, NEW p, Carries(e, p)
  PROVE  \E d \in Device : Issued(d, e)
<1>1. CASE \E q \in requests : q.event = e /\ q.path = p
  <2>1. PICK q \in requests : q.event = e
    BY <1>1
  <2>2. q.device \in Device /\ q.base \in Nat
    BY DEF TInv, ServerInv, Put
  <2> QED  BY <2>1, <2>2 DEF Issued, IsTicket
<1>2. ASSUME NEW d \in Device, NEW i \in 1 .. Len(queue[d]), queue[d][i].event = e
      PROVE  Issued(d, e)
  BY <1>2, QueueElements DEF Issued, IsTicket
<1>3. ASSUME NEW d \in Device, save[d].pc /= "idle", save[d].event = e PROVE Issued(d, e)
  <2>1. save[d].base \in Nat
    BY TypedPlaces DEF PlacesTyped
  <2> QED  BY <1>3, <2>1 DEF Issued, IsTicket
<1>4. ASSUME NEW i \in 1 .. Len(log), log[i].event = e PROVE \E d \in Device : Issued(d, e)
  <2>1. log[i].device \in Device /\ i \in Nat
    BY LogEntries DEF TInv
  <2> QED  BY <1>4, <2>1 DEF Issued, Lands
<1> QED  BY <1>1, <1>2, <1>3, <1>4 DEF Carries

\* A place that an event stands for after a step it stood for before, unless its save
\* begins with the step.
LEMMA CarriesStep ==
  ASSUME TInv, PassInv, OrderInv, [Next]_vars, NEW e \in Event, NEW p \in Path, Carries(e, p)'
  PROVE  \/ Carries(e, p)
         \/ e = used.saves + 1 /\ \E d \in Device : SaveBegins(d) /\ p = save'[d].path
<1>1. ASSUME NEW q \in requests', q.event = e, q.path = p PROVE Carries(e, p)
  <2>1. CASE q \in requests
    BY <1>1, <2>1 DEF Carries
  <2>2. ASSUME NEW r \in requests, q = [r EXCEPT !.waits = FALSE] PROVE Carries(e, p)
    <3>1. r \in Put
      BY DEF TInv, ServerInv
    <3>2. r.event = e /\ r.path = p
      BY <1>1, <2>2, <3>1 DEF Put
    <3> QED  BY <3>2 DEF Carries
  <2>3. ASSUME NEW d \in Device, save[d].pc = "inspect", q = SaveRequest(d) PROVE Carries(e, p)
    BY <1>1, <2>3 DEF SaveRequest, Request, Carries
  <2>4. ASSUME NEW d \in Device, drain[d].pc = "item", q = ItemRequest(d) PROVE Carries(e, p)
    <3>1. Head(drain[d].pass) = queue[d][1] /\ 1 \in 1 .. Len(queue[d])
      BY <2>4, PassElements
    <3>2. queue[d][1].event = e /\ queue[d][1].path = p
      BY <1>1, <2>4, <3>1 DEF ItemRequest, Request
    <3> QED  BY <3>1, <3>2 DEF Carries
  <2> QED  BY <2>1, <2>2, <2>3, <2>4, RequestsStep
<1>2. ASSUME NEW d \in Device, NEW i \in 1 .. Len(queue'[d]), queue'[d][i].event = e, queue'[d][i].path = p
      PROVE  Carries(e, p)
  BY <1>2, QueuedBefore DEF Carries
<1>3. ASSUME NEW d \in Device, save'[d].pc /= "idle", save'[d].event = e, save'[d].path = p
      PROVE  Carries(e, p) \/ (e = used.saves + 1 /\ SaveBegins(d))
  <2>1. SaveMoves(d)
    BY SaveStepMoves
  <2> QED  BY <1>3, <2>1 DEF SaveMoves, SaveBegins, Carries
<1>4. ASSUME NEW i \in 1 .. Len(log'), log'[i].event = e, log'[i].path = p
      PROVE  Carries(e, p)
  <2>0. ServerInv /\ Len(log) \in Nat
    BY LogEntries DEF TInv
  <2>1. CASE UNCHANGED server
    BY <1>4, <2>1 DEF server, Carries
  <2>2. ASSUME NEW q \in requests, Handle(q) PROVE Carries(e, p)
    <3>1. \/ log' = log
          \/ /\ Len(log') = Len(log) + 1
             /\ \A j \in 1 .. Len(log) : log'[j] = log[j]
             /\ log'[Len(log')] = [event |-> q.event, device |-> q.device, path |-> q.path]
      BY <2>0, <2>2, HandledRow
    <3>2. CASE i \in 1 .. Len(log)
      BY <1>4, <3>1, <3>2 DEF Carries
    <3>3. CASE Len(log') = Len(log) + 1 /\ i = Len(log')
      <4>1. q.event = e /\ q.path = p
        BY <1>4, <2>0, <3>1, <3>3
      <4> QED  BY <4>1 DEF Carries
    <3> QED  BY <2>0, <3>1, <3>2, <3>3
  <2> QED  BY <2>1, <2>2, LogFrame
<1> QED  BY <1>1, <1>2, <1>3, <1>4 DEF Carries

LEMMA StepPlacesInv ==
  ASSUME TInv, PassInv, OrderInv, OwnersInv, PlacesInv, [Next]_vars PROVE PlacesInv'
<1> SUFFICES ASSUME NEW e \in Event, NEW p \in Path, NEW q \in Path, Carries(e, p)', Carries(e, q)'
             PROVE  p = q
  BY DEF PlacesInv
<1>1. e = used.saves + 1 => ~ Carries(e, p) /\ ~ Carries(e, q)
  BY CarriedIsIssued, UsedSaves DEF OwnersInv
<1>2. CASE Carries(e, p) /\ Carries(e, q)
  BY <1>2 DEF PlacesInv
<1>3. ASSUME NEW c \in Device, NEW d \in Device, SaveBegins(c), SaveBegins(d),
             p = save'[c].path, q = save'[d].path
      PROVE  p = q
  BY <1>3, OneBegins
<1> QED  BY <1>1, <1>2, <1>3, CarriesStep

-----------------------------------------------------------------------------
(***************************************************************************)
(* The messages of a live save.                                            *)
(***************************************************************************)
NoLive(d) == Waiting(d, "save") = {} /\ Answers(d, "save") = {}

LEMMA LiveGivenUp ==
  ASSUME TInv, NEW d \in Device, GiveUp(d, {"save"})
  PROVE  NoLive(d)'
<1> DEFINE mine == UNION {Waiting(d, t) : t \in {"save"}}
<1>1. PICK arrives \in SUBSET mine :
        requests' = (requests \ mine) \cup {[q EXCEPT !.waits = FALSE] : q \in arrives}
  BY DEF GiveUp
<1>2. mine \subseteq requests /\ requests \subseteq Put /\ Waiting(d, "save") \subseteq mine
  BY DEF Waiting, TInv, ServerInv
<1>3. ASSUME NEW q \in requests', q.waits PROVE q \in requests \ mine
  <2>1. ASSUME NEW r \in arrives, q = [r EXCEPT !.waits = FALSE] PROVE FALSE
    <3>1. r \in Put
      BY <1>2
    <3> QED  BY <1>3, <2>1, <3>1 DEF Put
  <2> QED  BY <1>1, <2>1
<1>4. replies' \cap Answers(d, "save") = {} /\ replies' \subseteq replies
  BY DEF GiveUp
<1>5. Waiting(d, "save")' = {}
  BY <1>2, <1>3 DEF Waiting
<1>6. Answers(d, "save")' = {}
  BY <1>4 DEF Answers
<1> QED  BY <1>5, <1>6 DEF NoLive

LEMMA LiveAnswersStay ==
  ASSUME TInv, [Next]_vars, NEW d \in Device,
         \A q \in Waiting(d, "save") : ~ (Handle(q) \/ Refuse(q))
  PROVE  Answers(d, "save")' \subseteq Answers(d, "save")
<1> SUFFICES ASSUME NEW a \in replies', a.device = d, a.thread = "save", a \notin replies
             PROVE  FALSE
  BY DEF Answers
<1>1. PICK q \in requests : AnswerTo(q, a) /\ (Handle(q) \/ Refuse(q))
  BY AnswersStep
<1>2. q \in Waiting(d, "save")
  BY <1>1 DEF AnswerTo, Waiting
<1> QED  BY <1>1, <1>2

\* A live save is sent by the step that makes it wait.
LEMMA LiveWaitingStep ==
  ASSUME TInv, [Next]_vars, NEW d \in Device, NEW q \in Waiting(d, "save")'
  PROVE  \/ q \in Waiting(d, "save")
         \/ save[d].pc = "inspect" /\ save'[d].pc = "sent" /\ save'[d].event = save[d].event
              /\ q = SaveRequest(d)
<1>1. q \in requests' /\ q.device = d /\ q.thread = "save" /\ q.waits
  BY DEF Waiting
<1>2. CASE q \in requests
  BY <1>1, <1>2 DEF Waiting
<1>3. ASSUME NEW r \in requests, q = [r EXCEPT !.waits = FALSE] PROVE FALSE
  <2>1. r \in Put
    BY DEF TInv, ServerInv
  <2> QED  BY <1>1, <1>3, <2>1 DEF Put
<1>4. ASSUME NEW c \in Device, save[c].pc = "inspect", q = SaveRequest(c), q \notin requests
      PROVE  c = d /\ save'[d].pc = "sent" /\ save'[d].event = save[d].event
  <2>1. c = d
    BY <1>1, <1>4 DEF SaveRequest, Request
  <2>2. save \in [Device -> SaveType]
    BY DEF TInv, DevicesInv
  <2>3. InspectQueue(d) /\ save' = [save EXCEPT ![d].pc = "sent"]
    <3>1. ASSUME NEW e \in Device, SendItem(e) PROVE FALSE
      BY <1>1, <1>4, <3>1 DEF SendItem, Send, Request
    <3>2. ASSUME NEW e \in Device, NEW T, GiveUp(e, T) PROVE FALSE
      <4>1. PICK arrives \in SUBSET UNION {Waiting(e, t) : t \in T} :
              requests' = (requests \ UNION {Waiting(e, t) : t \in T})
                            \cup {[r EXCEPT !.waits = FALSE] : r \in arrives}
        BY <3>2 DEF GiveUp
      <4>2. arrives \subseteq requests
        BY DEF Waiting
      <4> QED  BY <1>1, <1>3, <1>4, <4>1, <4>2
    <3>3. ASSUME NEW e \in Device, InspectQueue(e) PROVE e = d /\ save' = [save EXCEPT ![e].pc = "sent"]
      BY <1>1, <1>4, <3>3 DEF InspectQueue, Send, Request
    <3> QED  BY <1>1, <1>4, <2>1, <3>1, <3>2, <3>3, RequestsFrame DEF SaveFails, DrainFails, Kill, Handle, Refuse
  <2> QED  BY <2>1, <2>2, <2>3 DEF SaveType
<1>5. ASSUME NEW c \in Device, q = ItemRequest(c) PROVE FALSE
  BY <1>1, <1>5 DEF ItemRequest, Request
<1> QED  BY <1>1, <1>2, <1>3, <1>4, <1>5, RequestsStep

LEMMA ServedLive ==
  ASSUME AInv, TInv', [Next]_vars, NEW d \in Device, NEW q \in Waiting(d, "save"), Handle(q) \/ Refuse(q)
  PROVE  LiveMessagesOf(d)'
<1>0. TInv /\ OwnersInv /\ LatestInv /\ LiveMessagesOf(d)
  BY DEF AInv, IInv, LiveMessagesInv
<1>1. /\ q \in requests /\ q.waits /\ q.device = d /\ q.thread = "save"
      /\ requests' = requests \ {q} /\ save' = save /\ drain' = drain
  BY DEF Waiting, Handle, Refuse
<1>2. /\ save[d].pc = "sent" /\ q.event = save[d].event
      /\ \A p \in Waiting(d, "save") : p = q
      /\ Answers(d, "save") = {}
  BY <1>0 DEF LiveMessagesOf
<1>3. Waiting(d, "save")' = {}
  BY <1>1, <1>2 DEF Waiting
<1>4. \E x : replies' = replies \cup {x}
  BY <1>1 DEF Handle, Refuse
<1>5. \A a, b \in Answers(d, "save")' : a = b
  BY <1>2, <1>4 DEF Answers
<1>6. ASSUME NEW a \in Answers(d, "save")'
      PROVE  /\ a.status = "saved" => Lands(log', d, a.row.revision, q.event)
             /\ drain[d].latest <= a.row.revision
  <2>1. a \in replies' /\ a \notin replies /\ a.device = d /\ a.thread = "save"
    BY <1>2 DEF Answers
  <2>2. PICK p \in requests : AnswerTo(p, a)
    BY <1>0, <2>1, AnswersStep
  <2>3. p = q
    BY <1>2, <2>1, <2>2 DEF AnswerTo, Waiting
  <2>4. a.row = row' /\ (a.status = "saved" => Handle(q) /\ PutStatus(row, q) = "saved")
    BY <2>2, <2>3 DEF AnswerTo
  <2>5. /\ Len(log) \in Nat /\ Len(log') \in Nat /\ Len(log) <= Len(log') /\ row'.revision = Len(log')
        /\ drain[d].latest \in Nat
    BY <1>0, LogGrows, TypedPlaces DEF TInv, ServerInv, PlacesTyped
  <2>6. drain[d].latest <= Len(log)
    BY <1>0, <2>5 DEF LatestInv, LatestOf, Lands
  <2> QED  BY <1>0, <1>1, <2>4, <2>5, <2>6, SavedLands
<1> QED  BY <1>1, <1>2, <1>3, <1>5, <1>6 DEF LiveMessagesOf

\* Where a live save waits for an answer it stays, unless it is given up or answered.
LEMMA LiveSentFrame ==
  ASSUME TInv, [Next]_vars, NoKill, NEW d \in Device, save[d].pc = "sent"
  PROVE  SaveFails(d) \/ SaveAnswered(d) \/ save'[d] = save[d]
<1>1. save \in [Device -> SaveType]
  BY DEF TInv, DevicesInv
<1>2. ASSUME NEW e \in Device, e /= d, SaveStep(e) PROVE save'[d] = save[d]
  BY <1>1, <1>2 DEF SaveStep, BeginSave, InspectQueue, SaveFails, Enqueue, SaveAnswered
<1>3. CASE SaveStep(d)
  BY <1>3 DEF SaveStep, BeginSave, InspectQueue, Enqueue
<1> QED  BY <1>2, <1>3, SaveFrame DEF NoKill

LEMMA NoLiveSuffices == ASSUME NEW d \in Device, NoLive(d)' PROVE LiveMessagesOf(d)'
BY DEF NoLive, LiveMessagesOf

LEMMA StepLiveMessagesInv ==
  ASSUME AInv, TInv', [Next]_vars, NoKill PROVE LiveMessagesInv'
<1> SUFFICES ASSUME NEW d \in Device, \A q \in Waiting(d, "save") : ~ (Handle(q) \/ Refuse(q))
             PROVE  LiveMessagesOf(d)'
  BY ServedLive DEF LiveMessagesInv
<1>0. TInv /\ PassInv /\ OrderInv /\ SaveLine(d)
  BY DEF AInv, IInv, LinesInv
<1>1. LiveMessagesOf(d) /\ Answers(d, "save")' \subseteq Answers(d, "save")
  BY <1>0, LiveAnswersStay DEF AInv, LiveMessagesInv
<1>2. CASE save[d].pc = "inspect"
  <2>1. NoLive(d) /\ Answers(d, "save")' = {}
    BY <1>1, <1>2 DEF LiveMessagesOf, NoLive
  <2>2. CASE NoLive(d)'
    BY <2>2, NoLiveSuffices
  <2>3. CASE ~ NoLive(d)'
    <3>1. /\ Waiting(d, "save")' \subseteq {SaveRequest(d)}
          /\ save'[d].pc = "sent" /\ save'[d].event = save[d].event
      BY <1>0, <2>1, <2>3, LiveWaitingStep DEF NoLive
    <3>2. SaveRequest(d).event = save[d].event
      BY DEF SaveRequest, Request
    <3> QED  BY <2>1, <3>1, <3>2 DEF LiveMessagesOf
  <2> QED  BY <2>2, <2>3
<1>3. CASE save[d].pc = "sent"
  <2>1. Waiting(d, "save")' \subseteq Waiting(d, "save")
    BY <1>0, <1>3, LiveWaitingStep
  <2>2. CASE SaveFails(d)
    BY <1>0, <2>2, LiveGivenUp, NoLiveSuffices DEF SaveFails
  <2>3. CASE SaveAnswered(d)
    <3>1. PICK a \in Answers(d, "save") : replies' = replies \ {a}
      BY <2>3 DEF SaveAnswered
    <3>2. Answers(d, "save")' = {} /\ Waiting(d, "save") = {}
      BY <1>1, <3>1 DEF LiveMessagesOf, Answers
    <3> QED  BY <2>1, <3>2, NoLiveSuffices DEF NoLive
  <2>4. CASE save'[d] = save[d]
    <3>1. ASSUME NEW a \in Answers(d, "save"), a.status = "saved"
          PROVE  Lands(log', d, a.row.revision, save[d].event)
      BY <1>0, <1>1, <3>1, LandsStays DEF LiveMessagesOf, TInv
    <3>2. drain'[d].latest = drain[d].latest \/ drain'[d].latest = 0
      <4>1. queue[d] = <<>>
        BY <1>0, <1>3 DEF SaveLine
      <4>2. ~ ItemDone(d)
        BY <1>0, <4>1, PassElements DEF ItemDone
      <4> QED
        BY <1>0, <4>2, ReplayStep DEF ReplayMoves, ReplayKept, ReplayEnds, Listed, ItemSent
    <3>3. ASSUME NEW a \in Answers(d, "save") PROVE drain'[d].latest <= a.row.revision
      <4>1. a.row.revision \in Nat /\ drain[d].latest <= a.row.revision
        BY <1>0, <1>1, TypedPlaces DEF LiveMessagesOf, PlacesTyped, Answers
      <4> QED  BY <3>2, <4>1
    <3> QED  BY <1>1, <1>3, <2>1, <2>4, <3>1, <3>3 DEF LiveMessagesOf
  <2> QED  BY <1>0, <1>3, <2>2, <2>3, <2>4, LiveSentFrame
<1>4. CASE save[d].pc \notin {"inspect", "sent"}
  <2>1. NoLive(d)'
    BY <1>0, <1>1, <1>4, LiveWaitingStep DEF LiveMessagesOf, NoLive
  <2> QED  BY <2>1, NoLiveSuffices
<1> QED  BY <1>2, <1>3, <1>4

-----------------------------------------------------------------------------
(***************************************************************************)
(* As long as no tab is closed.                                            *)
(***************************************************************************)
LEMMA StepAInv == AInv /\ [Next]_vars /\ NoKill => AInv'
<1> SUFFICES ASSUME AInv, [Next]_vars, NoKill PROVE AInv'
  OBVIOUS
<1>1. IInv'
  BY StepIInv DEF AInv
<1>2. TInv'
  BY <1>1 DEF IInv
<1>3. LinesInv' /\ LogInv' /\ LiveMessagesInv'
  BY <1>2, StepLinesInv, StepLogInv, StepLiveMessagesInv
<1>4. PlacesInv'
  BY StepPlacesInv DEF AInv, IInv
<1> QED  BY <1>1, <1>3, <1>4 DEF AInv

LEMMA InitAInv == Init => AInv
<1> SUFFICES ASSUME Init PROVE AInv
  OBVIOUS
<1>1. IInv
  BY InitIInv
<1>2. /\ log = <<>> /\ Len(log) = 0 /\ requests = {} /\ replies = {} /\ row = NoRow
      /\ \A d \in Device : /\ queue[d] = <<>> /\ Len(queue[d]) = 0 /\ save[d].pc = "idle"
                           /\ drain[d].latest = 0 /\ reader[d] = Closed
                           /\ cache[d] = NoCache
  BY DEF Init, NoSave, NoDrain
<1>3. Closed \in ReaderType /\ Closed.base = 0 /\ Len(Closed.waiting) = 0 /\ ~ NoCache.present
  BY Blanks DEF Closed, NoCache
<1>4. InLine(Closed)
  BY <1>3, FreshInLine
<1>5. LinesInv
  <2> SUFFICES ASSUME NEW d \in Device
               PROVE  ReaderLine(d) /\ SaveLine(d) /\ QueueLine(d) /\ ReplayLine(d) /\ ClosedLine(d)
    BY DEF LinesInv
  <2>1. ReaderLine(d)
    BY <1>2, <1>3, <1>4 DEF ReaderLine
  <2>2. QueueLine(d)
    BY <1>2 DEF QueueLine
  <2>3. SaveLine(d)
    BY <1>2 DEF SaveLine
  <2>4. ReplayLine(d)
    BY <1>2 DEF ReplayLine
  <2>5. ClosedLine(d)
    BY <1>2, <1>3 DEF ClosedLine
  <2> QED  BY <2>1, <2>2, <2>3, <2>4, <2>5
<1>6. LogInv
  BY <1>2, <1>3 DEF LogInv, Held, NoRow
<1>7. PlacesInv
  BY <1>2 DEF PlacesInv, Carries
<1>8. LiveMessagesInv
  BY <1>2 DEF LiveMessagesInv, LiveMessagesOf, Waiting, Answers
<1> QED  BY <1>1, <1>5, <1>6, <1>7, <1>8 DEF AInv

\* A tab that was closed has been counted, for ever.
LEMMA KillsCounted ==
  ASSUME TInv, [Next]_vars, used'.kills = 0 PROVE used.kills = 0 /\ NoKill
<1>1. used \in UsedType /\ used.kills \in Nat
  BY Bounds DEF TInv, ServerInv, UsedType
<1>2. ASSUME NEW d \in Device, Kill(d) PROVE FALSE
  <2>1. used'.kills = used.kills + 1
    BY <1>1, <1>2 DEF Kill, Spend, UsedType
  <2> QED  BY <1>1, <2>1
<1>3. CASE UNCHANGED used
  BY <1>2, <1>3 DEF NoKill
<1>4. CASE SpendsOne
  BY <1>1, <1>2, <1>4 DEF SpendsOne, Spend, UsedType, NoKill
<1> QED  BY <1>3, <1>4, UsedFrame

OpenTabs == used.kills = 0 => AInv

LEMMA OpenTabsInvariant == Spec => [](IInv /\ OpenTabs)
<1>1. Init => IInv /\ OpenTabs
  BY InitIInv, InitAInv DEF OpenTabs
<1>2. IInv /\ OpenTabs /\ [Next]_vars => IInv' /\ OpenTabs'
  <2> SUFFICES ASSUME IInv, OpenTabs, [Next]_vars PROVE IInv' /\ OpenTabs'
    OBVIOUS
  <2>1. ASSUME used'.kills = 0 PROVE AInv'
    <3>1. used.kills = 0 /\ NoKill
      BY <2>1, KillsCounted DEF IInv
    <3> QED  BY <3>1, StepAInv DEF OpenTabs
  <2> QED  BY <2>1, StepIInv DEF OpenTabs
<1> QED  BY <1>1, <1>2, PTL DEF Spec

LEMMA LinesAreAncestors == AInv => BasesAreAncestors
<1> SUFFICES ASSUME AInv PROVE BasesAreAncestors
  OBVIOUS
<1>1. TInv /\ LinesInv /\ LogInv /\ PlacesTyped
  BY TypedPlaces DEF AInv, IInv
<1>2. \A q \in requests : Continues(q.base, q.path)
  BY <1>1 DEF LogInv, From, Continues
<1>3. \A d \in Device : cache[d].present => Continues(cache[d].revision, cache[d].path)
  BY <1>1 DEF LogInv, From, Continues
<1>4. ASSUME NEW d \in Device PROVE Continues(reader[d].base, reader[d].path)
  BY <1>1 DEF LinesInv, ReaderLine, Before, Shown, Continues, PlacesTyped
<1>5. ASSUME NEW d \in Device, NEW i \in DOMAIN queue[d] PROVE Continues(queue[d][i].base, queue[d][i].path)
  <2>1. i \in 1 .. Len(queue[d])
    BY <1>1, LenProperties DEF TInv, DevicesInv
  <2> QED  BY <1>1, <2>1 DEF LinesInv, QueueLine, From, Continues
<1> QED  BY <1>2, <1>3, <1>4, <1>5 DEF BasesAreAncestors

\* As long as no tab has been closed, what a reader shows, a cache holds, a queued write
\* or a request carries (ReaderPage, offline/db.ts, sync.ts) goes on from the very place
\* the server held at the revision it names, whatever requests time out, are refused,
\* arrive late or meet a conflict: it is entitled to replace that row.
THEOREM BasesAreAncestorsWhileOpen == Spec => [](used.kills = 0 => SyncInv)
<1>1. IInv /\ OpenTabs => (used.kills = 0 => SyncInv)
  BY LinesAreAncestors, InvariantTypes DEF OpenTabs, SyncInv
<1> QED  BY <1>1, OpenTabsInvariant, PTL

-----------------------------------------------------------------------------
(***************************************************************************)
(* The devices and the server implement ReadingProgress.                   *)
(***************************************************************************)
LEMMA InitProgress == Init => Progress!Init
<1> SUFFICES ASSUME Init PROVE Progress!Init
  OBVIOUS
<1>1. log = <<>> /\ DOMAIN log = {} /\ row = NoRow
  <2>1. log = <<>> /\ log \in Seq(Entry) /\ Len(log) = 0
    BY EmptyPath DEF Init
  <2> QED  BY <2>1, LenProperties DEF Init
<1> QED  BY <1>1 DEF Progress!Init, NoRow

\* A save that the server applies was not applied before.
LEMMA AppliedOnce ==
  ASSUME IInv, NEW q \in requests, Applies(row, q), NEW i \in 1 .. Len(log)
  PROVE  log[i].event /= q.event
<1>1. /\ TInv /\ TicketsInv /\ OwnersInv /\ row.revision = Len(log) /\ Len(log) \in Nat
      /\ q.device \in Device /\ q.event \in Event /\ q.base \in Nat /\ q.event \in Nat
  BY LogEntries, Bounds DEF IInv, TInv, ServerInv, Put, Event
<1>2. q.base = Len(log)
  BY <1>1 DEF Applies, Current
<1>3. IsTicket(q.device, q.event, q.base)
  BY DEF IsTicket
<1>4. Stale(log, q.device, q.event, q.base)
  BY <1>1, <1>3 DEF TicketsInv
<1>5. ASSUME log[i].event = q.event PROVE FALSE
  <2>1. Issued(log[i].device, q.event) /\ log[i].device \in Device
    BY <1>1, <1>5, LoggedIsIssued, LogEntries DEF TInv
  <2>2. Issued(q.device, q.event)
    BY <1>1, <1>3 DEF Issued
  <2>3. log[i].device = q.device
    BY <1>1, <2>1, <2>2 DEF OwnersInv
  <2>4. q.base < i
    BY <1>1, <1>4, <1>5, <2>3 DEF Stale
  <2> QED  BY <1>1, <1>2, <2>4
<1> QED  BY <1>5

LEMMA StepProgress == IInv /\ AInv /\ [Next]_vars => [Progress!Next]_(Progress!vars)
<1> SUFFICES ASSUME IInv, AInv, [Next]_vars PROVE [Progress!Next]_(Progress!vars)
  OBVIOUS
<1>1. /\ TInv /\ ServerInv /\ log \in Seq(Entry) /\ Len(log) \in Nat /\ DOMAIN log = 1 .. Len(log)
      /\ row.revision = Len(log)
  BY LenProperties DEF IInv, TInv, ServerInv
<1>2. CASE row' = row /\ log' = log
  BY <1>2 DEF Progress!vars
<1>3. ASSUME NEW q \in requests, Handle(q), log' /= log PROVE Progress!Save
  <2>1. /\ Len(log') = Len(log) + 1 /\ q.path \in Path
        /\ \A i \in 1 .. Len(log) : log'[i] = log[i]
        /\ log'[Len(log) + 1].event = q.event
        /\ row'.path = q.path /\ row'.revision = Len(log) + 1 /\ IsPrefix(row.path, q.path)
    BY <1>3, HandledPlace
  <2>2. log' \in Seq(Entry) /\ DOMAIN log' = 1 .. Len(log) + 1
    <3>1. log' \in Seq(Entry)
      BY <1>1, <1>3, HandledRow
    <3> QED  BY <2>1, <3>1, LenProperties
  <2>3. {log'[i].event : i \in DOMAIN log'} = {log[i].event : i \in DOMAIN log} \cup {q.event}
    <3>1. DOMAIN log' = DOMAIN log \cup {Len(log) + 1}
      BY <1>1, <2>2
    <3> QED  BY <1>1, <2>1, <3>1
  <2>4. q.event \in Event \ {log[i].event : i \in DOMAIN log}
    <3>1. Applies(row, q)
      BY <1>1, <1>3, HandledRow
    <3>2. q.event \in Event
      BY <1>1 DEF ServerInv, Put
    <3> QED  BY <1>1, <3>1, <3>2, AppliedOnce
  <2>5. q.path \in Seq(Nat)
    <3>1. q.path \in Seq(1 .. MaxChoices)
      BY <2>1 DEF Path
    <3>2. 1 .. MaxChoices \subseteq Nat
      BY Bounds
    <3> QED  BY <3>1, <3>2, SeqMonotonic
  <2>6. row'.path \in Seq(Nat) /\ IsPrefix(row.path, row'.path) /\ row'.revision = row.revision + 1
    BY <1>1, <2>1, <2>5
  <2>7. \E e \in Event \ {log[i].event : i \in DOMAIN log} :
           {log'[i].event : i \in DOMAIN log'} = {log[i].event : i \in DOMAIN log} \cup {e}
    BY <2>3, <2>4
  <2>8. Progress!IsPrefix(row.path, row'.path)
    BY <2>6 DEF IsPrefix, Progress!IsPrefix
  <2> QED  BY <2>6, <2>7, <2>8 DEF Progress!Save
<1>4. \/ row' = row /\ log' = log
      \/ \E q \in requests : Handle(q) /\ log' /= log
  <2>1. ASSUME NEW q \in requests, Handle(q) PROVE (row' = row /\ log' = log) \/ log' /= log
    <3>1. (row' = row /\ log' = log) \/ Len(log') = Len(log) + 1
      BY <1>1, <2>1, HandledRow
    <3> QED  BY <1>1, <3>1
  <2> QED  BY <2>1, LogFrame DEF server
<1> QED  BY <1>2, <1>3, <1>4 DEF Progress!Next

\* As long as no tab is closed, the devices, their queues and the network implement
\* ReadingProgress: the server's place (put_reading_state) only ever moves on along the
\* choices that led to it, and each save counts once.
THEOREM ProgressIsKeptWhileOpen == Spec /\ [](used.kills = 0) => ProgressIsKept
<1>1. IInv /\ OpenTabs /\ used.kills = 0 /\ [Next]_vars => [Progress!Next]_(Progress!vars)
  BY StepProgress DEF OpenTabs
<1> QED
  BY <1>1, InitProgress, OpenTabsInvariant, PTL DEF Spec, ProgressIsKept, Progress!Spec
=============================================================================
