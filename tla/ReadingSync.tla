---------------------------- MODULE ReadingSync ----------------------------
(***************************************************************************)
(* One child, one story, several devices: how the reading position gets    *)
(* from the reader (reader/ReaderPage.tsx) through the local cache and the *)
(* offline queue (offline/sync.ts, offline/db.ts) to the server's row      *)
(* (ReadingStateServer), with a network that loses, delays and reorders.   *)
(*                                                                         *)
(* Every action is the code between two awaits.  On a device a live save   *)
(* (`save`) and a drain of the queue (`drain`) run interleaved; each has   *)
(* at most one request it waits for.  A request whose sender gave up may   *)
(* still reach the server later.                                           *)
(***************************************************************************)
EXTENDS ReadingStateServer, Sequences, SequencesExt, FiniteSets

CONSTANTS
  MaxChoices,    \* bound: choices the child makes
  MaxSaves,      \* bound: saves the readers issue (event identifiers)
  MaxTimeouts,   \* bound: requests given up while the device is online
  MaxErrors,     \* bound: saves the server fails with an HTTP error
  MaxDrops,      \* bound: times a device goes offline
  MaxKills       \* bound: readers closed with work in progress

ASSUME BoundsAssumption ==
  /\ NoDevice \notin Device
  /\ {MaxChoices, MaxSaves, MaxTimeouts, MaxErrors, MaxDrops, MaxKills} \subseteq Nat

VARIABLES
  row,       \* the server's row
  log,       \* history: every save the server applied, in order
  requests,  \* saves on their way to the server
  replies,   \* answers on their way back to a sender that still waits
  online,    \* device |-> navigator.onLine
  cache,     \* device |-> the reading state in IndexedDB
  queue,     \* device |-> the offline queue in IndexedDB, oldest first
  reader,    \* device |-> the reader page: what is shown, its refs
  save,      \* device |-> the live save in progress
  drain,     \* device |-> the replay of the queue in progress
  used       \* what has been spent of each bound

server == <<row, log>>
net    == <<requests, replies>>
local  == <<cache, queue>>
vars   == <<row, log, requests, replies, online, cache, queue, reader, save, drain, used>>

Thread == {"save", "drain"}
NoCache == [present |-> FALSE, revision |-> 0, path |-> <<>>]
Cached(revision, path) == [present |-> TRUE, revision |-> revision, path |-> path]

NoSave == [pc |-> "idle", event |-> NoEvent, base |-> 0, path |-> <<>>]
NoDrain == [pc |-> "idle", rerun |-> FALSE, pass |-> <<>>, old |-> {},
            latest |-> 0, latched |-> FALSE]
Closed == [open |-> FALSE, path |-> <<>>, base |-> 0, signed |-> FALSE,
           sig |-> <<>>, generation |-> 0, waiting |-> <<>>]

Init ==
  /\ row = NoRow /\ log = <<>>
  /\ requests = {} /\ replies = {}
  /\ online = [d \in Device |-> TRUE]
  /\ cache = [d \in Device |-> NoCache]
  /\ queue = [d \in Device |-> <<>>]
  /\ reader = [d \in Device |-> Closed]
  /\ save = [d \in Device |-> NoSave]
  /\ drain = [d \in Device |-> NoDrain]
  /\ used = [choices |-> 0, saves |-> 0, timeouts |-> 0, errors |-> 0,
             drops |-> 0, kills |-> 0]

Spend(what) == used' = [used EXCEPT ![what] = @ + 1]

-----------------------------------------------------------------------------
(***************************************************************************)
(* Replay triggers (hooks/useReplayOnReconnect.ts).                        *)
(***************************************************************************)
\* The writes already in the queue, or about to be, when a replay starts: their
\* queued_at is not later than drainStartedAt.
OldWrites(d) ==
  {queue[d][i].event : i \in DOMAIN queue[d]}
    \cup (IF save[d].pc = "enqueue" THEN {save[d].event} ELSE {})

Started(old) == [NoDrain EXCEPT !.pc = "list", !.old = old]

\* Fault: a trigger that comes in while a replay runs is forgotten.
FlushedOnce(d, old) == IF drain[d].pc = "idle" THEN Started(old) ELSE drain[d]

\* flush: start a replay, or leave word for the one that is running.
Flushed(d, old) ==
  IF drain[d].pc = "idle" THEN Started(old) ELSE [drain[d] EXCEPT !.rerun = TRUE]

\* replayQueue returned: once more if a trigger came in meanwhile.
Finished(d) == IF drain[d].rerun THEN Started(OldWrites(d)) ELSE NoDrain

\* replayQueue is done, its lock not yet released: a trigger is still left word of.
Returned(dr) == [dr EXCEPT !.pc = "returned"]

-----------------------------------------------------------------------------
(***************************************************************************)
(* The reader (reader/ReaderPage.tsx).                                     *)
(***************************************************************************)
\* persist, up to its first await: a reading whose content is the last one
\* issued is skipped; any other takes its place in the save chain.
Emitted(r, path) ==
  IF r.signed /\ r.sig = path THEN r
  ELSE [r EXCEPT !.signed = TRUE, !.sig = path,
                 !.waiting = Append(@, [path |-> path, generation |-> r.generation])]

\* The reader page on a loaded state; the mounted reader reports it at once.
Mounted(base, path) ==
  Emitted([Closed EXCEPT !.open = TRUE, !.base = base, !.path = path], path)

\* The mount flushes the queue of an earlier session.
Mount(d, base, path) ==
  /\ reader' = [reader EXCEPT ![d] = Mounted(base, path)]
  /\ drain' = [drain EXCEPT ![d] = Flushed(d, OldWrites(d))]
  /\ UNCHANGED <<server, net, online, queue, save>>

\* load: the cached state wins; without one the server's row is fetched and
\* cached; with neither the story starts at revision 0.
OpenFromCache(d) ==
  /\ ~reader[d].open /\ cache[d].present
  /\ Mount(d, cache[d].revision, cache[d].path)
  /\ UNCHANGED <<cache, used>>

OpenFromServer(d) ==
  /\ ~reader[d].open /\ ~cache[d].present /\ online[d] /\ Exists(row)
  /\ Mount(d, row.revision, row.path)
  /\ cache' = [cache EXCEPT ![d] = Cached(row.revision, row.path)]
  /\ UNCHANGED used

OpenAfresh(d) ==
  /\ ~reader[d].open /\ ~cache[d].present
  /\ \/ (~online[d] \/ ~Exists(row)) /\ UNCHANGED used
     \/ used.timeouts < MaxTimeouts /\ Spend("timeouts")  \* the fetch timed out
  /\ Mount(d, 0, <<>>)
  /\ UNCHANGED cache

\* The child makes a choice.
Choose(d) ==
  /\ reader[d].open /\ used.choices < MaxChoices
  /\ LET path == Append(reader[d].path, used.choices + 1)
     IN  reader' = [reader EXCEPT ![d] = Emitted([@ EXCEPT !.path = path], path)]
  /\ Spend("choices")
  /\ UNCHANGED <<server, net, online, local, save, drain>>

-----------------------------------------------------------------------------
(***************************************************************************)
(* Requests.  `waits` says that the sender still waits for the answer.     *)
(***************************************************************************)
Request(d, thread, event, base, path) ==
  [device |-> d, thread |-> thread, event |-> event, base |-> base,
   path |-> path, waits |-> TRUE]

Send(d, thread, event, base, path) ==
  requests' = requests \cup {Request(d, thread, event, base, path)}

Waiting(d, thread) == {q \in requests : q.device = d /\ q.thread = thread /\ q.waits}
Answers(d, thread) == {a \in replies : a.device = d /\ a.thread = thread}

\* The senders `threads` of a device give up: their answers are lost, and a
\* request on its way is lost or still arrives, with nobody waiting.
GiveUp(d, threads) ==
  LET mine == UNION {Waiting(d, t) : t \in threads}
  IN  /\ \E arrives \in SUBSET mine :
           requests' = (requests \ mine) \cup {[q EXCEPT !.waits = FALSE] : q \in arrives}
      /\ replies' = replies \ UNION {Answers(d, t) : t \in threads}

\* A 10 s timeout, or the transport failing under a device that went offline.
TransportFails(d) ==
  \/ ~online[d] /\ UNCHANGED used
  \/ online[d] /\ used.timeouts < MaxTimeouts /\ Spend("timeouts")

\* The server handles a save: put_reading_state under its row lock.
Handle(q) ==
  /\ q \in requests
  /\ row' = PutRow(row, q)
  /\ log' = IF Applies(row, q)
            THEN Append(log, [event |-> q.event, device |-> q.device, path |-> q.path])
            ELSE log
  /\ requests' = requests \ {q}
  /\ replies' = IF q.waits
                THEN replies \cup {[device |-> q.device, thread |-> q.thread, base |-> q.base,
                                    status |-> PutStatus(row, q), row |-> row']}
                ELSE replies
  /\ UNCHANGED <<online, local, reader, save, drain, used>>

\* The save is refused with an HTTP error and nothing is applied (the story is
\* no longer assigned, the state does not validate, the transaction failed).
Refuse(q) ==
  /\ q \in requests /\ used.errors < MaxErrors
  /\ requests' = requests \ {q}
  /\ replies' = IF q.waits
                THEN replies \cup {[device |-> q.device, thread |-> q.thread, base |-> q.base,
                                    status |-> "refused", row |-> row]}
                ELSE replies
  /\ Spend("errors")
  /\ UNCHANGED <<server, online, local, reader, save, drain>>

-----------------------------------------------------------------------------
(***************************************************************************)
(* The live save: persist after its turn in the save chain has come, and   *)
(* saveProgress.                                                           *)
(***************************************************************************)
BeginSave(d) ==
  /\ reader[d].open /\ save[d].pc = "idle" /\ reader[d].waiting /= <<>>
  /\ LET next == Head(reader[d].waiting)
         rest == Tail(reader[d].waiting)
     IN  \* superseded by an adopted conflict: dropped
         \/ /\ next.generation /= reader[d].generation
            /\ reader' = [reader EXCEPT ![d].waiting = rest, ![d].signed = FALSE,
                                        ![d].sig = <<>>]
            /\ UNCHANGED <<cache, save, used>>
         \* stamped with the reader's revision and written to the local cache
         \/ /\ next.generation = reader[d].generation /\ used.saves < MaxSaves
            /\ reader' = [reader EXCEPT ![d].waiting = rest]
            /\ cache' = [cache EXCEPT ![d] = Cached(reader[d].base, next.path)]
            /\ save' = [save EXCEPT ![d] = [pc |-> "inspect", event |-> used.saves + 1,
                                            base |-> reader[d].base, path |-> next.path]]
            /\ Spend("saves")
  /\ UNCHANGED <<server, net, online, queue, drain>>

\* A write never overtakes the queue; otherwise it is sent, which fails at once
\* on a device that is offline.
InspectQueue(d) ==
  /\ save[d].pc = "inspect"
  /\ \/ /\ queue[d] /= <<>> \/ ~online[d]
        /\ save' = [save EXCEPT ![d].pc = "enqueue"]
        /\ UNCHANGED requests
     \/ /\ queue[d] = <<>> /\ online[d]
        /\ save' = [save EXCEPT ![d].pc = "sent"]
        /\ Send(d, "save", save[d].event, save[d].base, save[d].path)
  /\ UNCHANGED <<server, replies, online, local, reader, drain, used>>

SaveFails(d) ==
  /\ save[d].pc = "sent"
  /\ TransportFails(d)
  /\ GiveUp(d, {"save"})
  /\ save' = [save EXCEPT ![d].pc = "enqueue"]
  /\ UNCHANGED <<server, online, local, reader, drain>>

\* Fault: the queue is listed newest first.
EnqueueFirst(d) ==
  /\ save[d].pc = "enqueue"
  /\ queue' = [queue EXCEPT ![d] = <<[event |-> save[d].event, base |-> save[d].base,
                                      path |-> save[d].path]>> \o @]
  /\ save' = [save EXCEPT ![d] = NoSave]
  /\ drain' = IF online[d]
              THEN [drain EXCEPT ![d] = Flushed(d, OldWrites(d))]
              ELSE drain
  /\ UNCHANGED <<server, net, online, cache, reader, used>>

\* The write is committed to the queue; an online device is told to replay it.
\* The reader's revision is left as it was.
Enqueue(d) ==
  /\ save[d].pc = "enqueue"
  /\ queue' = [queue EXCEPT ![d] = Append(@, [event |-> save[d].event, base |-> save[d].base,
                                              path |-> save[d].path])]
  /\ save' = [save EXCEPT ![d] = NoSave]
  /\ drain' = IF online[d]
              THEN [drain EXCEPT ![d] = Flushed(d, OldWrites(d))]
              ELSE drain
  /\ UNCHANGED <<server, net, online, cache, reader, used>>

\* 200: the row is cached and its revision becomes the reader's.
SaveAccepted(d, a) ==
  /\ a.status = "saved"
  /\ cache' = [cache EXCEPT ![d] = Cached(a.row.revision, a.row.path)]
  /\ reader' = [reader EXCEPT ![d].base = a.row.revision]

\* Fault: saves waiting from before the adoption are not superseded by it.
SaveConflictsOnly(d, a) ==
  /\ a.status = "conflict"
  /\ cache' = [cache EXCEPT ![d] = Cached(a.row.revision, a.row.path)]
  /\ reader' = [reader EXCEPT ![d] =
                  Emitted([@ EXCEPT !.base = a.row.revision, !.path = a.row.path], a.row.path)]

\* 409: the server's row is adopted, and the remounted reader reports it.
SaveConflicts(d, a) ==
  /\ a.status = "conflict"
  /\ cache' = [cache EXCEPT ![d] = Cached(a.row.revision, a.row.path)]
  /\ reader' = [reader EXCEPT ![d] =
                  Emitted([@ EXCEPT !.base = a.row.revision, !.path = a.row.path,
                                    !.generation = reader[d].generation + 1], a.row.path)]

\* Any other HTTP error: the save is given up and not queued.
SaveRefused(a) == a.status = "refused" /\ UNCHANGED <<cache, reader>>

SaveAnswered(d) ==
  /\ save[d].pc = "sent" /\ online[d]
  /\ \E a \in Answers(d, "save") :
       /\ SaveAccepted(d, a) \/ SaveConflicts(d, a) \/ SaveRefused(a)
       /\ replies' = replies \ {a}
  /\ save' = [save EXCEPT ![d] = NoSave]
  /\ UNCHANGED <<server, requests, online, queue, drain, used>>

-----------------------------------------------------------------------------
(***************************************************************************)
(* The replay of the queue (replayQueue).  `pass` is the part of the       *)
(* listed queue still to do, `latest` the revision the replay's last       *)
(* accepted write got (0: none yet), `latched` that a write met a 409.     *)
(***************************************************************************)
Dequeue(d, event) ==
  queue' = [queue EXCEPT ![d] =
              IF \E i \in DOMAIN @ : @[i].event = event
              THEN RemoveAt(@, CHOOSE i \in DOMAIN @ : @[i].event = event)
              ELSE @]

\* The head of the pass is done with; after the last one the queue is listed
\* again, since saves are appended while a replay runs.
Advanced(dr) == [dr EXCEPT !.pass = Tail(@), !.pc = IF Len(dr.pass) > 1 THEN "item" ELSE "list"]

ListPass(d) ==
  /\ drain[d].pc = "list"
  /\ drain' = [drain EXCEPT ![d] = IF queue[d] = <<>> THEN Returned(@)
                                   ELSE [@ EXCEPT !.pc = "item", !.pass = queue[d]]]
  /\ UNCHANGED <<server, net, online, local, reader, save, used>>

HeldBack(d, item) == drain[d].latched /\ item.event \in drain[d].old

\* After a conflict the story's other writes are dropped unsent, except those
\* made since the replay started.
DropHeldBack(d) ==
  /\ drain[d].pc = "item"
  /\ LET item == Head(drain[d].pass)
     IN  /\ HeldBack(d, item)
         /\ Dequeue(d, item.event)
  /\ drain' = [drain EXCEPT ![d] = Advanced(@)]
  /\ UNCHANGED <<server, net, online, cache, reader, save, used>>

\* Sent from the revision the replay reached, or from its own.
SendItem(d) ==
  /\ drain[d].pc = "item"
  /\ LET item == Head(drain[d].pass)
         base == IF drain[d].latest = 0 THEN item.base ELSE drain[d].latest
     IN  /\ ~HeldBack(d, item)
         /\ \/ /\ online[d]
               /\ Send(d, "drain", item.event, base, item.path)
               /\ drain' = [drain EXCEPT ![d].pc = "sent"]
            \/ /\ ~online[d]
               /\ drain' = [drain EXCEPT ![d] = Returned(@)]
               /\ UNCHANGED requests
  /\ UNCHANGED <<server, replies, online, local, reader, save, used>>

\* Fault: a write whose request failed is given up like one the server refused.
DrainFailsAndDrops(d) ==
  /\ drain[d].pc = "sent"
  /\ TransportFails(d)
  /\ GiveUp(d, {"drain"})
  /\ Dequeue(d, Head(drain[d].pass).event)
  /\ drain' = [drain EXCEPT ![d] = Advanced(@)]
  /\ UNCHANGED <<server, online, cache, reader, save>>

\* Offline: the replay returns and the rest stays queued, as it was.
DrainFails(d) ==
  /\ drain[d].pc = "sent"
  /\ TransportFails(d)
  /\ GiveUp(d, {"drain"})
  /\ drain' = [drain EXCEPT ![d] = Returned(@)]
  /\ UNCHANGED <<server, online, local, reader, save>>

EndDrain(d) ==
  /\ drain[d].pc = "returned"
  /\ drain' = [drain EXCEPT ![d] = Finished(d)]
  /\ UNCHANGED <<server, net, online, local, reader, save, used>>

ReplayAccepted(d, a) ==
  /\ a.status = "saved"
  /\ cache' = [cache EXCEPT ![d] = Cached(a.row.revision, a.row.path)]
  /\ drain' = [drain EXCEPT ![d] = Advanced([@ EXCEPT !.latest = a.row.revision])]

ReplayConflicts(d, a) ==
  /\ a.status = "conflict"
  /\ drain' = [drain EXCEPT ![d] = Advanced([@ EXCEPT !.latched = TRUE])]
  /\ UNCHANGED cache

\* An HTTP error drops the write, so that it does not wedge the others.
ReplayRefused(d, a) ==
  /\ a.status = "refused"
  /\ drain' = [drain EXCEPT ![d] = Advanced(@)]
  /\ UNCHANGED cache

ReplayAnswered(d) ==
  /\ drain[d].pc = "sent" /\ online[d]
  /\ \E a \in Answers(d, "drain") :
       /\ ReplayAccepted(d, a) \/ ReplayConflicts(d, a) \/ ReplayRefused(d, a)
       /\ replies' = replies \ {a}
  /\ Dequeue(d, Head(drain[d].pass).event)
  /\ UNCHANGED <<server, requests, online, reader, save, used>>

-----------------------------------------------------------------------------
(***************************************************************************)
(* The device: connectivity, and the tab going away.                       *)
(***************************************************************************)
GoOffline(d) ==
  /\ online[d] /\ used.drops < MaxDrops
  /\ online' = [online EXCEPT ![d] = FALSE]
  /\ Spend("drops")
  /\ UNCHANGED <<server, net, local, reader, save, drain>>

\* The 'online' event, which only a mounted reader listens to.
GoOnline(d) ==
  /\ ~online[d]
  /\ online' = [online EXCEPT ![d] = TRUE]
  /\ drain' = IF reader[d].open
              THEN [drain EXCEPT ![d] = Flushed(d, OldWrites(d))]
              ELSE drain
  /\ UNCHANGED <<server, net, local, reader, save, used>>

\* The tab is closed: what is in IndexedDB stays, everything else is lost.
Kill(d) ==
  /\ reader[d].open /\ used.kills < MaxKills
  /\ reader' = [reader EXCEPT ![d] = Closed]
  /\ save' = [save EXCEPT ![d] = NoSave]
  /\ drain' = [drain EXCEPT ![d] = NoDrain]
  /\ GiveUp(d, Thread)
  /\ Spend("kills")
  /\ UNCHANGED <<server, online, local>>

-----------------------------------------------------------------------------
Open(d) == OpenFromCache(d) \/ OpenFromServer(d) \/ OpenAfresh(d)
SaveStep(d) == BeginSave(d) \/ InspectQueue(d) \/ SaveFails(d) \/ Enqueue(d) \/ SaveAnswered(d)
DrainStep(d) ==
  \/ ListPass(d) \/ DropHeldBack(d) \/ SendItem(d)
  \/ DrainFails(d) \/ ReplayAnswered(d) \/ EndDrain(d)

Next ==
  \/ \E d \in Device : \/ Open(d) \/ Choose(d)
                       \/ SaveStep(d) \/ DrainStep(d)
                       \/ GoOffline(d) \/ GoOnline(d) \/ Kill(d)
  \/ \E q \in requests : Handle(q) \/ Refuse(q)

Spec == Init /\ [][Next]_vars

(***************************************************************************)
(* Fairness: promises and IndexedDB operations settle, the server answers  *)
(* what reaches it, and a request of an offline device fails by its        *)
(* timeout.  Nothing makes the child choose, reopen the reader, or the     *)
(* network come back.                                                      *)
(***************************************************************************)
Fairness ==
  /\ \A d \in Device : WF_vars(SaveStep(d)) /\ WF_vars(DrainStep(d))
  /\ WF_vars(\E q \in requests : Handle(q))

FairSpec == Spec /\ Fairness

-----------------------------------------------------------------------------
Event == 1..MaxSaves
Path == Seq(1..MaxChoices)
Item == [event : Event, base : Nat, path : Path]

TypeOK ==
  /\ row.revision = Len(log)  \* a revision is spent on every save that counts
  /\ row \in [revision : Nat, path : Path, event : Event \cup {NoEvent},
              device : Device \cup {NoDevice}]
  /\ log \in Seq([event : Event, device : Device, path : Path])
  /\ requests \subseteq [device : Device, thread : Thread, event : Event, base : Nat,
                         path : Path, waits : BOOLEAN]
  /\ replies \subseteq [device : Device, thread : Thread, base : Nat,
                        status : {"saved", "conflict", "refused"},
                        row : [revision : Nat, path : Path, event : Event \cup {NoEvent},
                               device : Device \cup {NoDevice}]]
  /\ online \in [Device -> BOOLEAN]
  /\ cache \in [Device -> [present : BOOLEAN, revision : Nat, path : Path]]
  /\ queue \in [Device -> Seq(Item)]
  /\ reader \in [Device -> [open : BOOLEAN, path : Path, base : Nat, signed : BOOLEAN,
                            sig : Path, generation : Nat,
                            waiting : Seq([path : Path, generation : Nat])]]
  /\ save \in [Device -> [pc : {"idle", "inspect", "sent", "enqueue"},
                          event : Event \cup {NoEvent}, base : Nat, path : Path]]
  /\ drain \in [Device -> [pc : {"idle", "list", "item", "sent", "returned"}, rerun : BOOLEAN,
                           pass : Seq(Item), old : SUBSET Event, latest : Nat,
                           latched : BOOLEAN]]
  /\ used \in [choices : 0..MaxChoices, saves : 0..MaxSaves, timeouts : 0..MaxTimeouts,
               errors : 0..MaxErrors, drops : 0..MaxDrops, kills : 0..MaxKills]

\* The saves of one device are applied in the order the child made them, and
\* each at most once, whatever the network, the queue and its replays do.
SavesLandInOrder ==
  \A i, j \in DOMAIN log :
    i < j /\ log[i].device = log[j].device => log[i].event < log[j].event

\* path continues what the server held at revision base.
Continues(base, path) ==
  base > 0 => base <= Len(log) /\ IsPrefix(log[base].path, path)

\* A revision is only ever paired with a place that continues what the server
\* held at that revision: in the reader, in the cache it resumes from, in every
\* queued write and in every request.  It is what entitles a save to replace the
\* row it names.
BasesAreAncestors ==
  /\ \A d \in Device : /\ reader[d].open => Continues(reader[d].base, reader[d].path)
                       /\ cache[d].present => Continues(cache[d].revision, cache[d].path)
                       /\ \A i \in DOMAIN queue[d] :
                            Continues(queue[d][i].base, queue[d][i].path)
  /\ \A q \in requests : Continues(q.base, q.path)

\* The rows, queues and messages have their types, and every base is an ancestor.
SyncInv == TypeOK /\ BasesAreAncestors

\* The server's place only moves on along the child's choices, and each save
\* counts once: the devices, queues and network implement ReadingProgress.
Progress == INSTANCE ReadingProgress
  WITH place <- row.path, revision <- row.revision,
       applied <- {log[i].event : i \in DOMAIN log}

ProgressIsKept == Progress!Spec

\* A queued write leaves the queue only when it was applied, when the server
\* refused it, or when a conflict latched its story in the running replay: never
\* because the network failed, a replay ended or the tab was closed.
QueuedWritesAreSettled ==
  [][\A d \in Device : \A i \in DOMAIN queue[d] :
       (\A j \in DOMAIN queue'[d] : queue'[d][j].event /= queue[d][i].event) =>
         \/ \E k \in DOMAIN log : log[k].event = queue[d][i].event
         \/ drain'[d].latched
         \/ \E a \in Answers(d, "drain") : a.status = "refused"]_vars

Sendable(d) == reader[d].open /\ online[d] /\ queue[d] /= <<>>

\* On a device that stays online with its reader open, a queue is emptied as long
\* as no request of an online device times out: no append and no 'online' event
\* is lost on a replay that is about to end.
QueueDrains == \A d \in Device : Sendable(d) ~> ~Sendable(d) \/ used.timeouts > 0

=============================================================================
