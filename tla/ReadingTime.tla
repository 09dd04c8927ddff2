----------------------------- MODULE ReadingTime -----------------------------
(***************************************************************************)
(* How the time a child spends reading on one day gets from the devices'   *)
(* day buckets in IndexedDB to the server's row: accrual and flushes       *)
(* (frontend offline/readingTimeSync.ts, driven by                         *)
(* reader/useReadingTimeAccumulator.ts) and POST /v1/me/reading-time       *)
(* (api/reading_time.py).                                                  *)
(*                                                                         *)
(* Nothing single-flights a flush: the timer's, the one of a page being    *)
(* hidden and the one of a reader being left overlap, with each other and  *)
(* with accrual, and each writes back the copy of the bucket it read.      *)
(* Time is counted in stretches short enough for the clamp's grace.        *)
(***************************************************************************)
EXTENDS Naturals, Sequences

CONSTANTS
  Device,      \* the devices the child reads on
  Flusher,     \* the flushes a device can have under way at once
  MaxTicks,    \* bound: stretches of reading
  MaxFlushes,  \* bound: flush identifiers minted
  MaxFaults    \* bound: requests that fail or are rejected, pages closed

ASSUME BoundsAssumption == {MaxTicks, MaxFlushes, MaxFaults} \subseteq Nat

VARIABLES
  reader,    \* device |-> "away": none mounted, or its page hidden; or the one shown:
             \* "reading", or "paused" as far as it knows
  bucket,    \* device |-> the stored ReadingTimeDayBucket
  accrual,   \* device |-> the accrual between its read and its write
  flush,     \* device |-> flusher |-> the flush under way
  day,       \* the server's ReadingActivityDay row
  banked,    \* history: the flushes whose seconds the server added, in order
  paused,    \* ChildProfile.time_capture_paused
  requests,  \* flushes on their way to the server or at it
  replies,   \* answers on their way to a flush that waits
  used       \* what has been spent of each bound

vars == <<reader, bucket, accrual, flush, day, banked, paused, requests, replies, used>>
client == <<reader, bucket, accrual, flush>>
server == <<day, banked, paused>>

NoFlush == 0  \* flush identifiers are positive
NoAttempt == [id |-> NoFlush, delta |-> 0]
Empty == [seconds |-> 0, synced |-> 0, pending |-> NoAttempt]
Resting == [pc |-> "idle", copy |-> Empty]

Init ==
  /\ reader = [d \in Device |-> "away"]
  /\ bucket = [d \in Device |-> Empty]
  /\ accrual = [d \in Device |-> [busy |-> FALSE, copy |-> Empty]]
  /\ flush = [d \in Device |-> [f \in Flusher |-> Resting]]
  /\ day = [seconds |-> 0, last |-> NoFlush]
  /\ banked = <<>> /\ paused = FALSE
  /\ requests = {} /\ replies = {}
  /\ used = [ticks |-> 0, flushes |-> 0, faults |-> 0]

Spend(what, bound) == used[what] < bound /\ used' = [used EXCEPT ![what] = @ + 1]

\* A bucket that a flush looks for, and a flush that has found it.
Unsynced(b) == b.pending /= NoAttempt \/ b.seconds > b.synced
Listed(d, f) == /\ flush[d][f].pc = "idle"
                /\ flush' = [flush EXCEPT ![d][f] = [pc |-> "listed", copy |-> bucket[d]]]

-----------------------------------------------------------------------------
(***************************************************************************)
(* The reader (useReadingTimeAccumulator): while it is mounted its timer   *)
(* credits time and flushes, unless its page is hidden.                    *)
(***************************************************************************)
\* It is mounted, or its page is shown again.
Open(d) ==
  /\ reader[d] = "away"
  /\ reader' = [reader EXCEPT ![d] = "reading"]
  /\ UNCHANGED <<bucket, accrual, flush, server, requests, replies, used>>

\* The settings a reader asks for when it mounts (ReaderPage) say that capture is paused;
\* an answer that is out of date is one between two uses of the switch.
SettingsRead(d) ==
  /\ reader[d] = "reading" /\ paused
  /\ reader' = [reader EXCEPT ![d] = "paused"]
  /\ UNCHANGED <<bucket, accrual, flush, server, requests, replies, used>>

\* It is unmounted, or its page hidden (visibilitychange): the last it does is to list what
\* is unsynced, for a flush that goes on without it.
Leave(d, f) ==
  /\ reader[d] /= "away"
  /\ reader' = [reader EXCEPT ![d] = "away"]
  /\ IF Unsynced(bucket[d]) THEN Listed(d, f) ELSE UNCHANGED flush
  /\ UNCHANGED <<bucket, accrual, server, requests, replies, used>>

(***************************************************************************)
(* Accrual (accrueReadingTime): a read and a write, with an await between. *)
(***************************************************************************)
Tick(d) ==
  /\ reader[d] = "reading" /\ ~accrual[d].busy
  /\ accrual' = [accrual EXCEPT ![d] = [busy |-> TRUE, copy |-> bucket[d]]]
  /\ Spend("ticks", MaxTicks)
  /\ UNCHANGED <<reader, bucket, flush, server, requests, replies>>

Accrue(d) ==
  /\ accrual[d].busy
  /\ bucket' = [bucket EXCEPT ![d] = [accrual[d].copy EXCEPT !.seconds = @ + 1]]
  /\ accrual' = [accrual EXCEPT ![d] = [busy |-> FALSE, copy |-> Empty]]
  /\ UNCHANGED <<reader, flush, server, requests, replies, used>>

-----------------------------------------------------------------------------
(***************************************************************************)
(* A flush (flushAllReadingTime, flushReadingTimeBucket).                  *)
(***************************************************************************)
Ended(d, f) == flush' = [flush EXCEPT ![d][f] = Resting]

\* Fault: a bucket whose attempt is pending is left to that attempt.
ListWithoutRetry(d, f) ==
  /\ reader[d] = "reading" /\ Unsynced(bucket[d]) /\ bucket[d].pending = NoAttempt
  /\ Listed(d, f)
  /\ UNCHANGED <<reader, bucket, accrual, server, requests, replies, used>>

\* attemptFlush, by the timer: a bucket with something unsynced is flushed
\* (listReadingTimeBuckets).
List(d, f) ==
  /\ reader[d] = "reading" /\ Unsynced(bucket[d])
  /\ Listed(d, f)
  /\ UNCHANGED <<reader, bucket, accrual, server, requests, replies, used>>

Send(d, f, attempt) ==
  requests' = requests \cup {[device |-> d, flusher |-> f, id |-> attempt.id,
                              delta |-> attempt.delta, applied |-> 0, waits |-> TRUE]}

\* A pending attempt is sent as it is; without one a new attempt is minted and
\* stored first.
Attempt(d, f) ==
  /\ flush[d][f].pc = "listed"
  /\ LET copy == flush[d][f].copy
         fresh == [id |-> used.flushes + 1, delta |-> copy.seconds - copy.synced]
         working == [copy EXCEPT !.pending = fresh]
     IN  \/ /\ copy.pending /= NoAttempt
            /\ Send(d, f, copy.pending)
            /\ flush' = [flush EXCEPT ![d][f].pc = "sent"]
            /\ UNCHANGED <<bucket, used>>
         \/ /\ copy.pending = NoAttempt
            /\ Spend("flushes", MaxFlushes)
            /\ bucket' = [bucket EXCEPT ![d] = working]
            /\ Send(d, f, fresh)
            /\ flush' = [flush EXCEPT ![d][f] = [pc |-> "sent", copy |-> working]]
  /\ UNCHANGED <<reader, accrual, server, replies>>

\* The flushes fs of device d wait no longer; their requests are lost or arrive.
GiveUp(d, fs) ==
  LET mine == {q \in requests : q.device = d /\ q.flusher \in fs /\ q.waits}
  IN  /\ \E arrives \in SUBSET mine :
           requests' = (requests \ mine) \cup {[q EXCEPT !.waits = FALSE] : q \in arrives}
      /\ replies' = {a \in replies : ~(a.device = d /\ a.flusher \in fs)}

\* No answer, a 5xx or a 429: the attempt stays pending as it was stored.
FlushFails(d, f) ==
  /\ flush[d][f].pc = "sent"
  /\ GiveUp(d, {f}) /\ Ended(d, f)
  /\ Spend("faults", MaxFaults)
  /\ UNCHANGED <<reader, bucket, accrual, server>>

\* Fault: what was settled is added to the bucket as it has become.
SettledOnStored(d, f, settled) ==
  bucket' = [bucket EXCEPT ![d].synced = @ + settled, ![d].pending = NoAttempt]

\* The server settled this much of the attempt: the copy is written back with it.
Settled(d, f, settled) ==
  bucket' = [bucket EXCEPT ![d] = [flush[d][f].copy EXCEPT !.synced = @ + settled,
                                                           !.pending = NoAttempt]]

Answered(d, f) ==
  /\ flush[d][f].pc = "sent"
  /\ \E a \in replies :
       /\ a.device = d /\ a.flusher = f
       /\ Settled(d, f, a.settled)
       /\ replies' = replies \ {a}
  /\ Ended(d, f)
  /\ UNCHANGED <<reader, accrual, server, requests, used>>

\* Any other 4xx: the attempt is dropped and its seconds go into the next one.
Rejected(d, f) ==
  /\ \E q \in requests : /\ q.device = d /\ q.flusher = f /\ q.waits /\ q.applied = 0
                         /\ requests' = requests \ {q}
  /\ Settled(d, f, 0) /\ Ended(d, f)
  /\ Spend("faults", MaxFaults)
  /\ UNCHANGED <<reader, accrual, server, replies>>

\* The page is closed with whatever it was doing.
Close(d) ==
  /\ reader[d] /= "away" \/ accrual[d].busy \/ \E f \in Flusher : flush[d][f].pc /= "idle"
  /\ accrual' = [accrual EXCEPT ![d] = [busy |-> FALSE, copy |-> Empty]]
  /\ flush' = [flush EXCEPT ![d] = [f \in Flusher |-> Resting]]
  /\ reader' = [reader EXCEPT ![d] = "away"]
  /\ GiveUp(d, Flusher)
  /\ Spend("faults", MaxFaults)
  /\ UNCHANGED <<bucket, server>>

-----------------------------------------------------------------------------
(***************************************************************************)
(* The server (flush_reading_time, accumulate_stmt).                       *)
(***************************************************************************)
Answer(q, settled) ==
  replies' = IF q.waits
             THEN replies \cup {[device |-> q.device, flusher |-> q.flusher,
                                 settled |-> settled]}
             ELSE replies

\* The request, or less: what can have passed since the row's last write.
Clamped(delta) == 1..delta

\* Seconds of a paused profile are dropped, and those of the last flush are banked
\* already: both are settled.  What is left is clamped, and then written.
Check(q) ==
  /\ q \in requests /\ q.applied = 0
  /\ \/ /\ paused \/ day.last = q.id
        /\ Answer(q, q.delta)
        /\ requests' = requests \ {q}
     \/ /\ ~paused /\ day.last /= q.id
        /\ \E applied \in Clamped(q.delta) :
             requests' = (requests \ {q}) \cup {[q EXCEPT !.applied = applied]}
        /\ UNCHANGED replies
  /\ UNCHANGED <<client, server, used>>

\* Fault: the upsert has no WHERE.
BankUnguarded(q) ==
  /\ q \in requests /\ q.applied > 0
  /\ day' = [seconds |-> day.seconds + q.applied, last |-> q.id]
  /\ banked' = Append(banked, q.id)
  /\ Answer(q, q.applied)
  /\ requests' = requests \ {q}
  /\ UNCHANGED <<client, paused, used>>

\* One statement: the seconds are added unless the row carries this flush by now.
Bank(q) ==
  /\ q \in requests /\ q.applied > 0
  /\ \/ /\ day.last /= q.id
        /\ day' = [seconds |-> day.seconds + q.applied, last |-> q.id]
        /\ banked' = Append(banked, q.id)
     \/ /\ day.last = q.id
        /\ UNCHANGED <<day, banked>>
  /\ Answer(q, q.applied)
  /\ requests' = requests \ {q}
  /\ UNCHANGED <<client, paused, used>>

\* The guardian's switch.
Pause ==
  /\ paused' = ~paused
  /\ UNCHANGED <<client, day, banked, requests, replies, used>>

-----------------------------------------------------------------------------
FlushStep(d, f) ==
  \/ List(d, f) \/ Attempt(d, f) \/ Answered(d, f)

Next ==
  \/ \E d \in Device :
       \/ Open(d) \/ SettingsRead(d) \/ Tick(d) \/ Accrue(d) \/ Close(d)
       \/ \E f \in Flusher : \/ Leave(d, f) \/ FlushStep(d, f)
                            \/ FlushFails(d, f) \/ Rejected(d, f)
  \/ \E q \in requests : Check(q) \/ Bank(q)
  \/ Pause

Spec == Init /\ [][Next]_vars

(***************************************************************************)
(* Fairness: IndexedDB settles, the timer of a reader that is shown and    *)
(* not paused flushes every thirty seconds, and the server answers what    *)
(* reaches it.  Nothing makes a child open a reader, or hide or leave it.  *)
(***************************************************************************)
Fairness ==
  /\ \A d \in Device : /\ WF_vars(Accrue(d))
                       /\ WF_vars(\E f \in Flusher : List(d, f))
                       /\ \A f \in Flusher :
                            WF_vars(flush[d][f].pc /= "idle" /\ FlushStep(d, f))
  /\ WF_vars(\E q \in requests : Check(q) \/ Bank(q))

FairSpec == Spec /\ Fairness

-----------------------------------------------------------------------------
Bucket == [seconds : 0..MaxTicks, synced : Nat, pending : [id : 0..MaxFlushes, delta : Nat]]

TypeOK ==
  /\ reader \in [Device -> {"away", "reading", "paused"}]
  /\ bucket \in [Device -> Bucket]
  /\ accrual \in [Device -> [busy : BOOLEAN, copy : Bucket]]
  /\ flush \in [Device -> [Flusher -> [pc : {"idle", "listed", "sent"}, copy : Bucket]]]
  /\ day \in [seconds : Nat, last : 0..MaxFlushes]
  /\ banked \in Seq(1..MaxFlushes) /\ paused \in BOOLEAN
  \* the row's slot holds the flush that was banked last
  /\ day.last = IF banked = <<>> THEN NoFlush ELSE banked[Len(banked)]
  /\ requests \subseteq [device : Device, flusher : Flusher, id : 1..MaxFlushes,
                         delta : 1..MaxTicks, applied : 0..MaxTicks, waits : BOOLEAN]
  /\ replies \subseteq [device : Device, flusher : Flusher, settled : 1..MaxTicks]
  /\ used \in [ticks : 0..MaxTicks, flushes : 0..MaxFlushes, faults : 0..MaxFaults]

\* However flushes and accruals overwrite each other's copies, a stored bucket makes
\* sense: no more is synced than was read, and the pending attempt fits in between.
BucketIsCoherent ==
  \A d \in Device : bucket[d].synced + bucket[d].pending.delta <= bucket[d].seconds

\* Buckets, copies, messages and the row have their types, and buckets are coherent.
BucketInv == TypeOK /\ BucketIsCoherent

\* A retry that races its own original is banked once: between two bankings of one
\* flush lies that of another (the window the code's comments admit).
RetryIsBankedOnce == \A i \in 2..Len(banked) : banked[i] /= banked[i - 1]

\* A flush would need an identifier beyond the bound, or does already.
Starved(d) ==
  /\ used.flushes = MaxFlushes
  /\ \/ bucket[d].pending = NoAttempt
     \/ \E f \in Flusher : flush[d][f].pc = "listed" /\ flush[d][f].copy.pending = NoAttempt

\* What a stored bucket has unsynced is settled in the end, if a reader that is not
\* paused is shown again and again: whatever requests fail or are rejected, whenever pages
\* are hidden, left or closed, and however stale the copies are that flushes and accruals
\* write back.  It speaks of what the bucket says: stretches that a stale copy has
\* overwritten are in no bucket, are not sent, and are not claimed here.
UnsyncedIsFlushed ==
  \A d \in Device :
    []<>(reader[d] = "reading") =>
      (Unsynced(bucket[d]) ~> ~Unsynced(bucket[d]) \/ Starved(d))
=============================================================================
