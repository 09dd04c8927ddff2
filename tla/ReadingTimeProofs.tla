-------------------------- MODULE ReadingTimeProofs --------------------------
(***************************************************************************)
(* What ReadingTime guarantees for any devices, any number of overlapping  *)
(* flushes and any bounds: the types, that every stored bucket makes sense *)
(* whatever copies overwrite it, and that a retry racing its original is   *)
(* banked once.                                                            *)
(***************************************************************************)
EXTENDS ReadingTime, SequenceTheorems, TLAPS

Accruing == [busy : BOOLEAN, copy : Bucket]
Flushing == [pc : {"idle", "listed", "sent"}, copy : Bucket]
Reading == {"away", "reading", "paused"}
Request == [device : Device, flusher : Flusher, id : 1 .. MaxFlushes,
            delta : 1 .. MaxTicks, applied : 0 .. MaxTicks, waits : BOOLEAN]
Reply == [device : Device, flusher : Flusher, settled : 1 .. MaxTicks]
Used == [ticks : 0 .. MaxTicks, flushes : 0 .. MaxFlushes, faults : 0 .. MaxFaults]

LEMMA Bounds == MaxTicks \in Nat /\ MaxFlushes \in Nat /\ MaxFaults \in Nat
BY BoundsAssumption

-----------------------------------------------------------------------------
(***************************************************************************)
(* One bucket, or copy of one, when n stretches have been read.            *)
(***************************************************************************)
Sound(b, n) ==
  /\ b \in Bucket
  /\ b.synced + b.pending.delta <= b.seconds
  /\ b.seconds <= n
  /\ b.pending = NoAttempt \/ (b.pending.id \in 1 .. MaxFlushes /\ b.pending.delta >= 1)

LEMMA EmptyIsSound == ASSUME NEW n \in Nat PROVE Sound(Empty, n)
BY Bounds DEF Sound, Empty, NoAttempt, NoFlush, Bucket

LEMMA SoundLater == ASSUME NEW n \in Nat, NEW b, Sound(b, n) PROVE Sound(b, n + 1)
BY DEF Sound, Bucket

LEMMA AccruedIsSound ==
  ASSUME NEW n \in 0 .. MaxTicks, NEW b, Sound(b, n), b.seconds < n
  PROVE  Sound([b EXCEPT !.seconds = @ + 1], n)
<1> DEFINE c == [b EXCEPT !.seconds = @ + 1]
<1>1. b \in Bucket /\ b.seconds \in Nat /\ b.synced \in Nat /\ b.pending.delta \in Nat
  BY DEF Sound, Bucket
<1>2. b.seconds + 1 \in 0 .. MaxTicks
  BY <1>1, Bounds
<1>3. c \in Bucket /\ c.seconds = b.seconds + 1 /\ c.synced = b.synced /\ c.pending = b.pending
  BY <1>1, <1>2 DEF Bucket
<1> HIDE DEF c
<1>4. Sound(c, n)
  BY <1>1, <1>3 DEF Sound
<1> QED  BY <1>4 DEF c

LEMMA AttemptIsSound ==
  ASSUME NEW n \in 0 .. MaxTicks, NEW b, Sound(b, n), b.pending = NoAttempt, Unsynced(b),
         NEW id \in 1 .. MaxFlushes
  PROVE  /\ Sound([b EXCEPT !.pending = [id |-> id, delta |-> b.seconds - b.synced]], n)
         /\ b.seconds - b.synced \in 1 .. MaxTicks
<1> DEFINE p == [id |-> id, delta |-> b.seconds - b.synced]
           c == [b EXCEPT !.pending = p]
<1>1. /\ b \in Bucket /\ b.seconds \in Nat /\ b.synced \in Nat /\ b.seconds > b.synced
      /\ b.seconds <= MaxTicks
  BY Bounds DEF Sound, Bucket, Unsynced
<1>2. p.id = id /\ p.delta = b.seconds - b.synced /\ p \in [id : 0 .. MaxFlushes, delta : Nat]
  BY <1>1, Bounds
<1> HIDE DEF p
<1>3. c \in Bucket /\ c.pending = p /\ c.seconds = b.seconds /\ c.synced = b.synced
  BY <1>1, <1>2 DEF Bucket
<1>4. b.seconds - b.synced \in 1 .. MaxTicks
  BY <1>1, Bounds
<1> HIDE DEF c
<1>5. Sound(c, n)
  BY <1>1, <1>2, <1>3, <1>4 DEF Sound
<1> QED  BY <1>4, <1>5 DEF c, p

LEMMA SettledIsSound ==
  ASSUME NEW n \in 0 .. MaxTicks, NEW b, Sound(b, n), NEW s \in Nat, s <= b.pending.delta
  PROVE  Sound([b EXCEPT !.synced = @ + s, !.pending = NoAttempt], n)
<1> DEFINE c == [b EXCEPT !.synced = @ + s, !.pending = NoAttempt]
<1>1. b \in Bucket /\ b.seconds \in Nat /\ b.synced \in Nat /\ b.pending.delta \in Nat
  BY DEF Sound, Bucket
<1>2. NoAttempt \in [id : 0 .. MaxFlushes, delta : Nat] /\ NoAttempt.delta = 0
  BY Bounds DEF NoAttempt, NoFlush
<1>3. c \in Bucket /\ c.seconds = b.seconds /\ c.synced = b.synced + s /\ c.pending = NoAttempt
  <2>1. PICK t \in Nat : t = b.synced + s
    BY <1>1
  <2>2. c = [b EXCEPT !.synced = t, !.pending = NoAttempt]
    BY <2>1
  <2> HIDE DEF c
  <2> QED  BY <1>1, <1>2, <2>1, <2>2 DEF Bucket
<1> HIDE DEF c
<1>4. Sound(c, n)
  BY <1>1, <1>2, <1>3 DEF Sound
<1> QED  BY <1>4 DEF c

-----------------------------------------------------------------------------
(***************************************************************************)
(* Buckets and the copies that accruals and flushes hold of them.          *)
(***************************************************************************)
FlushOK(x, n) ==
  /\ x \in Flushing
  /\ Sound(x.copy, n)
  /\ x.pc = "listed" => Unsynced(x.copy)
  /\ x.pc = "sent" => x.copy.pending /= NoAttempt

AccrualOK(x, n) ==
  /\ x \in Accruing
  /\ Sound(x.copy, n)
  /\ x.busy => x.copy.seconds < n

CopiesInv ==
  /\ used \in Used
  /\ bucket \in [Device -> Bucket] /\ accrual \in [Device -> Accruing]
  /\ flush \in [Device -> [Flusher -> Flushing]]
  /\ \A d \in Device : /\ Sound(bucket[d], used.ticks)
                       /\ AccrualOK(accrual[d], used.ticks)
                       /\ \A f \in Flusher : FlushOK(flush[d][f], used.ticks)

LEMMA RestingIsOK ==
  ASSUME NEW n \in Nat
  PROVE  FlushOK(Resting, n) /\ AccrualOK([busy |-> FALSE, copy |-> Empty], n)
<1>1. Sound(Empty, n) /\ Empty \in Bucket
  BY EmptyIsSound DEF Sound
<1> QED  BY <1>1 DEF FlushOK, AccrualOK, Resting, Flushing, Accruing

LEMMA SpendStep ==
  ASSUME used \in Used
  PROVE  /\ Spend("ticks", MaxTicks) =>
              used' \in Used /\ used.ticks + 1 \in 0 .. MaxTicks /\ used'.ticks = used.ticks + 1
         /\ Spend("flushes", MaxFlushes) =>
              used' \in Used /\ used.flushes + 1 \in 1 .. MaxFlushes /\ used'.ticks = used.ticks
         /\ Spend("faults", MaxFaults) => used' \in Used /\ used'.ticks = used.ticks
<1>1. used.ticks \in Nat /\ used.flushes \in Nat /\ used.faults \in Nat
  BY DEF Used
<1>2. ASSUME Spend("ticks", MaxTicks)
      PROVE  used' \in Used /\ used.ticks + 1 \in 0 .. MaxTicks /\ used'.ticks = used.ticks + 1
  <2>0. used' = [used EXCEPT !.ticks = @ + 1] /\ used.ticks < MaxTicks
    BY <1>2 DEF Spend
  <2>1. used.ticks + 1 \in 0 .. MaxTicks
    BY <1>1, <2>0, Bounds
  <2> QED  BY <2>0, <2>1 DEF Used
<1>3. ASSUME Spend("flushes", MaxFlushes)
      PROVE  used' \in Used /\ used.flushes + 1 \in 1 .. MaxFlushes /\ used'.ticks = used.ticks
  <2>0. used' = [used EXCEPT !.flushes = @ + 1] /\ used.flushes < MaxFlushes
    BY <1>3 DEF Spend
  <2>1. used.flushes + 1 \in 1 .. MaxFlushes
    BY <1>1, <2>0, Bounds
  <2>2. used.flushes + 1 \in 0 .. MaxFlushes
    BY <2>1, Bounds
  <2> QED  BY <2>0, <2>1, <2>2 DEF Used
<1>4. ASSUME Spend("faults", MaxFaults) PROVE used' \in Used /\ used'.ticks = used.ticks
  <2>0. used' = [used EXCEPT !.faults = @ + 1] /\ used.faults < MaxFaults
    BY <1>4 DEF Spend
  <2>1. used.faults + 1 \in 0 .. MaxFaults
    BY <1>1, <2>0, Bounds
  <2> QED  BY <2>0, <2>1 DEF Used
<1> QED  BY <1>2, <1>3, <1>4

LEMMA InitCopiesInv == Init => CopiesInv
<1> SUFFICES ASSUME Init PROVE CopiesInv
  OBVIOUS
<1>1. used \in Used /\ used.ticks = 0
  BY Bounds DEF Init, Used
<1>2. Sound(Empty, 0) /\ FlushOK(Resting, 0) /\ AccrualOK([busy |-> FALSE, copy |-> Empty], 0)
  BY EmptyIsSound, RestingIsOK
<1>3. Empty \in Bucket /\ Resting \in Flushing /\ [busy |-> FALSE, copy |-> Empty] \in Accruing
  BY <1>2 DEF Sound, FlushOK, AccrualOK
<1>4. /\ bucket = [d \in Device |-> Empty]
      /\ accrual = [d \in Device |-> [busy |-> FALSE, copy |-> Empty]]
      /\ flush = [d \in Device |-> [f \in Flusher |-> Resting]]
  BY DEF Init, Resting
<1> HIDE DEF Resting
<1> QED  BY <1>1, <1>2, <1>3, <1>4 DEF CopiesInv

\* One flush of one device changes, and perhaps that device's bucket.
LEMMA FlushChanges ==
  ASSUME CopiesInv, NEW d \in Device, NEW f \in Flusher, NEW x, NEW b,
         flush' = [flush EXCEPT ![d][f] = x], FlushOK(x, used.ticks),
         bucket' = [bucket EXCEPT ![d] = b], Sound(b, used.ticks),
         accrual' = accrual, used' \in Used, used'.ticks = used.ticks
  PROVE  CopiesInv'
<1>1. b \in Bucket /\ x \in Flushing
  BY DEF Sound, FlushOK
<1>2. bucket' \in [Device -> Bucket] /\ \A e \in Device : bucket'[e] = IF e = d THEN b ELSE bucket[e]
  BY <1>1 DEF CopiesInv
<1>3. flush' \in [Device -> [Flusher -> Flushing]]
  BY <1>1 DEF CopiesInv
<1>4. \A e \in Device, g \in Flusher : flush'[e][g] = IF e = d /\ g = f THEN x ELSE flush[e][g]
  BY DEF CopiesInv
<1>5. \A e \in Device : /\ Sound(bucket'[e], used.ticks) /\ AccrualOK(accrual'[e], used.ticks)
                        /\ \A g \in Flusher : FlushOK(flush'[e][g], used.ticks)
  BY <1>2, <1>4 DEF CopiesInv
<1> QED  BY <1>2, <1>3, <1>5 DEF CopiesInv

-----------------------------------------------------------------------------
(***************************************************************************)
(* Messages.  A flush that waits is waited for by one message at most, its *)
(* request or the answer, and neither is about more than its attempt.      *)
(***************************************************************************)
Same(p, q) == p.device = q.device /\ p.flusher = q.flusher

AsSent(q, x) == x.pc = "sent" /\ q.delta = x.copy.pending.delta
AsAnswered(a, x) == x.pc = "sent" /\ a.settled <= x.copy.pending.delta

RequestsInv ==
  \A q \in requests : /\ q \in Request /\ q.applied <= q.delta
                      /\ q.waits => AsSent(q, flush[q.device][q.flusher])

RepliesInv ==
  \A a \in replies : a \in Reply /\ AsAnswered(a, flush[a.device][a.flusher])

OneMessage ==
  /\ \A p, q \in requests : p.waits /\ q.waits /\ Same(p, q) => p = q
  /\ \A a, b \in replies : Same(a, b) => a = b
  /\ \A q \in requests, a \in replies : q.waits => ~ Same(q, a)

MessagesInv == RequestsInv /\ RepliesInv /\ OneMessage

ClientInv == CopiesInv /\ MessagesInv

LEMMA InitClientInv == Init => ClientInv
<1>1. Init => MessagesInv
  BY DEF Init, MessagesInv, RequestsInv, RepliesInv, OneMessage
<1> QED  BY <1>1, InitCopiesInv DEF ClientInv

LEMMA TickStep == ASSUME ClientInv, NEW d \in Device, Tick(d) PROVE ClientInv'
<1> DEFINE n == used.ticks  x == [busy |-> TRUE, copy |-> bucket[d]]
<1>1. CopiesInv /\ n \in Nat /\ used'.ticks = n + 1 /\ used' \in Used /\ n + 1 \in 0 .. MaxTicks
  BY SpendStep DEF ClientInv, CopiesInv, Tick, Used
<1>2. /\ accrual' = [accrual EXCEPT ![d] = x]
      /\ UNCHANGED <<bucket, flush, requests, replies>>
  BY DEF Tick
<1>3. Sound(bucket[d], n) /\ Sound(bucket[d], n + 1) /\ bucket[d] \in Bucket /\ bucket[d].seconds < n + 1
  BY <1>1, SoundLater DEF CopiesInv, Sound, Bucket
<1>4. AccrualOK(x, n + 1) /\ x \in Accruing
  BY <1>3 DEF AccrualOK, Accruing
<1>5. \A y : FlushOK(y, n) => FlushOK(y, n + 1)
  BY <1>1, SoundLater DEF FlushOK
<1>6. \A y : AccrualOK(y, n) => AccrualOK(y, n + 1)
  BY <1>1, SoundLater DEF AccrualOK, Sound, Bucket, Accruing
<1> HIDE DEF x
<1>7. \A e \in Device : accrual'[e] = IF e = d THEN x ELSE accrual[e]
  BY <1>1, <1>2 DEF CopiesInv
<1>8. accrual' \in [Device -> Accruing]
  BY <1>1, <1>2, <1>4 DEF CopiesInv
<1>9. \A e \in Device : /\ Sound(bucket[e], n + 1) /\ AccrualOK(accrual'[e], n + 1)
                        /\ \A g \in Flusher : FlushOK(flush[e][g], n + 1)
  BY <1>1, <1>4, <1>5, <1>6, <1>7, SoundLater DEF CopiesInv
<1>10. CopiesInv'
  BY <1>1, <1>2, <1>8, <1>9 DEF CopiesInv
<1>11. MessagesInv'
  BY <1>2 DEF ClientInv, MessagesInv, RequestsInv, RepliesInv, OneMessage
<1> QED  BY <1>10, <1>11 DEF ClientInv

LEMMA AccrueStep == ASSUME ClientInv, NEW d \in Device, Accrue(d) PROVE ClientInv'
<1> DEFINE n == used.ticks  b == [accrual[d].copy EXCEPT !.seconds = @ + 1]
           x == [busy |-> FALSE, copy |-> Empty]
<1>1. CopiesInv /\ n \in Nat /\ n \in 0 .. MaxTicks
  BY DEF ClientInv, CopiesInv, Used
<1>2. /\ bucket' = [bucket EXCEPT ![d] = b] /\ accrual' = [accrual EXCEPT ![d] = x]
      /\ UNCHANGED <<flush, requests, replies, used>>
  BY DEF Accrue
<1>3. Sound(b, n) /\ b \in Bucket
  <2>1. Sound(accrual[d].copy, n) /\ accrual[d].copy.seconds < n
    BY <1>1 DEF CopiesInv, AccrualOK, Accrue
  <2>2. Sound(b, n)
    BY <1>1, <2>1, AccruedIsSound
  <2> QED  BY <2>2 DEF Sound
<1>4. AccrualOK(x, n) /\ x \in Accruing
  BY <1>1, RestingIsOK DEF AccrualOK
<1> HIDE DEF b, x
<1>5. /\ \A e \in Device : bucket'[e] = IF e = d THEN b ELSE bucket[e]
      /\ \A e \in Device : accrual'[e] = IF e = d THEN x ELSE accrual[e]
      /\ bucket' \in [Device -> Bucket] /\ accrual' \in [Device -> Accruing]
  BY <1>1, <1>2, <1>3, <1>4 DEF CopiesInv
<1>6. CopiesInv'
  BY <1>1, <1>2, <1>3, <1>4, <1>5 DEF CopiesInv
<1>7. MessagesInv'
  BY <1>2 DEF ClientInv, MessagesInv, RequestsInv, RepliesInv, OneMessage
<1> QED  BY <1>6, <1>7 DEF ClientInv

\* Messages of other flushes, as they are or fewer, do not notice that one changes which
\* no message is for any more.
LEMMA OthersMessages ==
  ASSUME CopiesInv, MessagesInv, NEW d \in Device, NEW f \in Flusher, NEW x,
         flush' = [flush EXCEPT ![d][f] = x],
         requests' \subseteq requests, replies' \subseteq replies,
         \A q \in requests' : ~ (q.waits /\ q.device = d /\ q.flusher = f),
         \A a \in replies' : ~ (a.device = d /\ a.flusher = f)
  PROVE  MessagesInv'
<1>1. \A e \in Device, g \in Flusher : flush'[e][g] = IF e = d /\ g = f THEN x ELSE flush[e][g]
  BY DEF CopiesInv
<1>2. RequestsInv'
  <2> SUFFICES ASSUME NEW q \in requests'
               PROVE  /\ q \in Request /\ q.applied <= q.delta
                      /\ q.waits => AsSent(q, flush'[q.device][q.flusher])
    BY DEF RequestsInv, AsSent
  <2>1. q \in Request /\ q.applied <= q.delta /\ (q.waits => AsSent(q, flush[q.device][q.flusher]))
    BY DEF MessagesInv, RequestsInv
  <2>2. q.device \in Device /\ q.flusher \in Flusher
    BY <2>1 DEF Request
  <2> QED  BY <1>1, <2>1, <2>2
<1>3. RepliesInv'
  <2> SUFFICES ASSUME NEW a \in replies' PROVE a \in Reply /\ AsAnswered(a, flush'[a.device][a.flusher])
    BY DEF RepliesInv, AsAnswered
  <2>1. a \in Reply /\ AsAnswered(a, flush[a.device][a.flusher])
    BY DEF MessagesInv, RepliesInv
  <2>2. a.device \in Device /\ a.flusher \in Flusher
    BY <2>1 DEF Reply
  <2> QED  BY <1>1, <2>1, <2>2
<1>4. OneMessage'
  BY DEF MessagesInv, OneMessage
<1> QED  BY <1>2, <1>3, <1>4 DEF MessagesInv

\* A flush that is not sent has no message under way.
LEMMA NoMessages ==
  ASSUME MessagesInv, NEW d \in Device, NEW f \in Flusher, flush[d][f].pc /= "sent"
  PROVE  /\ \A q \in requests : ~ (q.waits /\ q.device = d /\ q.flusher = f)
         /\ \A a \in replies : ~ (a.device = d /\ a.flusher = f)
BY DEF MessagesInv, RequestsInv, RepliesInv, AsSent, AsAnswered

\* The timer's flush and that of a reader that is left begin in the same way.
LEMMA ListedStep ==
  ASSUME ClientInv, NEW d \in Device, NEW f \in Flusher, Unsynced(bucket[d]), Listed(d, f),
         UNCHANGED <<bucket, accrual, requests, replies, used>>
  PROVE  ClientInv'
<1> DEFINE x == [pc |-> "listed", copy |-> bucket[d]]
<1>1. CopiesInv /\ MessagesInv
  BY DEF ClientInv
<1>2. Sound(bucket[d], used.ticks) /\ used \in Used /\ bucket' = [bucket EXCEPT ![d] = bucket[d]]
  BY <1>1 DEF CopiesInv
<1>3. bucket[d] \in Bucket
  BY <1>1 DEF CopiesInv
<1>4. flush[d][f].pc /= "sent" /\ flush' = [flush EXCEPT ![d][f] = x]
  BY DEF Listed
<1>5. FlushOK(x, used.ticks)
  BY <1>2, <1>3 DEF FlushOK, Flushing
<1>6. CopiesInv'
  BY <1>1, <1>2, <1>4, <1>5, FlushChanges
<1>7. /\ \A q \in requests : ~ (q.waits /\ q.device = d /\ q.flusher = f)
      /\ \A a \in replies : ~ (a.device = d /\ a.flusher = f)
  BY <1>1, <1>4, NoMessages
<1>8. MessagesInv'
  <2> HIDE DEF x
  <2> QED  BY <1>1, <1>4, <1>7, OthersMessages
<1> QED  BY <1>6, <1>8 DEF ClientInv

LEMMA AttemptStep == ASSUME ClientInv, NEW d \in Device, NEW f \in Flusher, Attempt(d, f) PROVE ClientInv'
<1> DEFINE n == used.ticks  c == flush[d][f].copy
<1>1. CopiesInv /\ MessagesInv /\ flush[d][f].pc = "listed" /\ n \in 0 .. MaxTicks /\ n \in Nat
  BY DEF ClientInv, Attempt, CopiesInv, Used
<1>2. flush[d][f] \in Flushing /\ Sound(c, n) /\ Unsynced(c) /\ c \in Bucket
  BY <1>1 DEF CopiesInv, FlushOK, Sound
<1>3. PICK x, b : /\ x \in Flushing /\ x.pc = "sent"
                  /\ x.copy.pending.id \in 1 .. MaxFlushes /\ x.copy.pending.delta \in 1 .. MaxTicks
                  /\ FlushOK(x, n) /\ Sound(b, n)
                  /\ flush' = [flush EXCEPT ![d][f] = x] /\ bucket' = [bucket EXCEPT ![d] = b]
                  /\ Send(d, f, x.copy.pending)
                  /\ used' \in Used /\ used'.ticks = n
  <2>1. CASE c.pending /= NoAttempt
    <3> DEFINE x == [flush[d][f] EXCEPT !.pc = "sent"]
    <3>1. x \in Flushing /\ x.pc = "sent" /\ x.copy = c
      BY <1>2 DEF Flushing
    <3>2. flush' = [flush EXCEPT ![d][f] = x] /\ UNCHANGED <<bucket, used>> /\ Send(d, f, c.pending)
      BY <2>1 DEF Attempt
    <3> HIDE DEF x
    <3>3. FlushOK(x, n)
      BY <1>2, <2>1, <3>1 DEF FlushOK
    <3>4. c.pending.id \in 1 .. MaxFlushes /\ c.pending.delta \in 1 .. MaxTicks
      <4>1. c.pending.id \in 1 .. MaxFlushes /\ c.pending.delta >= 1 /\ c.pending.delta \in Nat
            /\ c.synced \in Nat /\ c.seconds \in 0 .. MaxTicks
            /\ c.synced + c.pending.delta <= c.seconds
        BY <1>2, <2>1 DEF Sound, Bucket
      <4> QED  BY <4>1, Bounds
    <3>5. Sound(bucket[d], n) /\ used \in Used /\ bucket' = [bucket EXCEPT ![d] = bucket[d]]
      BY <1>1, <3>2 DEF CopiesInv
    <3> QED  BY <3>1, <3>2, <3>3, <3>4, <3>5
  <2>2. CASE c.pending = NoAttempt
    <3> DEFINE fresh == [id |-> used.flushes + 1, delta |-> c.seconds - c.synced]
               w == [c EXCEPT !.pending = fresh]
               x == [pc |-> "sent", copy |-> w]
    <3>1. /\ Spend("flushes", MaxFlushes) /\ bucket' = [bucket EXCEPT ![d] = w]
          /\ Send(d, f, fresh) /\ flush' = [flush EXCEPT ![d][f] = x]
      BY <2>2 DEF Attempt
    <3>2. used \in Used
      BY <1>1 DEF CopiesInv
    <3>3. used' \in Used /\ used'.ticks = n /\ used.flushes + 1 \in 1 .. MaxFlushes
      BY <3>1, <3>2, SpendStep
    <3>4. Sound(w, n) /\ c.seconds - c.synced \in 1 .. MaxTicks
      <4>1. n \in 0 .. MaxTicks /\ Sound(c, n) /\ c.pending = NoAttempt /\ Unsynced(c)
        BY <1>1, <1>2, <2>2
      <4> HIDE DEF n, c, x
      <4> QED  BY <4>1, <3>3, AttemptIsSound
    <3>5. w.pending = fresh
      BY <1>2 DEF Bucket
    <3>6. /\ fresh.id \in 1 .. MaxFlushes /\ fresh.delta \in 1 .. MaxTicks /\ fresh /= NoAttempt
      BY <3>3, <3>4, Bounds DEF NoAttempt, NoFlush
    <3> HIDE DEF w, fresh
    <3>7. FlushOK(x, n) /\ x \in Flushing
      BY <3>4, <3>5, <3>6 DEF FlushOK, Flushing, Sound
    <3> QED  BY <3>1, <3>3, <3>4, <3>5, <3>6, <3>7
  <2> QED  BY <2>1, <2>2
<1> DEFINE q == [device |-> d, flusher |-> f, id |-> x.copy.pending.id,
                 delta |-> x.copy.pending.delta, applied |-> 0, waits |-> TRUE]
<1>4. requests' = requests \cup {q} /\ UNCHANGED <<accrual, replies>>
  BY <1>3 DEF Send, Attempt
<1>5. CopiesInv'
  BY <1>1, <1>3, <1>4, FlushChanges
<1>6. /\ \A p \in requests : ~ (p.waits /\ p.device = d /\ p.flusher = f)
      /\ \A a \in replies : ~ (a.device = d /\ a.flusher = f)
  BY <1>1 DEF MessagesInv, RequestsInv, RepliesInv, AsSent, AsAnswered
<1>7. \A e \in Device, g \in Flusher : flush'[e][g] = IF e = d /\ g = f THEN x ELSE flush[e][g]
  BY <1>1, <1>3 DEF CopiesInv
<1>8. /\ q \in Request /\ q.device = d /\ q.flusher = f /\ q.waits /\ q.applied <= q.delta
      /\ q.delta = x.copy.pending.delta
  BY <1>3, Bounds DEF Request
<1> HIDE DEF q
<1>9. RequestsInv'
  <2> SUFFICES ASSUME NEW p \in requests'
               PROVE  /\ p \in Request /\ p.applied <= p.delta
                      /\ p.waits => AsSent(p, flush'[p.device][p.flusher])
    BY DEF RequestsInv, AsSent
  <2>1. CASE p = q
    BY <1>3, <1>7, <1>8, <2>1 DEF AsSent
  <2>2. CASE p \in requests
    <3>1. p \in Request /\ p.applied <= p.delta /\ (p.waits => AsSent(p, flush[p.device][p.flusher]))
      BY <1>1, <2>2 DEF MessagesInv, RequestsInv
    <3>2. p.device \in Device /\ p.flusher \in Flusher
      BY <3>1 DEF Request
    <3> QED  BY <1>6, <1>7, <2>2, <3>1, <3>2
  <2> QED  BY <1>4, <2>1, <2>2
<1>10. RepliesInv'
  <2> SUFFICES ASSUME NEW a \in replies PROVE a \in Reply /\ AsAnswered(a, flush'[a.device][a.flusher])
    BY <1>4 DEF RepliesInv, AsAnswered
  <2>1. a \in Reply /\ AsAnswered(a, flush[a.device][a.flusher])
    BY <1>1 DEF MessagesInv, RepliesInv
  <2>2. a.device \in Device /\ a.flusher \in Flusher
    BY <2>1 DEF Reply
  <2> QED  BY <1>6, <1>7, <2>1, <2>2
<1>11. OneMessage'
  BY <1>1, <1>4, <1>6, <1>8 DEF MessagesInv, OneMessage, Same
<1> QED  BY <1>5, <1>9, <1>10, <1>11 DEF ClientInv, MessagesInv

\* A flush is settled by s, and nothing is on its way to it or from it any more.
LEMMA SettledStep ==
  ASSUME ClientInv, NEW d \in Device, NEW f \in Flusher, NEW s \in Nat, Settled(d, f, s), Ended(d, f),
         s <= flush[d][f].copy.pending.delta,
         accrual' = accrual, used' \in Used, used'.ticks = used.ticks,
         requests' \subseteq requests, replies' \subseteq replies,
         \A q \in requests' : ~ (q.waits /\ q.device = d /\ q.flusher = f),
         \A a \in replies' : ~ (a.device = d /\ a.flusher = f)
  PROVE  ClientInv'
<1> DEFINE n == used.ticks
           b == [flush[d][f].copy EXCEPT !.synced = @ + s, !.pending = NoAttempt]
<1>1. CopiesInv /\ MessagesInv /\ n \in 0 .. MaxTicks /\ n \in Nat /\ Sound(flush[d][f].copy, n)
  BY DEF ClientInv, CopiesInv, FlushOK, Used
<1>2. flush' = [flush EXCEPT ![d][f] = Resting] /\ bucket' = [bucket EXCEPT ![d] = b]
  BY DEF Settled, Ended, Resting
<1>3. Sound(b, n)
  BY <1>1, SettledIsSound
<1>4. FlushOK(Resting, n)
  BY <1>1, RestingIsOK
<1> HIDE DEF b
<1>5. CopiesInv'
  BY <1>1, <1>2, <1>3, <1>4, FlushChanges
<1>6. MessagesInv'
  BY <1>1, <1>2, OthersMessages
<1> QED  BY <1>5, <1>6 DEF ClientInv

LEMMA AnsweredStep == ASSUME ClientInv, NEW d \in Device, NEW f \in Flusher, Answered(d, f) PROVE ClientInv'
<1>1. PICK a \in replies : /\ a.device = d /\ a.flusher = f /\ Settled(d, f, a.settled)
                           /\ replies' = replies \ {a}
  BY DEF Answered
<1>2. MessagesInv /\ Ended(d, f) /\ UNCHANGED <<accrual, requests, used>> /\ used \in Used
  BY DEF ClientInv, CopiesInv, Answered
<1>3. a.settled \in Nat /\ a.settled <= flush[d][f].copy.pending.delta
  BY <1>1, <1>2, Bounds DEF MessagesInv, RepliesInv, Reply, AsAnswered
<1>4. \A b \in replies' : ~ (b.device = d /\ b.flusher = f)
  BY <1>1, <1>2 DEF MessagesInv, OneMessage, Same
<1>5. \A q \in requests' : ~ (q.waits /\ q.device = d /\ q.flusher = f)
  BY <1>1, <1>2 DEF MessagesInv, OneMessage, Same
<1> QED  BY <1>1, <1>2, <1>3, <1>4, <1>5, SettledStep

LEMMA RejectedStep == ASSUME ClientInv, NEW d \in Device, NEW f \in Flusher, Rejected(d, f) PROVE ClientInv'
<1>1. PICK q \in requests : q.device = d /\ q.flusher = f /\ q.waits /\ requests' = requests \ {q}
  BY DEF Rejected
<1>2. /\ MessagesInv /\ CopiesInv /\ Settled(d, f, 0) /\ Ended(d, f) /\ UNCHANGED <<accrual, replies>>
      /\ used' \in Used /\ used'.ticks = used.ticks
  BY SpendStep DEF ClientInv, CopiesInv, Rejected
<1>3. 0 \in Nat /\ 0 <= flush[d][f].copy.pending.delta
  BY <1>2 DEF CopiesInv, FlushOK, Sound, Bucket
<1>4. \A p \in requests' : ~ (p.waits /\ p.device = d /\ p.flusher = f)
  BY <1>1, <1>2 DEF MessagesInv, OneMessage, Same
<1>5. \A a \in replies' : ~ (a.device = d /\ a.flusher = f)
  BY <1>1, <1>2 DEF MessagesInv, OneMessage, Same
<1> QED  BY <1>1, <1>2, <1>3, <1>4, <1>5, SettledStep

LEMMA GiveUpStep ==
  ASSUME MessagesInv, NEW d \in Device, NEW fs \in SUBSET Flusher, GiveUp(d, fs),
         \A e \in Device, g \in Flusher : e /= d \/ g \notin fs => flush'[e][g] = flush[e][g]
  PROVE  MessagesInv'
<1> DEFINE mine == {q \in requests : q.device = d /\ q.flusher \in fs /\ q.waits}
<1>1. PICK arrives \in SUBSET mine :
        requests' = (requests \ mine) \cup {[q EXCEPT !.waits = FALSE] : q \in arrives}
  BY DEF GiveUp
<1>2. replies' = {a \in replies : ~ (a.device = d /\ a.flusher \in fs)}
  BY DEF GiveUp
<1>3. \A q \in requests : q \in Request /\ q.applied <= q.delta
  BY DEF MessagesInv, RequestsInv
<1>4. ASSUME NEW q \in requests'
      PROVE  \/ q \in requests \ mine
             \/ q \in Request /\ q.applied <= q.delta /\ ~ q.waits
  <2>1. CASE q \in requests \ mine
    BY <2>1
  <2>2. CASE q \in {[p EXCEPT !.waits = FALSE] : p \in arrives}
    <3>1. PICK p \in requests : q = [p EXCEPT !.waits = FALSE]
      BY <2>2
    <3>2. p \in Request /\ p.applied <= p.delta
      BY <1>3
    <3> QED  BY <3>1, <3>2 DEF Request
  <2> QED  BY <1>1, <2>1, <2>2
<1>5. RequestsInv'
  <2> SUFFICES ASSUME NEW q \in requests'
               PROVE  /\ q \in Request /\ q.applied <= q.delta
                      /\ q.waits => AsSent(q, flush'[q.device][q.flusher])
    BY DEF RequestsInv, AsSent
  <2>1. CASE q \in requests \ mine
    <3>1. q \in Request /\ q.applied <= q.delta /\ (q.waits => AsSent(q, flush[q.device][q.flusher]))
      BY <2>1 DEF MessagesInv, RequestsInv
    <3>2. q.device \in Device /\ q.flusher \in Flusher
      BY <3>1 DEF Request
    <3> QED  BY <2>1, <3>1, <3>2
  <2>2. CASE q \in Request /\ q.applied <= q.delta /\ ~ q.waits
    BY <2>2
  <2> QED  BY <1>4, <2>1, <2>2
<1>6. RepliesInv'
  <2> SUFFICES ASSUME NEW a \in replies' PROVE a \in Reply /\ AsAnswered(a, flush'[a.device][a.flusher])
    BY DEF RepliesInv, AsAnswered
  <2>1. a \in Reply /\ AsAnswered(a, flush[a.device][a.flusher]) /\ ~ (a.device = d /\ a.flusher \in fs)
    BY <1>2 DEF MessagesInv, RepliesInv
  <2>2. a.device \in Device /\ a.flusher \in Flusher
    BY <2>1 DEF Reply
  <2> QED  BY <2>1, <2>2
<1>7. \A q \in requests' : q.waits => q \in requests
  BY <1>4
<1> HIDE DEF mine
<1>8. OneMessage'
  BY <1>2, <1>7 DEF MessagesInv, OneMessage
<1> QED  BY <1>5, <1>6, <1>8 DEF MessagesInv

LEMMA FlushFailsStep == ASSUME ClientInv, NEW d \in Device, NEW f \in Flusher, FlushFails(d, f) PROVE ClientInv'
<1> DEFINE n == used.ticks
<1>1. /\ MessagesInv /\ CopiesInv /\ GiveUp(d, {f}) /\ UNCHANGED <<bucket, accrual>>
      /\ used' \in Used /\ used'.ticks = used.ticks /\ n \in Nat
  BY SpendStep DEF ClientInv, CopiesInv, FlushFails, Used
<1>2. flush' = [flush EXCEPT ![d][f] = Resting]
  BY DEF FlushFails, Ended, Resting
<1>3. Sound(bucket[d], n) /\ bucket' = [bucket EXCEPT ![d] = bucket[d]] /\ FlushOK(Resting, n)
  BY <1>1, RestingIsOK DEF CopiesInv
<1>4. CopiesInv'
  BY <1>1, <1>2, <1>3, FlushChanges
<1>5. \A e \in Device, g \in Flusher : e /= d \/ g \notin {f} => flush'[e][g] = flush[e][g]
  BY <1>1, <1>2 DEF CopiesInv
<1>6. MessagesInv'
  BY <1>1, <1>5, GiveUpStep
<1> QED  BY <1>4, <1>6 DEF ClientInv

LEMMA CloseStep == ASSUME ClientInv, NEW d \in Device, Close(d) PROVE ClientInv'
<1> DEFINE n == used.ticks  x == [busy |-> FALSE, copy |-> Empty]
<1>1. /\ MessagesInv /\ CopiesInv /\ GiveUp(d, Flusher) /\ bucket' = bucket
      /\ used' \in Used /\ used'.ticks = used.ticks /\ n \in Nat
  BY SpendStep DEF ClientInv, CopiesInv, Close, Used
<1>2. flush' = [flush EXCEPT ![d] = [f \in Flusher |-> Resting]] /\ accrual' = [accrual EXCEPT ![d] = x]
  BY DEF Close, Resting
<1>3. FlushOK(Resting, n) /\ AccrualOK(x, n) /\ Resting \in Flushing /\ x \in Accruing
  BY <1>1, RestingIsOK DEF FlushOK, AccrualOK
<1> HIDE DEF x
<1>4. /\ accrual' \in [Device -> Accruing] /\ flush' \in [Device -> [Flusher -> Flushing]]
      /\ \A e \in Device : accrual'[e] = IF e = d THEN x ELSE accrual[e]
      /\ \A e \in Device, g \in Flusher : flush'[e][g] = IF e = d THEN Resting ELSE flush[e][g]
  BY <1>1, <1>2, <1>3 DEF CopiesInv
<1>5. CopiesInv'
  BY <1>1, <1>3, <1>4 DEF CopiesInv
<1>6. MessagesInv'
  BY <1>1, <1>4, GiveUpStep
<1> QED  BY <1>5, <1>6 DEF ClientInv

\* The server takes a request on, or answers it by no more than it asks.
LEMMA HandledStep ==
  ASSUME ClientInv, UNCHANGED <<client, used>>, NEW q \in requests, NEW s \in 1 .. q.delta,
         Answer(q, s), requests' = requests \ {q}
  PROVE  ClientInv'
<1>1. CopiesInv /\ MessagesInv /\ UNCHANGED <<bucket, accrual, flush, used>>
  BY DEF ClientInv, client
<1>2. CopiesInv'
  BY <1>1 DEF CopiesInv
<1>3. q \in Request /\ (q.waits => AsSent(q, flush[q.device][q.flusher]))
  BY <1>1 DEF MessagesInv, RequestsInv
<1> DEFINE a == [device |-> q.device, flusher |-> q.flusher, settled |-> s]
<1>4. /\ a \in Reply /\ a.device = q.device /\ a.flusher = q.flusher /\ a.settled <= q.delta
  BY <1>3, Bounds DEF Request, Reply
<1>5. replies' = IF q.waits THEN replies \cup {a} ELSE replies
  BY DEF Answer
<1> HIDE DEF a
<1>6. RequestsInv'
  BY <1>1 DEF MessagesInv, RequestsInv
<1>7. RepliesInv'
  BY <1>1, <1>3, <1>4, <1>5 DEF MessagesInv, RepliesInv, AsAnswered, AsSent
<1>8. OneMessage'
  BY <1>1, <1>4, <1>5 DEF MessagesInv, OneMessage, Same
<1> QED  BY <1>1, <1>2, <1>6, <1>7, <1>8 DEF ClientInv, MessagesInv

LEMMA CheckStep == ASSUME ClientInv, NEW q \in requests, Check(q) PROVE ClientInv'
<1>1. CopiesInv /\ MessagesInv /\ UNCHANGED <<bucket, accrual, flush, used>>
  BY DEF ClientInv, client, Check
<1>2. q \in Request /\ q.applied <= q.delta /\ (q.waits => AsSent(q, flush[q.device][q.flusher]))
  BY <1>1 DEF MessagesInv, RequestsInv
<1>3. CASE Answer(q, q.delta) /\ requests' = requests \ {q}
  <2>1. q.delta \in 1 .. q.delta
    BY <1>2, Bounds DEF Request
  <2> QED  BY <1>3, <2>1, HandledStep DEF Check
<1>4. CASE \E applied \in Clamped(q.delta) : /\ requests' = (requests \ {q}) \cup {[q EXCEPT !.applied = applied]}
                                             /\ UNCHANGED replies
  <2>1. PICK applied \in 1 .. q.delta : /\ requests' = (requests \ {q}) \cup {[q EXCEPT !.applied = applied]}
                                        /\ UNCHANGED replies
    BY <1>4 DEF Clamped
  <2> DEFINE p == [q EXCEPT !.applied = applied]
  <2>2. applied \in 0 .. MaxTicks /\ applied <= q.delta
    BY <1>2, Bounds DEF Request
  <2>3. /\ p \in Request /\ p.applied <= p.delta /\ p.device = q.device /\ p.flusher = q.flusher
        /\ p.delta = q.delta /\ p.waits = q.waits
    BY <1>2, <2>2 DEF Request
  <2>4. requests' = (requests \ {q}) \cup {p}
    BY <2>1
  <2> HIDE DEF p
  <2>5. CopiesInv' /\ RepliesInv'
    BY <1>1, <2>1 DEF CopiesInv, MessagesInv, RepliesInv
  <2>6. RequestsInv'
    BY <1>1, <1>2, <2>3, <2>4 DEF MessagesInv, RequestsInv, AsSent
  <2>7. OneMessage'
    BY <1>1, <2>1, <2>3, <2>4 DEF MessagesInv, OneMessage, Same
  <2> QED  BY <2>5, <2>6, <2>7 DEF ClientInv, MessagesInv
<1> QED  BY <1>3, <1>4 DEF Check

LEMMA BankStep == ASSUME ClientInv, NEW q \in requests, Bank(q) PROVE ClientInv'
<1>1. q \in Request /\ q.applied <= q.delta /\ q.applied > 0
  BY DEF ClientInv, MessagesInv, RequestsInv, Bank
<1>2. q.applied \in 1 .. q.delta
  BY <1>1, Bounds DEF Request
<1>3. UNCHANGED <<client, used>> /\ Answer(q, q.applied) /\ requests' = requests \ {q}
  BY DEF Bank
<1> QED  BY <1>2, <1>3, HandledStep

LEMMA StepClientInv == ClientInv /\ [Next]_vars => ClientInv'
<1> SUFFICES ASSUME ClientInv, [Next]_vars PROVE ClientInv'
  OBVIOUS
<1>1. CASE UNCHANGED <<bucket, accrual, flush, requests, replies, used>>
  <2> QED  BY <1>1 DEF ClientInv, CopiesInv, MessagesInv, RequestsInv, RepliesInv, OneMessage
<1>2. ASSUME NEW d \in Device, Open(d) \/ SettingsRead(d)
      PROVE  UNCHANGED <<bucket, accrual, flush, requests, replies, used>>
  BY <1>2 DEF Open, SettingsRead
<1>3. ASSUME NEW d \in Device, NEW f \in Flusher, Leave(d, f) \/ List(d, f)
      PROVE  ClientInv'
  <2>1. UNCHANGED <<bucket, accrual, requests, replies, used>>
    BY <1>3 DEF Leave, List, server
  <2>2. CASE Unsynced(bucket[d]) /\ Listed(d, f)
    BY <2>1, <2>2, ListedStep
  <2>3. CASE UNCHANGED flush
    BY <1>1, <2>1, <2>3
  <2> QED  BY <1>3, <2>2, <2>3 DEF Leave, List
<1> QED
  BY <1>1, <1>2, <1>3, TickStep, AccrueStep, AttemptStep, AnsweredStep,
     RejectedStep, FlushFailsStep, CloseStep, CheckStep, BankStep
  DEF Next, vars, FlushStep, Pause, client

-----------------------------------------------------------------------------
(***************************************************************************)
(* The row: its slot holds the flush that was banked last, and the upsert  *)
(* asks it again.                                                          *)
(***************************************************************************)
ServerInv ==
  /\ day \in [seconds : Nat, last : 0 .. MaxFlushes]
  /\ banked \in Seq(1 .. MaxFlushes) /\ paused \in BOOLEAN
  /\ day.last = IF banked = <<>> THEN NoFlush ELSE banked[Len(banked)]
  /\ RetryIsBankedOnce

LEMMA InitServerInv == Init => ServerInv
<1> SUFFICES ASSUME Init PROVE ServerInv
  OBVIOUS
<1>1. day = [seconds |-> 0, last |-> NoFlush] /\ banked = <<>> /\ paused = FALSE
  BY DEF Init
<1>2. day \in [seconds : Nat, last : 0 .. MaxFlushes] /\ day.last = NoFlush
  BY <1>1, Bounds DEF NoFlush
<1>3. banked \in Seq(1 .. MaxFlushes) /\ RetryIsBankedOnce
  <2>1. Len(banked) = 0 /\ banked \in Seq(1 .. MaxFlushes)
    BY <1>1, EmptySeq
  <2> QED  BY <2>1 DEF RetryIsBankedOnce
<1> QED  BY <1>1, <1>2, <1>3 DEF ServerInv

LEMMA StepServerInv == ClientInv /\ ServerInv /\ [Next]_vars => ServerInv'
<1> SUFFICES ASSUME ClientInv, ServerInv, [Next]_vars PROVE ServerInv'
  OBVIOUS
<1>1. CASE UNCHANGED <<day, banked>> /\ paused' \in BOOLEAN
  BY <1>1 DEF ServerInv, RetryIsBankedOnce
<1>2. ASSUME NEW q \in requests, Bank(q), ~ UNCHANGED <<day, banked>> PROVE ServerInv'
  <2>1. /\ day.last /= q.id /\ day' = [seconds |-> day.seconds + q.applied, last |-> q.id]
        /\ banked' = Append(banked, q.id) /\ paused' = paused
    BY <1>2 DEF Bank
  <2>2. q.id \in 1 .. MaxFlushes /\ q.applied \in Nat
    BY <1>2 DEF ClientInv, MessagesInv, RequestsInv, Request
  <2>3. /\ banked \in Seq(1 .. MaxFlushes) /\ Len(banked) \in Nat /\ day.seconds \in Nat
        /\ paused \in BOOLEAN
    BY LenProperties DEF ServerInv
  <2>4. /\ banked' \in Seq(1 .. MaxFlushes) /\ Len(banked') = Len(banked) + 1
        /\ \A i \in 1 .. Len(banked) : banked'[i] = banked[i]
        /\ banked'[Len(banked) + 1] = q.id
    BY <2>1, <2>2, <2>3, AppendProperties
  <2>5. day' \in [seconds : Nat, last : 0 .. MaxFlushes] /\ day'.last = q.id
    BY <2>1, <2>2, <2>3, Bounds
  <2>6. banked' /= <<>>
    BY <2>3, <2>4
  <2>7. RetryIsBankedOnce'
    <3> SUFFICES ASSUME NEW i \in 2 .. Len(banked') PROVE banked'[i] /= banked'[i - 1]
      BY DEF RetryIsBankedOnce
    <3>1. CASE i \in 2 .. Len(banked)
      <4>1. i - 1 \in 1 .. Len(banked) /\ i \in 1 .. Len(banked)
        BY <2>3, <3>1
      <4> QED  BY <2>4, <3>1, <4>1 DEF ServerInv, RetryIsBankedOnce
    <3>2. CASE i = Len(banked) + 1
      <4>1. Len(banked) \in 1 .. Len(banked) /\ i - 1 = Len(banked) /\ Len(banked) > 0
        BY <2>3, <2>4, <3>2
      <4>2. banked /= <<>>
        BY <4>1
      <4> QED  BY <2>1, <2>4, <3>2, <4>1, <4>2 DEF ServerInv
    <3> QED  BY <2>3, <2>4, <3>1, <3>2
  <2> QED  BY <2>1, <2>3, <2>4, <2>5, <2>6, <2>7 DEF ServerInv
<1>3. UNCHANGED server \/ Pause \/ \E q \in requests : Bank(q)
  <2>1. ASSUME NEW d \in Device, \/ Open(d) \/ SettingsRead(d)
                                  \/ Tick(d) \/ Accrue(d) \/ Close(d)
        PROVE  UNCHANGED server
    BY <2>1 DEF Open, SettingsRead, Tick, Accrue, Close, server
  <2>2. ASSUME NEW d \in Device, NEW f \in Flusher, \/ Leave(d, f) \/ FlushStep(d, f)
                                                      \/ FlushFails(d, f) \/ Rejected(d, f)
        PROVE  UNCHANGED server
    BY <2>2 DEF Leave, FlushStep, List, Attempt, Answered, FlushFails, Rejected, server
  <2>3. ASSUME NEW q \in requests, Check(q) PROVE UNCHANGED server
    BY <2>3 DEF Check
  <2>4. CASE UNCHANGED vars
    BY <2>4 DEF vars, server
  <2> QED  BY <2>1, <2>2, <2>3, <2>4 DEF Next
<1>4. paused' \in BOOLEAN
  <2>1. paused' = paused \/ Pause
    BY <1>3 DEF server, Bank
  <2>2. CASE Pause
    <3>1. paused' = ~ paused
      BY <2>2 DEF Pause
    <3> QED  BY <3>1
  <2> QED  BY <2>1, <2>2 DEF ServerInv
<1>5. CASE UNCHANGED server \/ Pause
  BY <1>1, <1>4, <1>5 DEF server, Pause
<1> QED  BY <1>1, <1>2, <1>3, <1>4, <1>5

ReaderInv == reader \in [Device -> Reading]

LEMMA StepReaderInv == ReaderInv /\ [Next]_vars => ReaderInv'
<1> USE DEF ReaderInv
<1> SUFFICES ASSUME ReaderInv, [Next]_vars PROVE ReaderInv'
  OBVIOUS
<1>1. ASSUME NEW d \in Device, NEW r \in Reading, reader' = [reader EXCEPT ![d] = r]
      PROVE  reader' \in [Device -> Reading]
  BY <1>1
<1>2. ASSUME NEW d \in Device, Open(d) \/ SettingsRead(d) \/ Close(d)
      PROVE  \E r \in Reading : reader' = [reader EXCEPT ![d] = r]
  BY <1>2 DEF Open, SettingsRead, Close, Reading
<1>3. ASSUME NEW d \in Device, NEW f \in Flusher, Leave(d, f)
      PROVE  \E r \in Reading : reader' = [reader EXCEPT ![d] = r]
  BY <1>3 DEF Leave, Reading
<1>4. ASSUME NEW d \in Device, Tick(d) \/ Accrue(d) PROVE reader' = reader
  BY <1>4 DEF Tick, Accrue
<1>5. ASSUME NEW d \in Device, NEW f \in Flusher, FlushStep(d, f) \/ FlushFails(d, f) \/ Rejected(d, f)
      PROVE  reader' = reader
  BY <1>5 DEF FlushStep, List, Attempt, Answered, FlushFails, Rejected
<1>6. ASSUME NEW q \in requests, Check(q) \/ Bank(q) PROVE reader' = reader
  BY <1>6 DEF Check, Bank, client
<1>7. ASSUME Pause \/ UNCHANGED vars PROVE reader' = reader
  BY <1>7 DEF Pause, client, vars
<1> QED  BY <1>1, <1>2, <1>3, <1>4, <1>5, <1>6, <1>7 DEF Next

\* Types of buckets, copies, messages and the row.
THEOREM TypeCorrect == Spec => []TypeOK
<1>1. ClientInv /\ ServerInv /\ ReaderInv => TypeOK
  <2> SUFFICES ASSUME ClientInv, ServerInv, ReaderInv PROVE TypeOK
    OBVIOUS
  <2>1. requests \subseteq Request /\ replies \subseteq Reply
    BY DEF ClientInv, MessagesInv, RequestsInv, RepliesInv
  <2>2. CopiesInv
    BY DEF ClientInv
  <2>3. /\ accrual \in [Device -> [busy : BOOLEAN, copy : Bucket]]
        /\ flush \in [Device -> [Flusher -> [pc : {"idle", "listed", "sent"}, copy : Bucket]]]
    BY <2>2 DEF CopiesInv, Accruing, Flushing
  <2>4. /\ bucket \in [Device -> Bucket]
        /\ used \in [ticks : 0 .. MaxTicks, flushes : 0 .. MaxFlushes, faults : 0 .. MaxFaults]
    BY <2>2 DEF CopiesInv, Used
  <2>5. /\ requests \subseteq [device : Device, flusher : Flusher, id : 1 .. MaxFlushes,
                                delta : 1 .. MaxTicks, applied : 0 .. MaxTicks, waits : BOOLEAN]
        /\ replies \subseteq [device : Device, flusher : Flusher, settled : 1 .. MaxTicks]
    BY <2>1 DEF Request, Reply
  <2> HIDE DEF Bucket
  <2> QED  BY <2>3, <2>4, <2>5 DEF TypeOK, ServerInv, ReaderInv, Reading
<1>2. Init => ReaderInv
  BY DEF Init, ReaderInv, Reading
<1> QED  BY <1>1, <1>2, StepReaderInv, InitClientInv, StepClientInv, InitServerInv, StepServerInv, PTL DEF Spec

\* However accruals and flushes overwrite each other's copies, no more of a stored bucket
\* is synced than was read, and its pending attempt fits in between.
THEOREM BucketIsCoherentAlways == Spec => []BucketIsCoherent
<1>1. ClientInv => BucketIsCoherent
  BY DEF ClientInv, CopiesInv, Sound, BucketIsCoherent
<1> QED  BY <1>1, InitClientInv, StepClientInv, PTL DEF Spec

\* Types and coherence, as the run checks them.
THEOREM BucketInvAlways == Spec => []BucketInv
BY TypeCorrect, BucketIsCoherentAlways, PTL DEF BucketInv

\* Between two bankings of one flush lies that of another, however late the original of a
\* retry arrives.
THEOREM RetryIsBankedOnceAlways == Spec => []RetryIsBankedOnce
<1>1. ServerInv => RetryIsBankedOnce
  BY DEF ServerInv
<1> QED  BY <1>1, InitClientInv, StepClientInv, InitServerInv, StepServerInv, PTL DEF Spec
=============================================================================
