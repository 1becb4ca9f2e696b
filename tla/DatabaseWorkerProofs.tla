------------------------ MODULE DatabaseWorkerProofs ------------------------
(***************************************************************************)
(* Proofs about DatabaseWorker, for any size of the queue, any number of   *)
(* readings and mishaps, and any of the faults.  One worker touches the    *)
(* spill file at a time: either no worker is ever abandoned, or there is   *)
(* one worker object, which has to end before a session starts another.    *)
(***************************************************************************)
EXTENDS DatabaseWorker, SequenceTheorems, TLAPS

Alone == "hang" \notin Faults \/ \A v, w \in Workers : v = w

Increasing(s) == \A i, j \in DOMAIN s : i < j => s[i] < s[j]
Before(s, t) == \A x \in ToSet(s), y \in ToSet(t) : x < y
UpTo(s, n) == \A x \in ToSet(s) : x <= n
StoredUpTo(s, n) == \A x \in ToSet(s) : copies[x] <= n

Active(w) == ~At(w, "off")
Loaded(w) == ~At(w, "off") /\ ~At(w, "loading")
Flushing(w) == At(w, "flushing") \/ At(w, "written")
Ahead(w) == IF Flushing(w) THEN batch[w] ELSE queue[w]

\* A worker that does not run is empty, and its batch is that of a flush.
OffInv(w) ==
  /\ ~Loaded(w) => spilled[w] = 0
  /\ At(w, "off") => queue[w] = <<>>
  /\ At(w, "off") \/ At(w, "saving") => ~running[w]
  /\ ~Flushing(w) => batch[w] = <<>>

\* What a worker has ahead of it covers the spill file.
SpillInv(w) ==
  Loaded(w) => /\ ToSet(file) \subseteq ToSet(Ahead(w)) \cup Written \cup gone
               /\ spilled[w] <= Len(Ahead(w))

WrittenInv(w) == At(w, "written") => ToSet(batch[w]) \subseteq Written \cup gone

\* The spill file, the batch and the queue follow each other in time.
OrderInv(w) ==
  /\ Increasing(batch[w]) /\ Increasing(queue[w]) /\ Before(batch[w], queue[w])
  /\ UpTo(batch[w], accepted) /\ UpTo(queue[w], accepted)
  /\ At(w, "loading") \/ Flushing(w) => Before(file, queue[w])

\* What waits to be written was written at most once for each mishap, and
\* a spill file that is not accounted for (spilled = 0) is not in memory.
CopyInv(w) ==
  /\ StoredUpTo(queue[w], mishaps)
  /\ ~At(w, "written") => StoredUpTo(batch[w], mishaps)
  /\ Loaded(w) /\ spilled[w] = 0 => ToSet(file) \cap Held(w) = {}

WorkerInv(w) ==
  OffInv(w) /\ SpillInv(w) /\ WrittenInv(w) /\ OrderInv(w) /\ CopyInv(w)

FileInv ==
  /\ Increasing(file) /\ UpTo(file, accepted)
  /\ (\A w \in Workers : At(w, "written") => spilled[w] = 0) => StoredUpTo(file, mishaps)

NewInv == \A r \in Records : r > accepted => copies[r] = 0

AloneInv ==
  /\ Alone
  /\ \A v, w \in Workers : Active(v) /\ Active(w) => v = w
  /\ "hang" \notin Faults => \A w \in Workers : Active(w) => w = current

IInv ==
  /\ TypeOK /\ AloneInv /\ Accounted /\ StoredOnce /\ FileInv /\ NewInv
  /\ \A w \in Workers : WorkerInv(w)
-----------------------------------------------------------------------------
(* Sequences of readings. *)

LEMMA RecordsAreNats == Records \subseteq Nat /\ MaxRecords \in Nat
BY StoreAssumption DEF Records, StoreAssumption

LEMMA ToSetEmpty == ToSet(<<>>) = {}
BY DEF ToSet

LEMMA ToSetIn ==
  ASSUME NEW s \in Seq(Records)
  PROVE  ToSet(s) \subseteq Records
BY DEF ToSet

LEMMA ConcatFacts ==
  ASSUME NEW s \in Seq(Records), NEW t \in Seq(Records)
  PROVE  s \o t \in Seq(Records) /\ Len(s) <= Len(s \o t)
OBVIOUS

LEMMA ToSetConcat ==
  ASSUME NEW s \in Seq(Records), NEW t \in Seq(Records)
  PROVE  ToSet(s \o t) = ToSet(s) \cup ToSet(t)
<1>1. \A x \in ToSet(s \o t) : x \in ToSet(s) \cup ToSet(t)
  BY DEF ToSet
<1>2. \A x \in ToSet(s) : x \in ToSet(s \o t)
  BY DEF ToSet
<1>3. \A x \in ToSet(t) : x \in ToSet(s \o t)
  <2> SUFFICES ASSUME NEW i \in DOMAIN t PROVE t[i] \in ToSet(s \o t)
    BY DEF ToSet
  <2>1. Len(s) + i \in DOMAIN (s \o t) /\ (s \o t)[Len(s) + i] = t[i]
    OBVIOUS
  <2> QED
    BY <2>1 DEF ToSet
<1> QED
  BY <1>1, <1>2, <1>3

LEMMA ToSetTail ==
  ASSUME NEW s \in Seq(Records), s # <<>>
  PROVE  ToSet(s) = {Head(s)} \cup ToSet(Tail(s))
<1>1. Len(s) \in Nat /\ Len(s) > 0 /\ Head(s) = s[1] /\ Tail(s) \in Seq(Records)
  OBVIOUS
<1>2. \A i \in DOMAIN s : s[i] \in {Head(s)} \cup ToSet(Tail(s))
  <2> SUFFICES ASSUME NEW i \in DOMAIN s, i # 1 PROVE s[i] \in ToSet(Tail(s))
    BY <1>1
  <2>1. i - 1 \in DOMAIN Tail(s) /\ Tail(s)[i - 1] = s[i]
    BY <1>1
  <2> QED
    BY <2>1 DEF ToSet
<1>3. \A i \in DOMAIN Tail(s) : Tail(s)[i] \in ToSet(s)
  BY <1>1 DEF ToSet
<1>4. Head(s) \in ToSet(s)
  BY <1>1 DEF ToSet
<1> QED
  BY <1>2, <1>3, <1>4 DEF ToSet

LEMMA ToSetAppend ==
  ASSUME NEW s \in Seq(Records), NEW r \in Records
  PROVE  ToSet(Append(s, r)) = ToSet(s) \cup {r}
<1>1. Append(s, r) \in Seq(Records) /\ Len(Append(s, r)) = Len(s) + 1 /\ Len(s) \in Nat
      /\ Append(s, r)[Len(s) + 1] = r
      /\ \A i \in 1..Len(s) : Append(s, r)[i] = s[i]
  OBVIOUS
<1>2. r \in ToSet(Append(s, r)) /\ \A i \in DOMAIN s : s[i] \in ToSet(Append(s, r))
  <2>1. Len(s) + 1 \in DOMAIN Append(s, r) /\ \A i \in DOMAIN s : i \in DOMAIN Append(s, r)
    BY <1>1
  <2> QED
    BY <1>1, <2>1 DEF ToSet
<1>3. \A i \in DOMAIN Append(s, r) : Append(s, r)[i] \in ToSet(s) \cup {r}
  <2>1. \A i \in DOMAIN Append(s, r) : i = Len(s) + 1 \/ i \in 1..Len(s)
    BY <1>1
  <2> QED
    BY <1>1, <2>1 DEF ToSet
<1> QED
  BY <1>2, <1>3 DEF ToSet

LEMMA IncreasingEmpty == Increasing(<<>>)
BY DEF Increasing

LEMMA IncreasingConcat ==
  ASSUME NEW s \in Seq(Records), NEW t \in Seq(Records),
         Increasing(s), Increasing(t), Before(s, t)
  PROVE  Increasing(s \o t)
<1> SUFFICES ASSUME NEW i \in DOMAIN (s \o t), NEW j \in DOMAIN (s \o t), i < j
             PROVE  (s \o t)[i] < (s \o t)[j]
  BY DEF Increasing
<1>1. Len(s) \in Nat /\ Len(t) \in Nat /\ i \in 1..(Len(s) + Len(t)) /\ j \in 1..(Len(s) + Len(t))
  OBVIOUS
<1>2. CASE j <= Len(s)
  <2>1. i \in DOMAIN s /\ j \in DOMAIN s /\ (s \o t)[i] = s[i] /\ (s \o t)[j] = s[j]
    BY <1>1, <1>2
  <2> QED
    BY <2>1 DEF Increasing
<1>3. CASE i > Len(s)
  <2>1. /\ i - Len(s) \in DOMAIN t /\ j - Len(s) \in DOMAIN t /\ i - Len(s) < j - Len(s)
        /\ (s \o t)[i] = t[i - Len(s)] /\ (s \o t)[j] = t[j - Len(s)]
    BY <1>1, <1>3
  <2> QED
    BY <2>1 DEF Increasing
<1>4. CASE i <= Len(s) /\ j > Len(s)
  <2>1. /\ i \in DOMAIN s /\ j - Len(s) \in DOMAIN t
        /\ (s \o t)[i] = s[i] /\ (s \o t)[j] = t[j - Len(s)]
    BY <1>1, <1>4
  <2> QED
    BY <2>1 DEF Before, ToSet
<1> QED
  BY <1>1, <1>2, <1>3, <1>4

LEMMA IncreasingTail ==
  ASSUME NEW s \in Seq(Records), s # <<>>, Increasing(s)
  PROVE  Increasing(Tail(s))
<1>1. Len(s) \in Nat /\ Len(Tail(s)) = Len(s) - 1 /\ DOMAIN Tail(s) = 1..(Len(s) - 1)
      /\ \A i \in DOMAIN Tail(s) : i + 1 \in DOMAIN s /\ Tail(s)[i] = s[i + 1]
  OBVIOUS
<1> QED
  BY <1>1 DEF Increasing

LEMMA IncreasingAppend ==
  ASSUME NEW s \in Seq(Records), NEW r \in Records, Increasing(s), \A x \in ToSet(s) : x < r
  PROVE  Increasing(Append(s, r))
<1>1. Append(s, r) \in Seq(Records) /\ DOMAIN Append(s, r) = 1..(Len(s) + 1) /\ Len(s) \in Nat
      /\ Append(s, r)[Len(s) + 1] = r
      /\ \A i \in 1..Len(s) : i \in DOMAIN s /\ Append(s, r)[i] = s[i]
  OBVIOUS
<1> SUFFICES ASSUME NEW i \in 1..(Len(s) + 1), NEW j \in 1..(Len(s) + 1), i < j
             PROVE  Append(s, r)[i] < Append(s, r)[j]
  BY <1>1 DEF Increasing
<1>2. i \in 1..Len(s) /\ Append(s, r)[i] = s[i] /\ i \in DOMAIN s
  BY <1>1
<1>3. CASE j = Len(s) + 1
  BY <1>1, <1>2, <1>3 DEF ToSet
<1>4. CASE j \in 1..Len(s)
  BY <1>1, <1>2, <1>4 DEF Increasing
<1> QED
  BY <1>1, <1>3, <1>4
-----------------------------------------------------------------------------
(* One worker acts, and the others are off. *)

OthersOff(w) == \A v \in Workers \ {w} : ~Active(v)
SameElse(w) ==
  \A v \in Workers \ {w} :
    /\ pc'[v] = pc[v] /\ running'[v] = running[v] /\ spilled'[v] = spilled[v]
    /\ queue'[v] = queue[v] /\ batch'[v] = batch[v]
Covers(w) == 1..accepted \subseteq Held(w) \cup ToSet(file) \cup Written \cup gone

LEMMA ActiveAlone ==
  ASSUME IInv, NEW w \in Workers, Active(w)
  PROVE  OthersOff(w) /\ ("hang" \notin Faults => w = current)
BY DEF IInv, AloneInv, OthersOff

LEMMA OthersEmpty ==
  ASSUME IInv, NEW w \in Workers, OthersOff(w), NEW v \in Workers \ {w}
  PROVE  At(v, "off") /\ queue[v] = <<>> /\ batch[v] = <<>> /\ spilled[v] = 0 /\ ~running[v]
BY DEF IInv, WorkerInv, OffInv, OthersOff, Active, Loaded, Flushing, At

LEMMA CoversItself ==
  ASSUME IInv, NEW w \in Workers, OthersOff(w)
  PROVE  Memory = Held(w) /\ Covers(w)
<1>1. \A v \in Workers \ {w} : Held(v) = {}
  BY OthersEmpty, ToSetEmpty DEF Held
<1>2. Memory = Held(w)
  BY <1>1 DEF Memory
<1> QED
  BY <1>2 DEF Covers, IInv, Accounted

\* What one worker does is checked on its own entries.
LEMMA WorkerStep ==
  ASSUME IInv, NEW w \in Workers, OthersOff(w), SameElse(w),
         "hang" \notin Faults /\ Active(w)' => w = current',
         TypeOK', WorkerInv(w)', Covers(w)', StoredOnce', FileInv', NewInv'
  PROVE  IInv'
<1>1. \A v \in Workers \ {w} :
        pc'[v] = "off" /\ queue'[v] = <<>> /\ batch'[v] = <<>> /\ spilled'[v] = 0 /\ ~running'[v]
  BY OthersEmpty DEF SameElse, At
<1>2. \A v \in Workers \ {w} : WorkerInv(v)'
  <2> SUFFICES ASSUME NEW v \in Workers \ {w} PROVE WorkerInv(v)'
    OBVIOUS
  <2>1. /\ At(v, "off")' /\ ~At(v, "loading")' /\ ~At(v, "flushing")' /\ ~At(v, "written")'
        /\ ToSet(queue'[v]) = {} /\ ToSet(batch'[v]) = {}
    BY <1>1, ToSetEmpty DEF At
  <2>2. Increasing(<<>>)
    BY IncreasingEmpty
  <2> QED
    BY <1>1, <2>1, <2>2
       DEF WorkerInv, OffInv, SpillInv, WrittenInv, OrderInv, CopyInv, Loaded, Flushing,
           UpTo, StoredUpTo, Before
<1>3. Accounted'
  <2>1. Held(w)' \subseteq Memory'
    BY DEF Memory
  <2> QED
    BY <2>1 DEF Accounted, Covers
<1>4. AloneInv'
  <2>1. \A v \in Workers : Active(v)' => v = w
    BY <1>1 DEF Active, At
  <2>2. Alone'
    BY DEF IInv, AloneInv, Alone
  <2> QED
    BY <2>1, <2>2 DEF AloneInv
<1> QED
  BY <1>2, <1>3, <1>4 DEF IInv
LEMMA WorkerFacts ==
  ASSUME IInv, NEW w \in Workers
  PROVE  /\ queue[w] \in Seq(Records) /\ batch[w] \in Seq(Records) /\ file \in Seq(Records)
         /\ spilled[w] \in Nat /\ running[w] \in BOOLEAN /\ WorkerInv(w)
         /\ mishaps \in Nat /\ accepted \in 0..MaxRecords
         /\ \A r \in Records : copies[r] \in Nat /\ r \in Nat
         /\ ToSet(queue[w]) \subseteq Records /\ ToSet(batch[w]) \subseteq Records
         /\ ToSet(file) \subseteq Records
<1>1. /\ queue[w] \in Seq(Records) /\ batch[w] \in Seq(Records) /\ file \in Seq(Records)
      /\ spilled[w] \in Nat /\ running[w] \in BOOLEAN /\ WorkerInv(w)
      /\ mishaps \in Nat /\ accepted \in 0..MaxRecords
      /\ \A r \in Records : copies[r] \in Nat /\ r \in Nat
  BY RecordsAreNats, StoreAssumption DEF IInv, TypeOK, StoreAssumption
<1> QED
  BY <1>1, ToSetIn

LEMMA InitInv == Alone /\ Init => IInv
<1> SUFFICES ASSUME Alone, Init PROVE IInv
  OBVIOUS
<1>1. \A w \in Workers : At(w, "off") /\ queue[w] = <<>> /\ batch[w] = <<>> /\ spilled[w] = 0 /\ ~running[w]
  BY DEF Init, At
<1>2. \A w \in Workers : WorkerInv(w)
  BY <1>1, IncreasingEmpty, ToSetEmpty
     DEF WorkerInv, OffInv, SpillInv, WrittenInv, OrderInv, CopyInv, Loaded, At, Before, Flushing,
         UpTo, StoredUpTo
<1>3. TypeOK
  <2>1. <<>> \in Seq(Records) /\ 0 \in 0..MaxCopies /\ 0 \in 0..MaxRecords /\ 0 \in 0..MaxMishaps
    BY StoreAssumption DEF StoreAssumption
  <2> QED
    BY <2>1 DEF Init, TypeOK, Labels
<1>4. AloneInv
  BY <1>1 DEF AloneInv, Active
<1>5. Accounted /\ StoredOnce /\ NewInv
  BY StoreAssumption DEF Init, Accounted, StoredOnce, NewInv, StoreAssumption
<1>6. FileInv
  BY IncreasingEmpty, ToSetEmpty DEF Init, FileInv, UpTo, StoredUpTo
<1> QED
  BY <1>2, <1>3, <1>4, <1>5, <1>6 DEF IInv

-----------------------------------------------------------------------------
(* The main thread. *)

LEMMA QuietStep ==
  ASSUME IInv, UNCHANGED <<pc, running, queue, batch, spilled, storeVars, history>>,
         current' \in Workers \cup {NoWorker}, asked' \subseteq Workers, quit' \subseteq Workers,
         "hang" \notin Faults => \A w \in Workers : Active(w) => w = current'
  PROVE  IInv'
<1>1. UNCHANGED <<pc, running, queue, batch, spilled, file, copies, accepted, gone, mishaps>>
  BY DEF storeVars, history
<1>2. TypeOK'
  BY <1>1 DEF IInv, TypeOK
<1>3. AloneInv'
  BY <1>1 DEF IInv, AloneInv, Alone, Active, At
<1>4. Accounted' /\ StoredOnce' /\ FileInv' /\ NewInv'
  BY <1>1 DEF IInv, Accounted, StoredOnce, FileInv, NewInv, Memory, Held, Written, UpTo, StoredUpTo, At
<1>5. \A w \in Workers : WorkerInv(w)'
  BY <1>1 DEF IInv, WorkerInv, OffInv, SpillInv, WrittenInv, OrderInv, CopyInv, Loaded, At, Before,
              Flushing, UpTo, StoredUpTo, Ahead, Held, Written
<1> QED
  BY <1>2, <1>3, <1>4, <1>5 DEF IInv

LEMMA MainInv ==
  ASSUME IInv, stopPollingWithIntent \/ finalizeStop \/ forceFinalize
  PROVE  IInv'
<1>0. current \in Workers \cup {NoWorker} /\ asked \subseteq Workers /\ quit \subseteq Workers
      /\ ("hang" \notin Faults => \A w \in Workers : Active(w) => w = current)
  BY DEF IInv, TypeOK, AloneInv
<1>1. CASE stopPollingWithIntent
  BY <1>0, <1>1, QuietStep DEF stopPollingWithIntent
<1>2. CASE finalizeStop
  <2>1. UNCHANGED <<asked, quit>> /\ UNCHANGED <<pc, running, queue, batch, spilled, storeVars, history>>
    BY <1>2 DEF finalizeStop, workerVars
  <2>2. "hang" \notin Faults => \A w \in Workers : ~Active(w)
    BY <1>0, <1>2 DEF finalizeStop, Active
  <2> QED
    BY <1>0, <1>2, <2>1, <2>2, QuietStep DEF finalizeStop
<1>3. CASE forceFinalize
  BY <1>0, <1>3, QuietStep DEF forceFinalize
<1> QED
  BY <1>1, <1>2, <1>3

LEMMA StartInv ==
  ASSUME IInv, NEW w \in Workers, startWorkerThreads(w)
  PROVE  IInv'
<1>1. OthersOff(w) /\ At(w, "off")
  BY StoreAssumption
     DEF IInv, AloneInv, Alone, OthersOff, startWorkerThreads, Step, StoreAssumption
<1>2. /\ pc' = [pc EXCEPT ![w] = "loading"] /\ running' = [running EXCEPT ![w] = TRUE]
      /\ current' = w
      /\ UNCHANGED <<asked, quit, queue, batch, spilled, file, copies, accepted, gone, mishaps>>
  BY DEF startWorkerThreads, Step, storeVars, history
<1>3. TypeOK'
  BY <1>2 DEF IInv, TypeOK, Labels
<1>4. SameElse(w) /\ pc'[w] = "loading"
  BY <1>2 DEF IInv, TypeOK, SameElse
<1>5. WorkerInv(w)'
  <2>1. queue[w] = <<>> /\ batch[w] = <<>> /\ spilled[w] = 0
    BY <1>1 DEF IInv, WorkerInv, OffInv, Loaded, At, Flushing
  <2> QED
    BY <1>2, <1>4, <2>1, IncreasingEmpty, ToSetEmpty
       DEF WorkerInv, OffInv, SpillInv, WrittenInv, OrderInv, CopyInv, Loaded, At, Before, Flushing,
           UpTo, StoredUpTo
<1>6. Covers(w)'
  BY <1>1, <1>2, CoversItself DEF Covers, Held, Written
<1>7. StoredOnce' /\ NewInv'
  BY <1>2 DEF IInv, StoredOnce, NewInv
<1>8. FileInv'
  BY <1>1, <1>2, OthersEmpty DEF IInv, FileInv, UpTo, StoredUpTo, At
<1> QED
  BY <1>1, <1>2, <1>3, <1>4, <1>5, <1>6, <1>7, <1>8, WorkerStep

\* A queue that takes a reading keeps the rest, or drops its oldest reading.
LEMMA EnqueueKeeps ==
  ASSUME IInv, enqueue
  PROVE  \E rest \in Seq(Records), drop \in SUBSET Records :
           /\ queue' = [queue EXCEPT ![current] = Append(rest, accepted + 1)]
           /\ gone' = gone \cup drop
           /\ ToSet(queue[current]) \subseteq drop \cup ToSet(rest)
           /\ ToSet(rest) \subseteq ToSet(queue[current])
           /\ Len(queue[current]) <= Len(rest) + 1
           /\ Increasing(queue[current]) => Increasing(rest)
<1> DEFINE q == queue[current]
           full == Len(q) >= MaxQueue
           rest == IF full THEN Tail(q) ELSE q
           drop == IF full THEN {Head(q)} ELSE {}
<1>1. q \in Seq(Records)
  BY StoreAssumption DEF IInv, TypeOK, enqueue, StoreAssumption
<1>2. queue' = [queue EXCEPT ![current] = Append(rest, accepted + 1)] /\ gone' = gone \cup drop
  BY DEF enqueue, GiveUp
<1>3. CASE full
  <2>1. q # <<>>
    BY <1>3, StoreAssumption DEF StoreAssumption
  <2>2. Tail(q) \in Seq(Records) /\ Head(q) \in Records /\ Len(q) <= Len(Tail(q)) + 1
    BY <1>1, <2>1
  <2>3. ToSet(q) = {Head(q)} \cup ToSet(Tail(q)) /\ (Increasing(q) => Increasing(Tail(q)))
    BY <1>1, <2>1, ToSetTail, IncreasingTail
  <2>4. rest = Tail(q) /\ drop = {Head(q)}
    BY <1>3
  <2>5. /\ rest \in Seq(Records) /\ drop \in SUBSET Records
        /\ ToSet(q) \subseteq drop \cup ToSet(rest) /\ ToSet(rest) \subseteq ToSet(q)
        /\ Len(q) <= Len(rest) + 1 /\ (Increasing(q) => Increasing(rest))
    BY <2>2, <2>3, <2>4
  <2> HIDE DEF q, rest, drop
  <2> QED
    BY <1>2, <2>5 DEF q
<1>4. CASE ~full
  <2>1. rest = q /\ drop = {}
    BY <1>4
  <2>2. Len(q) <= Len(q) + 1
    BY <1>1
  <2> HIDE DEF q, rest, drop
  <2> QED
    BY <1>1, <1>2, <2>1, <2>2 DEF q
<1> QED
  BY <1>3, <1>4

LEMMA EnqueueInv ==
  ASSUME IInv, enqueue
  PROVE  IInv'
<1>w. PICK w \in Workers : w = current
  BY DEF IInv, TypeOK, enqueue
<1>0. w \in Workers /\ running[w] /\ accepted < MaxRecords
  BY <1>w DEF enqueue
<1>r. PICK r \in Nat : r = accepted + 1
  BY DEF IInv, TypeOK
<1>1. Active(w) /\ OthersOff(w)
  BY <1>0, ActiveAlone DEF IInv, WorkerInv, OffInv, Active
<1>2. r \in Records /\ r \in Nat /\ accepted \in Nat
  BY <1>0, <1>r, StoreAssumption DEF IInv, TypeOK, Records, StoreAssumption
<1>3. PICK rest \in Seq(Records), drop \in SUBSET Records :
           /\ queue' = [queue EXCEPT ![w] = Append(rest, r)]
           /\ gone' = gone \cup drop
           /\ ToSet(queue[w]) \subseteq drop \cup ToSet(rest)
           /\ ToSet(rest) \subseteq ToSet(queue[w])
           /\ Len(queue[w]) <= Len(rest) + 1
           /\ Increasing(queue[w]) => Increasing(rest)
  BY <1>w, <1>r, EnqueueKeeps
<1>4. /\ accepted' = r
      /\ UNCHANGED <<current, mishaps, asked, quit, pc, running, batch, spilled, file, copies>>
  BY <1>r DEF enqueue, storeVars
<1>5. queue'[w] = Append(rest, r) /\ Append(rest, r) \in Seq(Records)
      /\ ToSet(Append(rest, r)) = ToSet(rest) \cup {r} /\ Len(Append(rest, r)) = Len(rest) + 1
  BY <1>0, <1>2, <1>3, ToSetAppend DEF IInv, TypeOK
<1>6. TypeOK'
  BY <1>0, <1>2, <1>3, <1>4, <1>5 DEF IInv, TypeOK, Records
<1>7. SameElse(w)
  BY <1>0, <1>3, <1>4 DEF IInv, TypeOK, SameElse
<1>8. WorkerInv(w) /\ copies[r] = 0 /\ mishaps \in Nat
  BY <1>r, <1>0, <1>2, WorkerFacts DEF IInv, NewInv
<1>9. ToSet(file) \subseteq Records /\ UpTo(file, accepted)
  BY <1>0, WorkerFacts DEF IInv, FileInv
<1>10. ToSet(queue[w]) \subseteq Records /\ ToSet(batch[w]) \subseteq Records /\ Records \subseteq Nat
  BY <1>0, WorkerFacts, RecordsAreNats
<1>16. \A x \in ToSet(queue[w]) \cup ToSet(batch[w]) \cup ToSet(file) : x \in Nat /\ x < r
  <2>1. \A x \in ToSet(queue[w]) \cup ToSet(batch[w]) \cup ToSet(file) : x \in Nat /\ x <= accepted
    BY <1>8, <1>9, <1>10 DEF WorkerInv, OrderInv, UpTo
  <2> QED
    BY <2>1, <1>r, <1>2
<1>11. WorkerInv(w)'
  <2>1. OffInv(w)'
    BY <1>1, <1>4, <1>8 DEF WorkerInv, OffInv, Active, At, Loaded, Flushing
  <2>2. SpillInv(w)'
    <3>1. CASE Flushing(w)
      BY <1>3, <1>4, <1>8, <3>1 DEF WorkerInv, SpillInv, Loaded, At, Ahead, Written, Flushing
    <3>2. CASE ~Flushing(w)
      <4>1. Len(queue[w]) <= Len(Append(rest, r)) /\ Len(queue[w]) \in Nat /\ Len(Append(rest, r)) \in Nat
            /\ spilled[w] \in Nat
        BY <1>3, <1>5, WorkerFacts
      <4>2. Loaded(w) => spilled[w] <= Len(Append(rest, r))
        BY <1>8, <3>2, <4>1 DEF WorkerInv, SpillInv, Ahead
      <4> QED
        BY <1>3, <1>4, <1>5, <1>8, <3>2, <4>2 DEF WorkerInv, SpillInv, Loaded, At, Ahead, Written, Flushing
    <3> QED
      BY <3>1, <3>2
  <2>3. WrittenInv(w)'
    BY <1>3, <1>4, <1>8 DEF WorkerInv, WrittenInv, At, Written
  <2>4. OrderInv(w)'
    <3>1. \A x \in ToSet(rest) : x < r
      BY <1>3, <1>16
    <3>2. Increasing(Append(rest, r))
      BY <1>2, <1>3, <1>8, <3>1, IncreasingAppend DEF WorkerInv, OrderInv
    <3>3. UpTo(queue[w], r)' /\ UpTo(batch[w], r)' /\ Before(batch[w], queue[w])'
      BY <1>2, <1>3, <1>4, <1>5, <1>8, <1>16 DEF WorkerInv, OrderInv, UpTo, Before
    <3>4. At(w, "loading")' \/ Flushing(w)' => Before(file, queue[w])'
      BY <1>3, <1>4, <1>5, <1>8, <1>16 DEF WorkerInv, OrderInv, At, Flushing, Before
    <3> QED
      BY <1>4, <1>5, <1>8, <3>2, <3>3, <3>4 DEF WorkerInv, OrderInv, UpTo
  <2>5. CopyInv(w)'
    <3>1. StoredUpTo(queue[w], mishaps)'
      BY <1>3, <1>4, <1>5, <1>8 DEF WorkerInv, CopyInv, StoredUpTo
    <3>2. r \notin ToSet(file)
      BY <1>r, <1>2, <1>9, <1>10 DEF UpTo
    <3> QED
      BY <1>3, <1>4, <1>5, <1>8, <3>1, <3>2 DEF WorkerInv, CopyInv, StoredUpTo, At, Held, Loaded
  <2> QED
    BY <2>1, <2>2, <2>3, <2>4, <2>5 DEF WorkerInv
<1>12. Covers(w)'
  <2>1. Covers(w)
    BY <1>0, <1>1, CoversItself
  <2>2. (1..r) = (1..accepted) \cup {r}
    BY <1>2, <1>r
  <2> QED
    BY <1>3, <1>4, <1>5, <2>1, <2>2 DEF Covers, Held, Written
<1>13. StoredOnce' /\ NewInv'
  BY <1>r, <1>2, <1>4, RecordsAreNats DEF IInv, StoredOnce, NewInv
<1>14. FileInv'
  BY <1>2, <1>4, <1>16 DEF IInv, FileInv, UpTo, StoredUpTo, At
<1>15. w = current'
  BY <1>4, <1>w
<1> QED
  BY <1>0, <1>1, <1>6, <1>7, <1>11, <1>12, <1>13, <1>14, <1>15, WorkerStep
-----------------------------------------------------------------------------
(* The worker's thread: loading and taking. *)

\* The queue after a load: the file, or the file and what arrived meanwhile.
LEMMA LoadInv ==
  ASSUME IInv, NEW w \in Workers, loadSpilledQueue(w)
  PROVE  IInv'
<1>1. /\ At(w, "loading") /\ pc' = [pc EXCEPT ![w] = "idle"]
      /\ UNCHANGED <<current, asked, quit, running, batch, file, copies, accepted, mishaps>>
  BY DEF loadSpilledQueue, Step, storeVars
<1>2. OthersOff(w) /\ ("hang" \notin Faults => w = current') /\ Covers(w)
  BY <1>1, ActiveAlone, CoversItself DEF At, Active
<1>3. WorkerInv(w) /\ queue[w] \in Seq(Records) /\ file \in Seq(Records) /\ Len(file) \in Nat
  BY WorkerFacts
<1>4. spilled[w] = 0 /\ batch[w] = <<>> /\ ToSet(batch[w]) = {}
  BY <1>1, <1>3, ToSetEmpty DEF WorkerInv, OffInv, Loaded, Flushing, At
<1>5. pc'[w] = "idle" /\ batch'[w] = <<>> /\ ToSet(batch'[w]) = {} /\ Increasing(batch'[w])
  BY <1>1, <1>4, IncreasingEmpty DEF IInv, TypeOK
<1>6. /\ Increasing(file) /\ UpTo(file, accepted) /\ StoredUpTo(file, mishaps)
      /\ Increasing(queue[w]) /\ UpTo(queue[w], accepted) /\ StoredUpTo(queue[w], mishaps)
      /\ Before(file, queue[w])
  <2>1. \A v \in Workers : At(v, "written") => spilled[v] = 0
    BY <1>1, <1>2, OthersEmpty DEF At
  <2> QED
    BY <1>1, <1>3, <2>1 DEF IInv, FileInv, WorkerInv, OrderInv, CopyInv
<1>7. /\ file \o queue[w] \in Seq(Records) /\ ToSet(file \o queue[w]) = ToSet(file) \cup ToSet(queue[w])
      /\ Increasing(file \o queue[w]) /\ Len(file) <= Len(file \o queue[w])
  BY <1>3, <1>6, ToSetConcat, IncreasingConcat
<1>8. ToSet(file) \subseteq Records /\ Records \subseteq Nat
  BY <1>3, ToSetIn, RecordsAreNats
\* Whatever is loaded, the parts of the invariant follow from what is known of it.
<1>9. ASSUME NEW q \in Seq(Records), NEW n \in Nat, NEW drop \in SUBSET Records,
             queue' = [queue EXCEPT ![w] = q], spilled' = [spilled EXCEPT ![w] = n],
             gone' = gone \cup drop,
             ToSet(queue[w]) \subseteq ToSet(file) \cup ToSet(q) \cup drop,
             ToSet(q) \subseteq ToSet(file) \cup ToSet(queue[w]),
             ToSet(file) \subseteq ToSet(q) \cup Written \cup drop,
             n <= Len(q), n = 0 => ToSet(file) \cap ToSet(q) = {}, Increasing(q)
      PROVE  IInv'
  <2>1. TypeOK'
    BY <1>1, <1>9 DEF IInv, TypeOK, Labels
  <2>2. SameElse(w) /\ queue'[w] = q /\ spilled'[w] = n
    BY <1>1, <1>9 DEF IInv, TypeOK, SameElse
  <2>3. WorkerInv(w)'
    <3>1. OffInv(w)' /\ WrittenInv(w)'
      BY <1>5 DEF OffInv, WrittenInv, Loaded, Flushing, At
    <3>2. SpillInv(w)'
      BY <1>1, <1>5, <1>9, <2>2 DEF SpillInv, Loaded, At, Ahead, Flushing, Written
    <3>3. OrderInv(w)'
      BY <1>1, <1>5, <1>6, <1>9, <2>2 DEF OrderInv, UpTo, Before, At, Flushing
    <3>4. CopyInv(w)'
      BY <1>1, <1>5, <1>6, <1>9, <2>2 DEF CopyInv, StoredUpTo, Loaded, At, Held
    <3> QED
      BY <3>1, <3>2, <3>3, <3>4 DEF WorkerInv
  <2>4. Covers(w)'
    BY <1>1, <1>2, <1>4, <1>5, <1>9, <2>2 DEF Covers, Held, Written
  <2>5. StoredOnce' /\ NewInv' /\ FileInv'
    BY <1>1, <1>6 DEF IInv, StoredOnce, NewInv, FileInv, UpTo, StoredUpTo
  <2> QED
    BY <1>2, <2>1, <2>2, <2>3, <2>4, <2>5, WorkerStep
<1>10. CASE /\ queue' = [queue EXCEPT ![w] = file \o @]
            /\ spilled' = [spilled EXCEPT ![w] = Len(file)] /\ UNCHANGED gone
  <2>1. Len(file) = 0 => ToSet(file) = {}
    BY <1>3, ToSetEmpty
  <2>2. queue' = [queue EXCEPT ![w] = file \o queue[w]] /\ gone' = gone \cup {}
    BY <1>10 DEF IInv, TypeOK
  <2>3. PICK q \in Seq(Records) : q = file \o queue[w]
    BY <1>7
  <2>4. PICK n \in Nat : n = Len(file)
    BY <1>3
  <2>5. /\ queue' = [queue EXCEPT ![w] = q] /\ spilled' = [spilled EXCEPT ![w] = n]
        /\ ToSet(q) = ToSet(file) \cup ToSet(queue[w]) /\ Increasing(q) /\ n <= Len(q)
        /\ n = 0 => ToSet(file) \cap ToSet(q) = {}
    BY <1>7, <1>10, <2>1, <2>2, <2>3, <2>4
  <2> QED
    BY <1>9, <2>2, <2>5
<1>11. CASE /\ queue' = [queue EXCEPT ![w] = file]
            /\ spilled' = [spilled EXCEPT ![w] = Len(file)]
            /\ gone' = gone \cup (ToSet(queue[w]) \ ToSet(file))
  <2>1. Len(file) = 0 => ToSet(file) = {}
    BY <1>3, ToSetEmpty
  <2>2. ToSet(queue[w]) \ ToSet(file) \in SUBSET Records
    BY <1>3, ToSetIn
  <2>3. PICK n \in Nat : n = Len(file)
    BY <1>3
  <2>4. n <= Len(file) /\ (n = 0 => ToSet(file) \cap ToSet(file) = {})
        /\ spilled' = [spilled EXCEPT ![w] = n]
    BY <1>11, <2>1, <2>3
  <2> QED
    BY <1>3, <1>6, <1>9, <1>11, <2>2, <2>4
<1>12. CASE gone' = gone \cup (ToSet(file) \ Written) /\ UNCHANGED <<queue, spilled>>
  <2>1. queue' = [queue EXCEPT ![w] = queue[w]] /\ spilled' = [spilled EXCEPT ![w] = 0]
    BY <1>4, <1>12 DEF IInv, TypeOK
  <2>2. ToSet(file) \cap ToSet(queue[w]) = {}
    <3> SUFFICES ASSUME NEW x \in ToSet(file), x \in ToSet(queue[w]) PROVE FALSE
      OBVIOUS
    <3>1. x \in Nat /\ x < x
      BY <1>6, <1>8 DEF Before
    <3> QED
      BY <3>1
  <2>3. ToSet(file) \ Written \in SUBSET Records
    BY <1>8
  <2>4. 0 <= Len(queue[w])
    BY <1>3
  <2> QED
    BY <1>3, <1>6, <1>9, <1>12, <2>1, <2>2, <2>3, <2>4
<1> QED
  BY <1>10, <1>11, <1>12 DEF loadSpilledQueue, GiveUp

\* The file can only lack from a worker that has written it.
LEMMA FileStored ==
  ASSUME IInv, NEW w \in Workers, OthersOff(w), At(w, "written") => spilled[w] = 0
  PROVE  StoredUpTo(file, mishaps)
<1>1. \A v \in Workers : At(v, "written") => spilled[v] = 0
  BY OthersEmpty
<1> QED
  BY <1>1 DEF IInv, FileInv

LEMMA TakeInv ==
  ASSUME IInv, NEW w \in Workers, flushTake(w, "flushing"), NEW b \in BOOLEAN,
         running' = [running EXCEPT ![w] = b], asked' \subseteq Workers,
         UNCHANGED <<current, quit, spilled, storeVars, history>>
  PROVE  IInv'
<1>1. /\ At(w, "idle") /\ pc' = [pc EXCEPT ![w] = "flushing"]
      /\ batch' = [batch EXCEPT ![w] = queue[w]] /\ queue' = [queue EXCEPT ![w] = <<>>]
      /\ UNCHANGED <<current, quit, spilled, file, copies, accepted, gone, mishaps>>
  BY DEF flushTake, Step, storeVars, history
<1>2. OthersOff(w) /\ ("hang" \notin Faults => w = current') /\ Covers(w)
  BY <1>1, ActiveAlone, CoversItself DEF At, Active
<1>3. WorkerInv(w) /\ queue[w] \in Seq(Records)
  BY WorkerFacts
<1>4. batch[w] = <<>> /\ ToSet(batch[w]) = {}
  BY <1>1, <1>3, ToSetEmpty DEF WorkerInv, OffInv, Flushing, At
<1>5. pc'[w] = "flushing" /\ batch'[w] = queue[w] /\ queue'[w] = <<>> /\ ToSet(queue'[w]) = {}
      /\ Increasing(queue'[w]) /\ SameElse(w)
  BY <1>1, IncreasingEmpty, ToSetEmpty DEF IInv, TypeOK, SameElse
<1>6. TypeOK'
  <2>1. <<>> \in Seq(Records)
    OBVIOUS
  <2> QED
    BY <1>1, <1>3, <2>1 DEF IInv, TypeOK, Labels
<1>7. WorkerInv(w)'
  <2>1. OffInv(w)' /\ WrittenInv(w)'
    BY <1>5 DEF OffInv, WrittenInv, Loaded, Flushing, At
  <2>2. SpillInv(w)'
    BY <1>1, <1>3, <1>5 DEF WorkerInv, SpillInv, Loaded, At, Ahead, Flushing, Written
  <2>3. OrderInv(w)'
    BY <1>1, <1>3, <1>5 DEF WorkerInv, OrderInv, UpTo, Before, At
  <2>4. CopyInv(w)'
    BY <1>1, <1>3, <1>4, <1>5 DEF WorkerInv, CopyInv, StoredUpTo, Loaded, At, Held
  <2> QED
    BY <2>1, <2>2, <2>3, <2>4 DEF WorkerInv
<1>8. Covers(w)'
  BY <1>1, <1>2, <1>4, <1>5 DEF Covers, Held, Written
<1>9. StoredUpTo(file, mishaps)
  BY <1>1, <1>2, FileStored DEF At
<1>10. StoredOnce' /\ NewInv' /\ FileInv'
  BY <1>1, <1>9 DEF IInv, StoredOnce, NewInv, FileInv, UpTo, StoredUpTo
<1> QED
  BY <1>2, <1>5, <1>6, <1>7, <1>8, <1>10, WorkerStep

LEMMA FlushTimerInv ==
  ASSUME IInv, NEW w \in Workers, onFlushTimer(w)
  PROVE  IInv'
<1>1. running' = [running EXCEPT ![w] = running[w]] /\ running[w] \in BOOLEAN
  <2>1. running' = running /\ running \in [Workers -> BOOLEAN]
    BY DEF onFlushTimer, IInv, TypeOK
  <2> QED
    BY <2>1
<1>2. flushTake(w, "flushing") /\ asked' \subseteq Workers
      /\ UNCHANGED <<current, quit, spilled, storeVars, history>>
  BY DEF onFlushTimer, IInv, TypeOK
<1> QED
  BY <1>1, <1>2, TakeInv

\* stop() with an empty queue goes straight to saving.
LEMMA StopInv ==
  ASSUME IInv, NEW w \in Workers, stop(w)
  PROVE  IInv'
<1>1. /\ running' = [running EXCEPT ![w] = FALSE] /\ asked' \subseteq Workers /\ At(w, "idle")
      /\ UNCHANGED <<current, quit, spilled, storeVars, history>>
  BY DEF stop, IInv, TypeOK
<1>2. CASE flushTake(w, "flushing")
  BY <1>1, <1>2, TakeInv
<1>3. CASE queue[w] = <<>> /\ Step(w, "idle", "saving") /\ UNCHANGED <<queue, batch>>
  <2>1. /\ pc' = [pc EXCEPT ![w] = "saving"]
        /\ UNCHANGED <<queue, batch, current, quit, spilled, file, copies, accepted, gone, mishaps>>
    BY <1>1, <1>3 DEF Step, storeVars, history
  <2>2. OthersOff(w) /\ ("hang" \notin Faults => w = current') /\ Covers(w)
    BY <1>1, <2>1, ActiveAlone, CoversItself DEF At, Active
  <2>3. pc'[w] = "saving" /\ ~running'[w] /\ SameElse(w) /\ WorkerInv(w)
    BY <1>1, <2>1, WorkerFacts DEF IInv, TypeOK, SameElse
  <2>4. TypeOK'
    BY <1>1, <2>1 DEF IInv, TypeOK, Labels
  <2>5. WorkerInv(w)'
    BY <1>1, <2>1, <2>3
       DEF WorkerInv, OffInv, SpillInv, WrittenInv, OrderInv, CopyInv, Loaded, At, Before, Flushing,
           UpTo, StoredUpTo, Ahead, Held, Written
  <2>6. Covers(w)'
    BY <2>1, <2>2 DEF Covers, Held, Written
  <2>7. StoredUpTo(file, mishaps)
    BY <1>1, <2>2, FileStored DEF At
  <2>8. StoredOnce' /\ NewInv' /\ FileInv'
    BY <2>1, <2>7 DEF IInv, StoredOnce, NewInv, FileInv, UpTo, StoredUpTo
  <2> QED
    BY <2>2, <2>3, <2>4, <2>5, <2>6, <2>8, WorkerStep
<1> QED
  BY <1>2, <1>3 DEF stop
-----------------------------------------------------------------------------
(* The worker's thread: what becomes of a batch. *)

LEMMA FlushFailsInv ==
  ASSUME IInv, NEW w \in Workers, flushFails(w)
  PROVE  IInv'
<1>1. PICK next \in {"idle", "saving"} : next = afterFlush(w)
  BY DEF afterFlush
<1>2. /\ At(w, "flushing") /\ pc' = [pc EXCEPT ![w] = next]
      /\ queue' = [queue EXCEPT ![w] = batch[w] \o queue[w]] /\ batch' = [batch EXCEPT ![w] = <<>>]
      /\ UNCHANGED <<current, asked, quit, running, spilled, file, copies, accepted, gone, mishaps>>
  BY <1>1 DEF flushFails, requeue, Step, storeVars, history, IInv, TypeOK
<1>3. OthersOff(w) /\ ("hang" \notin Faults => w = current') /\ Covers(w)
  BY <1>2, ActiveAlone, CoversItself DEF At, Active
<1>4. WorkerInv(w) /\ queue[w] \in Seq(Records) /\ batch[w] \in Seq(Records) /\ spilled[w] \in Nat
  BY WorkerFacts
<1>5. PICK q \in Seq(Records) : q = batch[w] \o queue[w]
  BY <1>4, ConcatFacts
<1>6. ToSet(q) = Held(w) /\ Increasing(q) /\ Len(batch[w]) <= Len(q)
  <2>1. Increasing(batch[w]) /\ Increasing(queue[w]) /\ Before(batch[w], queue[w])
    BY <1>4 DEF WorkerInv, OrderInv
  <2>2. Len(batch[w]) <= Len(batch[w] \o queue[w])
    BY <1>4, ConcatFacts
  <2>3. Increasing(q)
    BY <1>4, <1>5, <2>1, IncreasingConcat
  <2>4. ToSet(q) = ToSet(batch[w]) \cup ToSet(queue[w])
    BY <1>4, <1>5, ToSetConcat
  <2> QED
    BY <1>5, <2>2, <2>3, <2>4 DEF Held
<1>7. pc'[w] = next /\ queue'[w] = q /\ batch'[w] = <<>> /\ ToSet(batch'[w]) = {}
      /\ Increasing(batch'[w]) /\ SameElse(w)
  <2>1. pc'[w] = next /\ queue'[w] = q /\ batch'[w] = <<>> /\ SameElse(w)
    BY <1>2, <1>5 DEF IInv, TypeOK, SameElse
  <2> QED
    BY <2>1, IncreasingEmpty, ToSetEmpty
<1>8. TypeOK'
  <2>1. <<>> \in Seq(Records)
    OBVIOUS
  <2> QED
    BY <1>2, <1>5, <2>1 DEF IInv, TypeOK, Labels
<1>9. WorkerInv(w)'
  <2>1. OffInv(w)' /\ WrittenInv(w)'
    BY <1>1, <1>2, <1>7 DEF OffInv, WrittenInv, Loaded, Flushing, At, afterFlush
  <2>2. SpillInv(w)'
    <3>1. ToSet(file) \subseteq ToSet(batch[w]) \cup Written \cup gone /\ spilled[w] <= Len(batch[w])
      BY <1>2, <1>4 DEF WorkerInv, SpillInv, Loaded, Ahead, Flushing, At
    <3>2. spilled[w] <= Len(q)
      BY <1>4, <1>6, <3>1
    <3> QED
      BY <1>2, <1>6, <1>7, <3>1, <3>2 DEF SpillInv, Loaded, At, Ahead, Flushing, Written, Held
  <2>3. OrderInv(w)'
    BY <1>2, <1>4, <1>6, <1>7 DEF WorkerInv, OrderInv, UpTo, Before, At, Held, Flushing
  <2>4. CopyInv(w)'
    BY <1>2, <1>4, <1>6, <1>7 DEF WorkerInv, CopyInv, StoredUpTo, Loaded, At, Held
  <2> QED
    BY <2>1, <2>2, <2>3, <2>4 DEF WorkerInv
<1>10. Covers(w)'
  <2>1. Held(w)' = Held(w)
    BY <1>6, <1>7 DEF Held
  <2> QED
    BY <1>2, <1>3, <2>1 DEF Covers, Written
<1>11. StoredUpTo(file, mishaps)
  <2>1. ~At(w, "written")
    BY <1>2 DEF At
  <2> QED
    BY <1>3, <2>1, FileStored
<1>12. StoredOnce' /\ NewInv' /\ FileInv'
  BY <1>2, <1>11 DEF IInv, StoredOnce, NewInv, FileInv, UpTo, StoredUpTo
<1> QED
  BY <1>3, <1>7, <1>8, <1>9, <1>10, <1>12, WorkerStep

LEMMA InsertInv ==
  ASSUME IInv, NEW w \in Workers, insertBatch(w)
  PROVE  IInv'
<1>1. /\ At(w, "flushing") /\ pc' = [pc EXCEPT ![w] = "written"]
      /\ UNCHANGED <<current, asked, quit, running, queue, batch, spilled, file, accepted, mishaps>>
  BY DEF insertBatch, Step
<1>2. PICK failed \in SUBSET ToSet(batch[w]) :
        /\ \A r \in ToSet(batch[w]) \ failed : copies[r] < MaxCopies
        /\ copies' = [r \in Records |->
                        IF r \in ToSet(batch[w]) \ failed THEN copies[r] + 1 ELSE copies[r]]
        /\ gone' = gone \cup failed
  BY DEF insertBatch, GiveUp
<1>3. OthersOff(w) /\ ("hang" \notin Faults => w = current') /\ Covers(w)
  BY <1>1, ActiveAlone, CoversItself DEF At, Active
<1>4. /\ WorkerInv(w) /\ ToSet(batch[w]) \subseteq Records /\ ToSet(queue[w]) \subseteq Records
      /\ ToSet(file) \subseteq Records
      /\ mishaps \in Nat /\ accepted \in Nat /\ \A r \in Records : copies[r] \in Nat /\ r \in Nat
  BY WorkerFacts
<1>5. pc'[w] = "written" /\ SameElse(w)
  BY <1>1 DEF IInv, TypeOK, SameElse
<1>6. \A r \in Records :
        /\ copies'[r] \in Nat /\ copies[r] <= copies'[r] /\ copies'[r] <= copies[r] + 1
        /\ r \notin ToSet(batch[w]) => copies'[r] = copies[r]
        /\ r \in ToSet(batch[w]) => copies'[r] > 0 \/ r \in gone'
  BY <1>2, <1>4
<1>7. Written \subseteq Written' /\ gone \subseteq gone' /\ ToSet(batch[w]) \subseteq Written' \cup gone'
  BY <1>2, <1>4, <1>6 DEF Written
<1>8. TypeOK'
  <2>1. copies' \in [Records -> 0..MaxCopies]
    <3>1. \A r \in Records : copies[r] \in 0..MaxCopies /\ MaxCopies \in Nat
      BY StoreAssumption DEF IInv, TypeOK, StoreAssumption
    <3>2. \A r \in Records :
            (IF r \in ToSet(batch[w]) \ failed THEN copies[r] + 1 ELSE copies[r]) \in 0..MaxCopies
      BY <1>2, <3>1
    <3> QED
      BY <1>2, <3>2
  <2>2. gone' \subseteq Records
    BY <1>2, <1>4 DEF IInv, TypeOK
  <2> QED
    BY <1>1, <2>1, <2>2 DEF IInv, TypeOK, Labels
<1>9. StoredUpTo(batch[w], mishaps) /\ StoredUpTo(queue[w], mishaps)
  BY <1>1, <1>4 DEF WorkerInv, CopyInv, At
<1>10. ToSet(batch[w]) \cap ToSet(queue[w]) = {}
  <2> SUFFICES ASSUME NEW x \in ToSet(batch[w]), x \in ToSet(queue[w]) PROVE FALSE
    OBVIOUS
  <2>1. x < x /\ x \in Nat
    BY <1>4 DEF WorkerInv, OrderInv, Before
  <2> QED
    BY <2>1
<1>11. WorkerInv(w)'
  <2>1. OffInv(w)'
    BY <1>5 DEF OffInv, Loaded, Flushing, At
  <2>2. SpillInv(w)'
    BY <1>1, <1>4, <1>5, <1>7 DEF WorkerInv, SpillInv, Loaded, At, Ahead, Flushing
  <2>3. WrittenInv(w)'
    BY <1>1, <1>7 DEF WrittenInv
  <2>4. OrderInv(w)'
    BY <1>1, <1>4, <1>5 DEF WorkerInv, OrderInv, UpTo, Before, At, Flushing
  <2>5. StoredUpTo(queue[w], mishaps)'
    BY <1>1, <1>4, <1>6, <1>9, <1>10 DEF StoredUpTo
  <2>6. CopyInv(w)'
    BY <1>1, <1>4, <1>5, <2>5 DEF WorkerInv, CopyInv, Loaded, At, Held
  <2> QED
    BY <2>1, <2>2, <2>3, <2>4, <2>6 DEF WorkerInv
<1>12. Covers(w)'
  BY <1>1, <1>3, <1>7 DEF Covers, Held
<1>13. StoredOnce'
  <2>1. \A r \in Records : copies[r] <= 1 + mishaps
    BY DEF IInv, StoredOnce
  <2>2. \A r \in Records : copies'[r] <= 1 + mishaps
    BY <1>4, <1>6, <1>9, <2>1 DEF StoredUpTo
  <2> QED
    BY <1>1, <2>2 DEF StoredOnce
<1>14. NewInv'
  <2>1. \A r \in Records : r > accepted => r \notin ToSet(batch[w])
    BY <1>4 DEF WorkerInv, OrderInv, UpTo
  <2> QED
    BY <1>1, <1>6, <2>1 DEF IInv, NewInv
<1>15. FileInv'
  <2>1. ASSUME spilled[w] = 0 PROVE StoredUpTo(file, mishaps)'
    <3>1. StoredUpTo(file, mishaps)
      BY <1>1, <1>3, FileStored DEF At
    <3>2. ToSet(file) \cap ToSet(batch[w]) = {}
      BY <1>1, <1>4, <2>1 DEF WorkerInv, CopyInv, Loaded, At, Held
    <3> QED
      BY <1>1, <1>4, <1>6, <3>1, <3>2 DEF StoredUpTo
  <2> QED
    BY <1>1, <1>5, <2>1 DEF IInv, FileInv, UpTo, At
<1> QED
  BY <1>3, <1>5, <1>8, <1>11, <1>12, <1>13, <1>14, <1>15, WorkerStep

\* The batch that was written covers all that was loaded: the file goes.
LEMMA AcksInv ==
  ASSUME IInv, NEW w \in Workers, flushAcks(w)
  PROVE  IInv'
<1>1. PICK next \in {"idle", "saving"} : next = afterFlush(w)
  BY DEF afterFlush
<1>2. PICK f \in {<<>>, file} : f = file'
  BY DEF flushAcks, removeSpill
<1>3. WorkerInv(w) /\ spilled[w] \in Nat /\ file \in Seq(Records)
  BY WorkerFacts
<1>4. At(w, "written") /\ consumed(w) = spilled[w]
  BY <1>3 DEF flushAcks, Step, WorkerInv, SpillInv, Loaded, At, Ahead, Flushing, consumed
<1>5. /\ pc' = [pc EXCEPT ![w] = next] /\ batch' = [batch EXCEPT ![w] = <<>>]
      /\ spilled' = [spilled EXCEPT ![w] = 0]
      /\ \/ (f = <<>> \/ spilled[w] = 0) /\ mishaps' = mishaps
         \/ f = file /\ mishaps' = mishaps + 1
      /\ spilled[w] = 0 => f = file
      /\ UNCHANGED <<current, asked, quit, running, queue, copies, accepted, gone>>
      /\ mishaps' \in 0..MaxMishaps
  <2>1. spilled' = [spilled EXCEPT ![w] = 0]
    <3>1. (IF spilled[w] > 0 THEN spilled[w] - consumed(w) ELSE spilled[w]) = 0
      BY <1>3, <1>4
    <3>2. spilled' = [spilled EXCEPT ![w] = IF spilled[w] > 0 THEN spilled[w] - consumed(w) ELSE spilled[w]]
      BY DEF flushAcks, IInv, TypeOK
    <3> QED
      BY <3>1, <3>2
  <2>2. /\ \/ (f = <<>> \/ spilled[w] = 0) /\ mishaps' = mishaps
           \/ f = file /\ mishaps' = mishaps + 1
        /\ spilled[w] = 0 => f = file
    BY <1>2, <1>3, <1>4 DEF flushAcks, removeSpill
  <2>3. mishaps' = mishaps \/ (mishaps < MaxMishaps /\ mishaps' = mishaps + 1)
    BY DEF flushAcks, removeSpill
  <2>4. mishaps' \in 0..MaxMishaps
    BY <2>3, StoreAssumption DEF IInv, TypeOK, StoreAssumption
  <2> QED
    BY <1>1, <2>1, <2>2, <2>4 DEF flushAcks, Step
<1>6. OthersOff(w) /\ ("hang" \notin Faults => w = current') /\ Covers(w)
  BY <1>4, <1>5, ActiveAlone, CoversItself DEF At, Active
<1>7. pc'[w] = next /\ batch'[w] = <<>> /\ spilled'[w] = 0 /\ SameElse(w)
      /\ ToSet(batch'[w]) = {} /\ Increasing(batch'[w])
  <2>1. pc'[w] = next /\ batch'[w] = <<>> /\ spilled'[w] = 0 /\ SameElse(w)
    BY <1>5 DEF IInv, TypeOK, SameElse
  <2> QED
    BY <2>1, IncreasingEmpty, ToSetEmpty
<1>8. ToSet(file) \cup ToSet(batch[w]) \subseteq Written \cup gone
  BY <1>3, <1>4 DEF WorkerInv, SpillInv, WrittenInv, Loaded, At, Ahead, Flushing
<1>9. ToSet(f) \subseteq ToSet(file) /\ (f = <<>> => ToSet(f) = {})
  BY <1>2, ToSetEmpty
<1>10. /\ mishaps \in Nat /\ mishaps' \in Nat /\ mishaps <= mishaps'
       /\ \A r \in Records : copies[r] \in Nat
       /\ ToSet(file) \subseteq Records /\ ToSet(queue[w]) \subseteq Records
  <2>1. ToSet(file) \subseteq Records /\ ToSet(queue[w]) \subseteq Records
    BY WorkerFacts, ToSetIn
  <2> QED
    BY <1>5, <2>1 DEF IInv, TypeOK
<1>11. TypeOK'
  <2>1. <<>> \in Seq(Records)
    OBVIOUS
  <2>2. f \in Seq(Records)
    BY <1>2, <1>3, <2>1
  <2> QED
    BY <1>2, <1>5, <2>1, <2>2 DEF IInv, TypeOK, Labels
<1>12. WorkerInv(w)'
  <2>1. OffInv(w)' /\ WrittenInv(w)'
    BY <1>1, <1>5, <1>7 DEF OffInv, WrittenInv, Loaded, Flushing, At, afterFlush
  <2>2. SpillInv(w)'
    <3>1. queue[w] \in Seq(Records)
      BY WorkerFacts
    <3> QED
      BY <1>2, <1>5, <1>7, <1>8, <1>9, <3>1 DEF SpillInv, Ahead, Flushing, At, Written
  <2>3. OrderInv(w)'
    BY <1>3, <1>5, <1>7 DEF WorkerInv, OrderInv, UpTo, Before, At, Flushing
  <2>4. CopyInv(w)'
    <3>1. ToSet(f) \cap ToSet(queue[w]) = {}
      <4>1. Before(file, queue[w])
        BY <1>3, <1>4 DEF WorkerInv, OrderInv, Flushing
      <4>2. \A x \in ToSet(file) : x \in Nat
        BY <1>10, RecordsAreNats
      <4> QED
        BY <1>9, <4>1, <4>2 DEF Before
    <3>2. ToSet(f) \cap Held(w)' = {}
      BY <1>5, <1>7, <3>1 DEF Held
    <3>3. StoredUpTo(queue[w], mishaps)'
      <4>1. StoredUpTo(queue[w], mishaps) /\ \A r \in ToSet(queue[w]) : copies[r] \in Nat
        BY <1>3, <1>10 DEF WorkerInv, CopyInv
      <4> QED
        BY <1>5, <1>10, <4>1 DEF StoredUpTo
    <3>4. StoredUpTo(batch[w], mishaps)'
      BY <1>7 DEF StoredUpTo
    <3> QED
      BY <1>2, <3>2, <3>3, <3>4 DEF CopyInv
  <2> QED
    BY <2>1, <2>2, <2>3, <2>4 DEF WorkerInv
<1>13. Covers(w)'
  <2>1. Covers(w) /\ Held(w) = ToSet(queue[w]) \cup ToSet(batch[w])
        /\ ToSet(queue[w]) \subseteq Held(w)'
    BY <1>5, <1>6 DEF Held
  <2> QED
    BY <1>5, <1>8, <2>1 DEF Covers, Written
<1>14. FileInv'
  <2>1. Increasing(f) /\ UpTo(f, accepted)
    BY <1>2, <1>9, IncreasingEmpty DEF IInv, FileInv, UpTo
  <2>2. StoredUpTo(f, mishaps')
    <3>1. CASE spilled[w] = 0
      <4>1. StoredUpTo(file, mishaps)
        BY <1>6, <3>1, FileStored
      <4> QED
        BY <1>5, <1>10, <3>1, <4>1 DEF StoredUpTo
    <3>2. CASE f = <<>>
      BY <1>9, <3>2 DEF StoredUpTo
    <3>3. CASE f = file /\ mishaps' = mishaps + 1
      <4>1. \A r \in ToSet(file) : copies[r] <= 1 + mishaps
        BY <1>10 DEF IInv, StoredOnce
      <4> QED
        BY <1>10, <3>3, <4>1 DEF StoredUpTo
    <3> QED
      BY <1>5, <3>1, <3>2, <3>3
  <2> QED
    BY <1>2, <1>5, <2>1, <2>2 DEF FileInv, UpTo, StoredUpTo
<1>15. StoredOnce' /\ NewInv'
  BY <1>5, <1>10 DEF IInv, StoredOnce, NewInv
<1> QED
  BY <1>6, <1>7, <1>11, <1>12, <1>13, <1>14, <1>15, WorkerStep

-----------------------------------------------------------------------------
(* The end of a worker. *)

\* Its queue becomes the file, or is given up but for what the file holds.
LEMMA RetireInv ==
  ASSUME IInv, NEW w \in Workers, At(w, "idle") \/ At(w, "saving"),
         pc' = [pc EXCEPT ![w] = "off"], running' = [running EXCEPT ![w] = FALSE],
         asked' \subseteq Workers, retire(w),
         NEW f \in Seq(Records), file' = f, NEW drop \in SUBSET Records, gone' = gone \cup drop,
         f = queue[w] \/ (f = file /\ ToSet(queue[w]) \subseteq ToSet(file) \cup drop),
         UNCHANGED <<current, batch, copies, accepted, mishaps>>
  PROVE  IInv'
<1>1. /\ queue' = [queue EXCEPT ![w] = <<>>] /\ spilled' = [spilled EXCEPT ![w] = 0]
      /\ quit' \subseteq Workers
  BY DEF retire, IInv, TypeOK
<1>2. OthersOff(w) /\ ("hang" \notin Faults => w = current') /\ Covers(w)
  BY ActiveAlone, CoversItself DEF At, Active
<1>3. WorkerInv(w) /\ queue[w] \in Seq(Records)
  BY WorkerFacts
<1>4. batch[w] = <<>> /\ ToSet(batch[w]) = {}
      /\ ToSet(file) \subseteq ToSet(queue[w]) \cup Written \cup gone
  BY <1>3, ToSetEmpty DEF WorkerInv, OffInv, SpillInv, Loaded, Flushing, Ahead, At
<1>5. /\ pc'[w] = "off" /\ queue'[w] = <<>> /\ batch'[w] = <<>> /\ spilled'[w] = 0 /\ ~running'[w]
      /\ SameElse(w)
  BY <1>1, <1>4 DEF IInv, TypeOK, SameElse
<1>6. ToSet(queue'[w]) = {} /\ ToSet(batch'[w]) = {} /\ Increasing(queue'[w]) /\ Increasing(batch'[w])
  BY <1>5, IncreasingEmpty, ToSetEmpty
<1>7. TypeOK'
  <2>1. <<>> \in Seq(Records) /\ gone' \subseteq Records
    BY DEF IInv, TypeOK
  <2> QED
    BY <1>1, <2>1 DEF IInv, TypeOK, Labels
<1>8. WorkerInv(w)'
  BY <1>5, <1>6
     DEF WorkerInv, OffInv, SpillInv, WrittenInv, OrderInv, CopyInv, Loaded, At, Before, Flushing,
         UpTo, StoredUpTo
<1>9. Covers(w)'
  <2>1. Covers(w) /\ Held(w) = ToSet(queue[w])
    BY <1>2, <1>4 DEF Held
  <2>2. ToSet(queue[w]) \cup ToSet(file) \subseteq ToSet(f) \cup Written \cup gone \cup drop
    BY <1>4
  <2> QED
    BY <2>1, <2>2 DEF Covers, Written
<1>10. FileInv'
  <2>1. StoredUpTo(file, mishaps)
    BY <1>2, FileStored DEF At
  <2>2. Increasing(f) /\ UpTo(f, accepted) /\ StoredUpTo(f, mishaps)
    BY <1>3, <2>1 DEF WorkerInv, OrderInv, CopyInv, IInv, FileInv
  <2> QED
    BY <2>2 DEF FileInv, UpTo, StoredUpTo
<1>11. StoredOnce' /\ NewInv'
  BY DEF IInv, StoredOnce, NewInv
<1> QED
  BY <1>2, <1>5, <1>7, <1>8, <1>9, <1>10, <1>11, WorkerStep

LEMMA SaveInv ==
  ASSUME IInv, NEW w \in Workers, saveSpilledQueue(w)
  PROVE  IInv'
<1>1. /\ At(w, "saving") /\ pc' = [pc EXCEPT ![w] = "off"] /\ retire(w)
      /\ UNCHANGED <<current, asked, running, batch, copies, accepted, mishaps>>
      /\ asked' \subseteq Workers
  BY DEF saveSpilledQueue, Step, IInv, TypeOK
<1>2. WorkerInv(w) /\ queue[w] \in Seq(Records) /\ file \in Seq(Records)
  BY WorkerFacts
<1>3. running' = [running EXCEPT ![w] = FALSE]
  <2>1. running[w] = FALSE /\ running \in [Workers -> BOOLEAN]
    BY <1>1, <1>2 DEF WorkerInv, OffInv, IInv, TypeOK
  <2> QED
    BY <1>1, <2>1
<1>4. CASE file' = queue[w] /\ UNCHANGED gone
  <2>1. PICK drop \in SUBSET Records : gone' = gone \cup drop
    <3>1. gone' = gone \cup {} /\ {} \in SUBSET Records
      BY <1>4
    <3> QED
      BY <3>1
  <2>2. PICK f \in Seq(Records) : f = queue[w]
    BY <1>2
  <2>3. file' = f
    BY <1>4, <2>2
  <2> QED
    BY <1>1, <1>3, <2>1, <2>2, <2>3, RetireInv
<1>5. CASE gone' = gone \cup (ToSet(queue[w]) \ ToSet(file)) /\ UNCHANGED file
  <2>1. PICK drop \in SUBSET Records : drop = ToSet(queue[w]) \ ToSet(file)
    BY <1>2, ToSetIn
  <2> QED
    BY <1>1, <1>2, <1>3, <1>5, <2>1, RetireInv
<1> QED
  BY <1>4, <1>5 DEF saveSpilledQueue, GiveUp

LEMMA QuitInv ==
  ASSUME IInv, NEW w \in Workers, quitThread(w)
  PROVE  IInv'
<1>1. /\ At(w, "idle") /\ pc' = [pc EXCEPT ![w] = "off"] /\ retire(w)
      /\ running' = [running EXCEPT ![w] = FALSE] /\ asked' \subseteq Workers
      /\ UNCHANGED <<current, batch, file, copies, accepted, mishaps>>
      /\ gone' = gone \cup (ToSet(queue[w]) \ ToSet(file))
  BY DEF quitThread, Step, storeVars, GiveUp, IInv, TypeOK
<1>2. queue[w] \in Seq(Records) /\ file \in Seq(Records)
  BY WorkerFacts
<1>3. PICK drop \in SUBSET Records : drop = ToSet(queue[w]) \ ToSet(file)
  BY <1>2, ToSetIn
<1> QED
  BY <1>1, <1>2, <1>3, RetireInv

\* A crash leaves what the next worker finds, and one more copy is possible.
LEMMA CrashInv ==
  ASSUME IInv, crash
  PROVE  IInv'
<1>1. /\ mishaps < MaxMishaps /\ mishaps' = mishaps + 1 /\ UNCHANGED <<file, copies, accepted>>
      /\ current' = NoWorker /\ asked' = {} /\ quit' = {}
      /\ pc' = [w \in Workers |-> "off"] /\ running' = [w \in Workers |-> FALSE]
      /\ queue' = [w \in Workers |-> <<>>] /\ batch' = [w \in Workers |-> <<>>]
      /\ spilled' = [w \in Workers |-> 0]
      /\ gone' = gone \cup (Memory \ (ToSet(file) \cup Written))
  BY DEF crash, storeVars, GiveUp
<1>2. \A w \in Workers :
        /\ ~Active(w)' /\ pc'[w] = "off" /\ spilled'[w] = 0 /\ ~running'[w]
        /\ queue'[w] = <<>> /\ batch'[w] = <<>>
        /\ ToSet(queue'[w]) = {} /\ ToSet(batch'[w]) = {}
  BY <1>1, ToSetEmpty DEF Active, At
<1>3. \A w \in Workers : WorkerInv(w)'
  BY <1>2, IncreasingEmpty
     DEF WorkerInv, OffInv, SpillInv, WrittenInv, OrderInv, CopyInv, Loaded, At, Before, Flushing,
         UpTo, StoredUpTo
<1>4. AloneInv'
  BY <1>2 DEF IInv, AloneInv, Alone
<1>5. mishaps \in Nat /\ mishaps' \in 0..MaxMishaps
      /\ (\A r \in Records : copies[r] \in Nat) /\ file \in Seq(Records)
  BY <1>1, StoreAssumption DEF IInv, TypeOK, StoreAssumption
<1>6. TypeOK'
  <2>1. Memory \subseteq Records
    BY WorkerFacts DEF Memory, Held
  <2>2. gone' \subseteq Records
    BY <1>1, <2>1 DEF IInv, TypeOK
  <2>3. <<>> \in Seq(Records)
    OBVIOUS
  <2> QED
    BY <1>1, <1>5, <2>2, <2>3 DEF IInv, TypeOK, Labels
<1>7. Accounted'
  BY <1>1 DEF IInv, Accounted, Written
<1>8. StoredOnce' /\ NewInv'
  BY <1>1, <1>5 DEF IInv, StoredOnce, NewInv
<1>9. FileInv'
  <2>1. ToSet(file) \subseteq Records
    BY <1>5, ToSetIn
  <2> QED
    BY <1>1, <1>5, <2>1 DEF IInv, FileInv, StoredOnce, UpTo, StoredUpTo
<1> QED
  BY <1>3, <1>4, <1>6, <1>7, <1>8, <1>9 DEF IInv

LEMMA StepInv == IInv /\ [Next]_vars => IInv'
<1> SUFFICES ASSUME IInv, [Next]_vars PROVE IInv'
  OBVIOUS
<1>1. CASE UNCHANGED vars
  <2>1. UNCHANGED <<pc, running, queue, batch, spilled, storeVars, history>>
        /\ UNCHANGED <<current, asked, quit>>
    BY <1>1 DEF vars, workerVars
  <2> QED
    BY <2>1, QuietStep DEF IInv, TypeOK, AloneInv
<1>2. ASSUME NEW w \in Workers,
             \/ startWorkerThreads(w) \/ loadSpilledQueue(w)
             \/ flushStep(w) \/ flushFails(w) \/ stopStep(w) \/ quitThread(w)
      PROVE  IInv'
  BY <1>2, StartInv, LoadInv, FlushTimerInv, InsertInv, AcksInv, FlushFailsInv, StopInv, SaveInv, QuitInv
     DEF flushStep, stopStep
<1>3. ASSUME enqueue \/ stopPollingWithIntent \/ finalizeStop \/ forceFinalize \/ crash
      PROVE  IInv'
  BY <1>3, EnqueueInv, MainInv, CrashInv
<1> QED
  BY <1>1, <1>2, <1>3 DEF Next

-----------------------------------------------------------------------------
(* The theorems. *)

\* The queue, the batch, the file and the counters together: the invariant
\* that the others follow from.
THEOREM StoreInvariant == Alone /\ Spec => []IInv
BY InitInv, StepInv, PTL DEF Spec

\* Type correctness: what is queued, spilled or given up are readings, and the
\* copies stay within their bound.
THEOREM StoreTypeCorrect == Alone /\ Spec => []TypeOK
BY StoreInvariant, PTL DEF IInv

\* No reading disappears (DatabaseWorker::flush, requeue, loadSpilledQueue,
\* saveSpilledQueue), whatever fails and wherever the process dies.
THEOREM StoreAccounts == Alone /\ Spec => []Accounted
BY StoreInvariant, PTL DEF IInv

\* A reading is stored once, and once more for each crash (insertBatch before
\* the removal of the file) and each removal that fails.
THEOREM StoreStoresOnce == Alone /\ Spec => []StoredOnce
BY StoreInvariant, PTL DEF IInv

\* The readings in memory stay in the order they were accepted (requeue and
\* loadSpilledQueue put them at the front).
THEOREM StoreChronological == Alone /\ Spec => []Chronological
<1>1. IInv => Chronological
  <2> SUFFICES ASSUME IInv, NEW w \in Workers PROVE Increasing(batch[w] \o queue[w])
    BY DEF Chronological, Increasing
  <2>1. batch[w] \in Seq(Records) /\ queue[w] \in Seq(Records) /\ WorkerInv(w)
    BY WorkerFacts
  <2> QED
    BY <2>1, IncreasingConcat DEF WorkerInv, OrderInv
<1> QED
  BY <1>1, StoreInvariant, PTL

\* The first batch that is written accounts for the whole spill file (the
\* count of DatabaseWorker::flush never needs a second batch).
THEOREM StoreAcknowledges == Alone /\ Spec => []FlushAcknowledges
<1>1. IInv => FlushAcknowledges
  BY DEF IInv, WorkerInv, SpillInv, FlushAcknowledges, Loaded, Ahead, Flushing, At
<1> QED
  BY <1>1, StoreInvariant, PTL

\* The spill file is removed or replaced only when what it holds is in the
\* database, in the new file, or given up.
THEOREM StoreKeepsSpill == Alone /\ Spec => SpillKept
<1> DEFINE Kept == file' # file => ToSet(file) \subseteq (ToSet(file) \cup Written \cup gone)'
<1>1. IInv /\ [Next]_vars => [Kept]_vars
  <2> SUFFICES ASSUME IInv, Next, file' # file PROVE Kept
    OBVIOUS
  <2>1. PICK w \in Workers : flushAcks(w) \/ saveSpilledQueue(w)
    BY DEF Next, enqueue, stopPollingWithIntent, finalizeStop, forceFinalize, crash, startWorkerThreads,
           loadSpilledQueue, flushStep, onFlushTimer, insertBatch, flushFails, stopStep, stop, quitThread,
           storeVars
  <2>2. WorkerInv(w)
    BY WorkerFacts
  <2>3. CASE flushAcks(w)
    BY <2>2, <2>3
       DEF flushAcks, removeSpill, Step, WorkerInv, SpillInv, WrittenInv, Loaded, Ahead, Flushing, At, Written
  <2>4. CASE saveSpilledQueue(w)
    <3>1. file' = queue[w] /\ UNCHANGED <<copies, gone>> /\ At(w, "saving")
      BY <2>4 DEF saveSpilledQueue, Step
    <3>2. ToSet(file) \subseteq ToSet(queue[w]) \cup Written \cup gone
      BY <2>2, <3>1 DEF WorkerInv, SpillInv, Loaded, Ahead, Flushing, At
    <3> QED
      BY <3>1, <3>2 DEF Written
  <2> QED
    BY <2>1, <2>3, <2>4
<1> QED
  BY <1>1, StoreInvariant, PTL DEF Spec, SpillKept
-----------------------------------------------------------------------------
(* The sessions, with any number of workers on one file. *)

SessionInv ==
  /\ current \in Workers \cup {NoWorker}
  /\ pc \in [Workers -> Labels] /\ running \in [Workers -> BOOLEAN]
  /\ \A w \in Workers :
       /\ At(w, "off") \/ At(w, "saving") => ~running[w]
       /\ At(w, "off") => w \notin asked /\ w \notin quit
       /\ ~running[w] => w \notin asked
       /\ w \in quit => w # current

LEMMA SessionInit == Init => SessionInv /\ Session!Init
BY StoreAssumption DEF StoreAssumption, Init, SessionInv, Labels, At, SessionState, Session!Init

\* What the steps of a worker leave of its session.
LEMMA WorkerSession ==
  ASSUME SessionInv, NEW w \in Workers, UNCHANGED current,
         loadSpilledQueue(w) \/ flushStep(w) \/ flushFails(w) \/ stopStep(w) \/ quitThread(w)
  PROVE  SessionInv' /\ (UNCHANGED SessionState \/ Session!End(w))
<1>1. CASE \/ loadSpilledQueue(w) \/ flushStep(w) \/ flushFails(w)
  <2>1. /\ UNCHANGED <<asked, quit, running>>
        /\ ~At(w, "off") /\ ~At(w, "saving")
        /\ \E to \in {"idle", "flushing", "written", afterFlush(w)} : pc' = [pc EXCEPT ![w] = to]
    BY <1>1 DEF loadSpilledQueue, flushStep, onFlushTimer, flushTake, insertBatch, flushAcks, flushFails, Step, At
  <2>2. PICK to \in {"idle", "flushing", "written", afterFlush(w)} : pc' = [pc EXCEPT ![w] = to]
    BY <2>1
  <2>3. to \in Labels /\ to # "off" /\ (to = "saving" => ~running[w])
    BY DEF afterFlush, Labels
  <2>4. \A v \in Workers : pc'[v] = IF v = w THEN to ELSE pc[v]
    BY <2>2 DEF SessionInv
  <2>5. SessionInv'
    BY <2>1, <2>2, <2>3, <2>4 DEF SessionInv, At
  <2>6. UNCHANGED SessionState
    BY <2>1, <2>3, <2>4 DEF SessionState, At
  <2> QED
    BY <2>5, <2>6
<1>2. CASE stop(w)
  <2>1. /\ w \in asked /\ At(w, "idle") /\ UNCHANGED quit
        /\ asked' = asked \ {w} /\ running' = [running EXCEPT ![w] = FALSE]
        /\ \E to \in {"flushing", "saving"} : pc' = [pc EXCEPT ![w] = to]
    BY <1>2 DEF stop, flushTake, Step
  <2>2. PICK to \in {"flushing", "saving"} : pc' = [pc EXCEPT ![w] = to]
    BY <2>1
  <2>3. /\ \A v \in Workers : pc'[v] = IF v = w THEN to ELSE pc[v]
        /\ \A v \in Workers : running'[v] = IF v = w THEN FALSE ELSE running[v]
    BY <2>1, <2>2 DEF SessionInv
  <2>4. SessionInv'
    BY <2>1, <2>2, <2>3 DEF SessionInv, At, Labels
  <2>5. UNCHANGED SessionState
    BY <2>1, <2>3 DEF SessionState, At
  <2> QED
    BY <2>4, <2>5
<1>3. CASE saveSpilledQueue(w) \/ quitThread(w)
  <2>1. /\ pc' = [pc EXCEPT ![w] = "off"] /\ quit' = quit \ {w}
        /\ \/ At(w, "saving") /\ UNCHANGED <<asked, running>>
           \/ /\ w \in quit /\ At(w, "idle")
              /\ asked' = asked \ {w} /\ running' = [running EXCEPT ![w] = FALSE]
    BY <1>3 DEF saveSpilledQueue, quitThread, retire, Step
  <2>2. /\ \A v \in Workers : pc'[v] = IF v = w THEN "off" ELSE pc[v]
        /\ \A v \in Workers : running'[v] = IF v = w THEN FALSE ELSE running[v]
        /\ \A v \in Workers : v # w => (v \in asked' <=> v \in asked) /\ (v \in quit' <=> v \in quit)
        /\ w \notin asked' /\ w \notin quit' /\ running' \in [Workers -> BOOLEAN]
    BY <2>1 DEF SessionInv, At
  <2>3. SessionInv'
    BY <2>1, <2>2 DEF SessionInv, At, Labels
  <2>4. SessionState[w] \in {"asked", "quit"}
    BY <2>1 DEF SessionInv, SessionState, At
  <2>5. SessionState' = [SessionState EXCEPT ![w] = "off"]
    BY <2>2 DEF SessionState, At
  <2> QED
    BY <2>3, <2>4, <2>5 DEF Session!End
<1> QED
  BY <1>1, <1>2, <1>3 DEF stopStep

\* The steps of the main thread are those of a session.
LEMMA MainSession ==
  ASSUME SessionInv, stopPollingWithIntent \/ finalizeStop \/ forceFinalize
  PROVE  SessionInv' /\ (Session!Ask \/ Session!Forget)
<1> current \in Workers /\ NoWorker \notin Workers
  BY StoreAssumption DEF SessionInv, stopPollingWithIntent, finalizeStop, forceFinalize, StoreAssumption
<1>1. CASE stopPollingWithIntent
  <2>1. /\ UNCHANGED <<current, quit, pc, running>> /\ current \notin quit
        /\ asked' = asked \cup {current} /\ running[current] /\ ~At(current, "off") /\ current \notin asked
    BY <1>1 DEF stopPollingWithIntent, SessionInv
  <2>2. SessionInv'
    BY <2>1 DEF SessionInv, At
  <2>3. SessionState[current] = "on" /\ SessionState' = [SessionState EXCEPT ![current] = "asked"]
    BY <2>1 DEF SessionState, At
  <2> QED
    BY <2>1, <2>2, <2>3 DEF Session!Ask
<1>2. CASE finalizeStop
  <2>1. At(current, "off") /\ current' = NoWorker /\ UNCHANGED <<asked, quit, pc, running>>
    BY <1>2 DEF finalizeStop, workerVars
  <2>2. SessionInv' /\ SessionState[current] = "off" /\ UNCHANGED SessionState
    BY <2>1 DEF SessionInv, SessionState, At
  <2> QED
    BY <2>1, <2>2 DEF Session!Forget
<1>3. CASE forceFinalize
  <2>1. /\ "hang" \in Faults /\ ~At(current, "off") /\ (current \in asked \/ ~running[current])
        /\ current' = NoWorker /\ quit' = quit \cup {current} /\ UNCHANGED <<asked, pc, running>>
        /\ current \notin quit
    BY <1>3 DEF forceFinalize, SessionInv
  <2>2. SessionInv'
    BY <2>1 DEF SessionInv, At
  <2>3. SessionState[current] = "asked" /\ SessionState' = [SessionState EXCEPT ![current] = "quit"]
    BY <2>1 DEF SessionState, At
  <2> QED
    BY <2>1, <2>2, <2>3 DEF Session!Forget
<1> QED
  BY <1>1, <1>2, <1>3

LEMMA StartSession ==
  ASSUME SessionInv, NEW w \in Workers, startWorkerThreads(w)
  PROVE  SessionInv' /\ Session!Start(w)
<1>1. /\ current = NoWorker /\ current' = w /\ At(w, "off") /\ UNCHANGED <<asked, quit>>
      /\ pc' = [pc EXCEPT ![w] = "loading"] /\ running' = [running EXCEPT ![w] = TRUE]
      /\ w \notin asked /\ w \notin quit
  BY DEF startWorkerThreads, Step, SessionInv
<1>2. /\ \A v \in Workers : pc'[v] = IF v = w THEN "loading" ELSE pc[v]
      /\ \A v \in Workers : running'[v] = IF v = w THEN TRUE ELSE running[v]
  BY <1>1 DEF SessionInv
<1>3. SessionInv'
  BY <1>1, <1>2 DEF SessionInv, At, Labels
<1>4. SessionState[w] = "off" /\ SessionState' = [SessionState EXCEPT ![w] = "on"]
  <2>1. /\ pc'[w] = "loading" /\ running'[w] = TRUE
        /\ \A v \in Workers : v # w => pc'[v] = pc[v] /\ running'[v] = running[v]
    BY <1>2
  <2>2. SessionState[w] = "off" /\ SessionState'[w] = "on"
    BY <1>1, <2>1 DEF SessionState, At
  <2>3. \A v \in Workers : v # w => SessionState'[v] = SessionState[v]
    BY <1>1, <2>1 DEF SessionState, At
  <2>4. DOMAIN SessionState = Workers /\ DOMAIN SessionState' = Workers
    BY DEF SessionState
  <2>5. /\ SessionState = [v \in Workers |-> SessionState[v]]
        /\ SessionState' = [v \in Workers |-> SessionState'[v]]
    BY DEF SessionState
  <2> QED
    BY <2>2, <2>3, <2>4, <2>5
<1> QED
  BY <1>1, <1>3, <1>4 DEF Session!Start

LEMMA SessionStep ==
  ASSUME SessionInv, [Next]_vars
  PROVE  SessionInv' /\ [Session!Next]_(Session!sessionVars)
<1>1. CASE UNCHANGED vars \/ enqueue
  <2>1. UNCHANGED <<current, asked, quit, pc, running>>
    BY <1>1 DEF vars, workerVars, enqueue
  <2> QED
    BY <2>1 DEF SessionInv, At, SessionState, Session!sessionVars
<1>2. CASE stopPollingWithIntent \/ finalizeStop \/ forceFinalize
  BY <1>2, MainSession DEF Session!Next
<1>3. CASE crash
  <2>1. /\ current' = NoWorker /\ asked' = {} /\ quit' = {}
        /\ pc' = [w \in Workers |-> "off"] /\ running' = [w \in Workers |-> FALSE]
    BY <1>3 DEF crash
  <2>2. SessionInv'
    BY <2>1 DEF SessionInv, At, Labels
  <2>3. SessionState' = [w \in Workers |-> "off"]
    BY <2>1 DEF SessionState, At
  <2> QED
    BY <2>1, <2>2, <2>3 DEF Session!Next, Session!Die
<1>4. ASSUME NEW w \in Workers,
             \/ loadSpilledQueue(w) \/ flushStep(w) \/ flushFails(w) \/ stopStep(w) \/ quitThread(w)
      PROVE  SessionInv' /\ [Session!Next]_(Session!sessionVars)
  <2>1. UNCHANGED current
    BY <1>4 DEF loadSpilledQueue, flushStep, onFlushTimer, insertBatch, flushAcks, flushFails, stopStep, stop,
           saveSpilledQueue, quitThread
  <2> QED
    BY <1>4, <2>1, WorkerSession DEF Session!Next, Session!sessionVars
<1>5. ASSUME NEW w \in Workers, startWorkerThreads(w)
      PROVE  SessionInv' /\ [Session!Next]_(Session!sessionVars)
  BY <1>5, StartSession DEF Session!Next
<1> QED
  BY <1>1, <1>2, <1>3, <1>4, <1>5 DEF Next

\* The main thread of this module does with its workers what WorkerSessions
\* allows, and no more; MonitorLifecycleProofs shows the same of the
\* controller, whose behaviour towards the store this module stands for.
THEOREM StoreSessions == Spec => SessionKept
<1>1. SessionInv /\ [Next]_vars => SessionInv' /\ [Session!Next]_(Session!sessionVars)
  BY SessionStep
<1> QED
  BY <1>1, SessionInit, PTL DEF Spec, SessionKept, Session!Spec
=============================================================================
