------------------------ MODULE FileTransferProofs ------------------------
(***************************************************************************)
(* Theorems about FileTransfer, for every number of phones, chunks and     *)
(* objects and every bound on retries, rounds and faults: its own          *)
(* invariants first, then that it implements ObjectTransfer.               *)
(***************************************************************************)
EXTENDS FileTransfer, SequenceTheorems, FiniteSetTheorems, WellFoundedInduction, TLAPS

-----------------------------------------------------------------------------
(* Sets of numbers in ascending order. *)

LEMMA LeastExists ==
  ASSUME NEW S, S \subseteq Nat, S # {}
  PROVE  \E i \in S : \A j \in S : i <= j
<1>1. PICK i \in S : \A j \in S : ~ (<<j, i>> \in OpToRel(<, Nat))
  BY NatLessThanWellFounded, WFMin
<1>2. \A j \in S : ~(j < i)
  BY <1>1 DEF OpToRel
<1>. QED  BY <1>2

Below(S, i) == {j \in S : j < i}

\* Each place of the order is taken.
LEMMA NthExists ==
  ASSUME NEW S, S \subseteq Nat, IsFiniteSet(S)
  PROVE  \A k \in 1..Cardinality(S) : \E i \in S : Cardinality(Below(S, i)) = k - 1
<1> DEFINE Taken(n) == \E i \in S : Cardinality(Below(S, i)) = n - 1
           Free == {n \in 1..Cardinality(S) : ~Taken(n)}
<1>0. Cardinality(S) \in Nat
  BY FS_CardinalityType
<1>1. ASSUME Free # {} PROVE FALSE
  <2>1. Free \subseteq Nat
    BY <1>0
  <2>2. PICK m \in Free : \A n \in Free : m <= n
    BY <1>1, <2>1, LeastExists
  <2>3. m \in 1..Cardinality(S) /\ m \in Nat /\ ~Taken(m)
    BY <2>1, <2>2
  <2>4. \A n \in 1..Cardinality(S) : n < m => Taken(n)
    BY <1>0, <2>2, <2>3
  <2>. HIDE DEF Free
  <2>5. CASE m = 1
    <3>1. S # {}
      BY <1>0, <2>3, <2>5, FS_EmptySet
    <3>2. PICK i \in S : \A j \in S : i <= j
      BY <3>1, LeastExists
    <3>3. ASSUME NEW j \in Below(S, i) PROVE FALSE
      BY <3>2, <3>3 DEF Below
    <3>4. Below(S, i) = {}
      BY <3>3
    <3>5. Cardinality(Below(S, i)) = m - 1
      BY <2>5, <3>4, FS_EmptySet
    <3>. QED  BY <2>3, <3>5
  <2>6. CASE m > 1
    <3>1. m - 1 \in 1..Cardinality(S) /\ m - 1 < m
      BY <1>0, <2>3, <2>6
    <3>2. Taken(m - 1)
      BY <2>4, <3>1
    <3>3. PICK i \in S : Cardinality(Below(S, i)) = (m - 1) - 1
      BY <3>2
    <3> DEFINE C == Below(S, i) \cup {i}
    <3>4. Below(S, i) \in SUBSET S /\ i \notin Below(S, i)
      BY DEF Below
    <3>5. IsFiniteSet(Below(S, i))
      BY <3>4, FS_Subset
    <3>6. Cardinality(C) = m - 1
      <4>1. Cardinality(C) = Cardinality(Below(S, i)) + 1
        BY <3>4, <3>5, FS_AddElement
      <4>. QED  BY <2>3, <2>6, <3>3, <4>1
    <3>7. C # S
      BY <1>0, <2>3, <3>6
    <3>8. S \ C # {}
      BY <3>4, <3>7
    <3>9. PICK h \in S \ C : \A j \in S \ C : h <= j
      BY <3>8, LeastExists
    <3>10. ASSUME NEW j \in Below(S, h) PROVE j \in C
      <4>1. j \in S /\ j < h
        BY <3>10 DEF Below
      <4>. QED  BY <3>9, <4>1
    <3>11. ASSUME NEW j \in C PROVE j \in Below(S, h)
      <4>1. j \in S /\ j <= i
        BY <3>11 DEF Below
      <4>2. h # i /\ h \in S /\ ~(h < i)
        BY <3>9 DEF Below
      <4>3. j < h
        BY <4>1, <4>2
      <4>. QED  BY <4>1, <4>3 DEF Below
    <3>12. Below(S, h) = C
      BY <3>10, <3>11
    <3>. HIDE DEF C
    <3>. QED  BY <2>3, <3>6, <3>9, <3>12
  <2>. QED  BY <1>0, <2>3, <2>5, <2>6
<1>. QED  BY <1>1

LEMMA AscendingType ==
  ASSUME NEW S, S \subseteq Nat, IsFiniteSet(S)
  PROVE  /\ Cardinality(S) \in Nat
         /\ Ascending(S) \in [1..Cardinality(S) -> S]
<1>1. Cardinality(S) \in Nat
  BY FS_CardinalityType
<1>2. ASSUME NEW k \in 1..Cardinality(S)
      PROVE  (CHOOSE i \in S : Cardinality({j \in S : j < i}) = k - 1) \in S
  BY NthExists DEF Below
<1>. QED  BY <1>1, <1>2 DEF Ascending

LEMMA FunctionIsSeq ==
  ASSUME NEW T, NEW n \in Nat, NEW f \in [1..n -> T]
  PROVE  f \in Seq(T) /\ Len(f) = n
OBVIOUS

LEMMA Bounds ==
  /\ RetryMax \in Nat /\ RepairMax \in Nat /\ ResendMax \in Nat
  /\ MaxObjects \in Nat /\ MaxReports \in Nat /\ MaxFaults \in Nat
BY BoundAssumption

-----------------------------------------------------------------------------
(* The methods: what each keeps of the state of a phone. *)

Woken(a) == a.ready /\ a.queue # <<>> => a.active # None \/ "drain" \in a.timers

Answered(a) ==
  a.active # None =>
    "retry" \in a.timers \/ \E k \in DOMAIN a.commands : a.commands[k].current

Fields ==
  {"ready", "session", "active", "queue", "rx", "timers", "commands"}

\* b has the fields of a apart from those of changed.
Keeps(a, b, changed) == \A x \in Fields \ changed : b[x] = a[x]

LEMMA TimersType ==
  ASSUME NEW a \in App, NEW t \in Timer
  PROVE  /\ Arm(a, t) \in App /\ Keeps(a, Arm(a, t), {"timers"})
         /\ Arm(a, t).timers = a.timers \cup {t}
         /\ Disarm(a, t) \in App /\ Keeps(a, Disarm(a, t), {"timers"})
         /\ Disarm(a, t).timers = a.timers \ {t}
BY DEF App, Arm, Disarm, Keeps, Fields

LEMMA SendActiveType ==
  ASSUME NEW a \in App
  PROVE  /\ SendActiveFrame(a) \in App
         /\ Keeps(a, SendActiveFrame(a), {"active", "commands"})
         /\ SendActiveFrame(a).active = IF a.ready THEN a.active ELSE None
         /\ Answered(SendActiveFrame(a))
<1> DEFINE b == SendActiveFrame(a)
<1>1. CASE a.active = None
  BY <1>1 DEF SendActiveFrame, App, Keeps, Fields, Answered
<1>2. CASE a.active # None /\ ~a.ready
  BY <1>2 DEF SendActiveFrame, App, Keeps, Fields, Answered
<1>3. CASE a.active # None /\ a.ready
  <2> DEFINE stale == [k \in DOMAIN a.commands |-> [a.commands[k] EXCEPT !.current = FALSE]]
             new == [frame |-> a.active.frame, current |-> TRUE, status |-> "sent"]
             cs == Append(stale, new)
  <2>1. b = [a EXCEPT !.commands = cs]
    BY <1>3 DEF SendActiveFrame, App
  <2>2. a.commands \in Seq(Command) /\ a.active.frame \in Frame
    BY <1>3 DEF App, ActiveFrame
  <2>3. new \in Command /\ new.current
    BY <2>2 DEF Command
  <2>4. ASSUME NEW k \in DOMAIN a.commands
        PROVE  [a.commands[k] EXCEPT !.current = FALSE] \in Command
    <3>1. a.commands[k] \in Command
      BY <2>2
    <3>. QED  BY <3>1 DEF Command
  <2>5. stale \in Seq(Command)
    <3>1. DOMAIN a.commands = 1..Len(a.commands) /\ Len(a.commands) \in Nat
      BY <2>2
    <3>2. stale \in [1..Len(a.commands) -> Command]
      BY <2>4, <3>1
    <3>. QED  BY <3>1, <3>2, FunctionIsSeq
  <2>. HIDE DEF new, stale
  <2>6. cs \in Seq(Command) /\ Len(stale) + 1 \in DOMAIN cs /\ cs[Len(stale) + 1] = new
    <3>1. /\ cs \in Seq(Command) /\ Len(cs) = Len(stale) + 1
          /\ cs[Len(stale) + 1] = new
      BY <2>3, <2>5, AppendProperties
    <3>2. Len(stale) \in Nat /\ DOMAIN cs = 1..Len(cs)
      BY <2>5, <3>1
    <3>. QED  BY <3>1, <3>2
  <2>. HIDE DEF cs
  <2>7. b \in App /\ Keeps(a, b, {"active", "commands"}) /\ b.active = a.active /\ b.commands = cs
    BY <2>1, <2>6 DEF App, Keeps, Fields
  <2>. QED  BY <1>3, <2>3, <2>6, <2>7 DEF Answered
<1>. QED  BY <1>1, <1>2, <1>3 DEF App

LEMMA DrainType ==
  ASSUME NEW a \in App
  PROVE  /\ DrainTxQueue(a) \in App
         /\ Keeps(a, DrainTxQueue(a), {"active", "queue", "commands"})
         /\ Woken(DrainTxQueue(a))
         /\ Answered(a) => Answered(DrainTxQueue(a))
<1>1. CASE a.active # None \/ a.queue = <<>>
  BY <1>1 DEF DrainTxQueue, Keeps, Woken
<1>2. CASE a.active = None /\ a.queue # <<>>
  <2> DEFINE c == [a EXCEPT !.active = [frame |-> Head(a.queue), retries |-> 0],
                            !.queue = Tail(a.queue)]
  <2>1. a.queue \in Seq(Frame)
    BY DEF App
  <2>2. Head(a.queue) \in Frame /\ Tail(a.queue) \in Seq(Frame)
    BY <1>2, <2>1, HeadTailProperties
  <2>3. c \in App /\ Keeps(a, c, {"active", "queue", "commands"})
        /\ c.ready = a.ready /\ c.active # None
    <3>1. [frame |-> Head(a.queue), retries |-> 0] \in ActiveFrame
      BY <2>2, Bounds DEF ActiveFrame
    <3>2. c \in App
      BY <2>2, <3>1 DEF App
    <3>3. Keeps(a, c, {"active", "queue", "commands"})
      BY DEF App, Keeps, Fields
    <3>4. c.ready = a.ready /\ c.active # None
      BY <3>1, NoneAssumption DEF App
    <3>. QED  BY <3>2, <3>3, <3>4
  <2>4. DrainTxQueue(a) = SendActiveFrame(c)
    BY <1>2 DEF DrainTxQueue
  <2>. HIDE DEF c
  <2>5. /\ SendActiveFrame(c) \in App
        /\ Keeps(c, SendActiveFrame(c), {"active", "commands"})
        /\ SendActiveFrame(c).active = IF c.ready THEN c.active ELSE None
        /\ Answered(SendActiveFrame(c))
    BY <2>3, SendActiveType
  <2> DEFINE b == SendActiveFrame(c)
  <2>6. b \in App /\ Answered(b) /\ DrainTxQueue(a) = b
    BY <2>4, <2>5
  <2>7. Keeps(a, b, {"active", "queue", "commands"})
    BY <2>3, <2>5 DEF Keeps, Fields
  <2>8. Woken(b)
    BY <2>3, <2>5 DEF Keeps, Fields, Woken
  <2>. HIDE DEF b
  <2>. QED  BY <2>6, <2>7, <2>8
<1>. QED  BY <1>1, <1>2

LEMMA EnqueueType ==
  ASSUME NEW a \in App, NEW to \in Phone, NEW file \in Object, NEW name \in Name,
         NEW chunks \in SUBSET Chunk
  PROVE  /\ EnqueueFrame(a, to, file, name, chunks) \in App
         /\ Keeps(a, EnqueueFrame(a, to, file, name, chunks), {"queue"})
<1> DEFINE fr == [to |-> to, file |-> file, name |-> name, chunks |-> chunks]
<1>1. fr \in Frame /\ a.queue \in Seq(Frame)
  BY DEF Frame, App
<1>. HIDE DEF fr
<1>2. Append(a.queue, fr) \in Seq(Frame)
  BY <1>1, AppendProperties
<1>3. EnqueueFrame(a, to, file, name, chunks) = [a EXCEPT !.queue = Append(a.queue, fr)]
  BY DEF EnqueueFrame, fr, App
<1>4. [a EXCEPT !.queue = Append(a.queue, fr)] \in App
  BY <1>2 DEF App
<1>5. Keeps(a, [a EXCEPT !.queue = Append(a.queue, fr)], {"queue"})
  BY DEF App, Keeps, Fields
<1>. QED  BY <1>3, <1>4, <1>5

LEMMA ClearType ==
  ASSUME NEW a \in App, NEW f \in Object
  PROVE  /\ ClearQueuedFramesForFile(a, f) \in App
         /\ Keeps(a, ClearQueuedFramesForFile(a, f), {"queue"})
         /\ a.queue = <<>> => ClearQueuedFramesForFile(a, f).queue = <<>>
<1> DEFINE K == {k \in DOMAIN a.queue : a.queue[k].file # f}
           n == Cardinality(K)
           q == [k \in 1..n |-> a.queue[Ascending(K)[k]]]
<1>1. a.queue \in Seq(Frame) /\ DOMAIN a.queue = 1..Len(a.queue) /\ Len(a.queue) \in Nat
  BY DEF App
<1>2. K \in SUBSET (1..Len(a.queue)) /\ K \subseteq Nat
  BY <1>1
<1>3. IsFiniteSet(K)
  <2>1. IsFiniteSet(1..Len(a.queue))
    BY <1>1, FS_Interval
  <2>. HIDE DEF K
  <2>. QED  BY <1>2, <2>1, FS_Subset
<1>4. n \in Nat /\ Ascending(K) \in [1..n -> K]
  BY <1>2, <1>3, AscendingType
<1>5. q \in [1..n -> Frame]
  <2>1. ASSUME NEW k \in 1..n PROVE a.queue[Ascending(K)[k]] \in Frame
    <3>. HIDE DEF n, K
    <3>1. Ascending(K)[k] \in DOMAIN a.queue
      BY <1>1, <1>2, <1>4
    <3>. QED  BY <1>1, <3>1
  <2>. HIDE DEF n, K
  <2>. QED  BY <2>1
<1>6. ClearQueuedFramesForFile(a, f) = [a EXCEPT !.queue = q]
  BY <1>4 DEF ClearQueuedFramesForFile, App
<1>7. a.queue = <<>> => n = 0
  BY <1>1, <1>2, FS_EmptySet
<1>. HIDE DEF n, K
<1>8. q \in Seq(Frame) /\ Len(q) = n
  BY <1>4, <1>5, FunctionIsSeq
<1>. HIDE DEF q
<1>9. n = 0 => q = <<>>
  BY <1>8
<1>10. [a EXCEPT !.queue = q] \in App
  BY <1>8 DEF App
<1>11. Keeps(a, [a EXCEPT !.queue = q], {"queue"}) /\ [a EXCEPT !.queue = q].queue = q
  BY DEF App, Keeps, Fields
<1>. QED  BY <1>6, <1>7, <1>9, <1>10, <1>11

LEMMA EndType ==
  ASSUME NEW a \in App
  PROVE  /\ EndSession(a) \in App
         /\ Keeps(a, EndSession(a), {"session", "timers"})
         /\ EndSession(a).session = None
         /\ EndSession(a).timers = a.timers \ {"watchdog"}
<1>1. [a EXCEPT !.session = None] \in App
  BY DEF App
<1>2. /\ Keeps(a, [a EXCEPT !.session = None], {"session"})
      /\ [a EXCEPT !.session = None].session = None
  BY DEF App, Keeps, Fields
<1> DEFINE b == [a EXCEPT !.session = None]
<1>3. /\ Disarm(b, "watchdog") \in App /\ Keeps(b, Disarm(b, "watchdog"), {"timers"})
      /\ Disarm(b, "watchdog").timers = b.timers \ {"watchdog"}
  BY <1>1, TimersType DEF Timer
<1>4. EndSession(a) = Disarm(b, "watchdog")
  BY DEF EndSession
<1>. HIDE DEF b
<1>5. /\ Keeps(a, b, {"session"}) /\ b.session = None
  BY <1>2 DEF b
<1>. QED  BY <1>3, <1>4, <1>5 DEF Keeps, Fields

LEMMA MarkType ==
  ASSUME NEW a \in App, NEW fr \in Frame
  PROVE  /\ MarkFrameDelivered(a, fr) \in App
         /\ Keeps(a, MarkFrameDelivered(a, fr), {"session"})
<1> DEFINE s == a.session
<1>1. CASE s = None \/ s.file # fr.file
  BY <1>1 DEF MarkFrameDelivered, Keeps
<1>2. CASE ~(s = None \/ s.file # fr.file)
  <2>0. s \in SendSession
    BY <1>2 DEF App
  <2>1. CASE fr.name \in {"START", "DATA"} /\ s.initial > 0
    <3>1. MarkFrameDelivered(a, fr) = [a EXCEPT !.session.initial = @ - 1]
      BY <1>2, <2>1 DEF MarkFrameDelivered
    <3>2. s.initial - 1 \in 0..Cardinality(Chunk) + 1
      BY <2>0, <2>1, ChunkAssumption, FS_CardinalityType DEF SendSession
    <3>3. [s EXCEPT !.initial = @ - 1] \in SendSession
      BY <2>0, <3>2 DEF SendSession
    <3> DEFINE t == [s EXCEPT !.initial = @ - 1]
    <3>4. MarkFrameDelivered(a, fr) = [a EXCEPT !.session = t]
      BY <3>1 DEF App
    <3>. HIDE DEF t
    <3>5. [a EXCEPT !.session = t] \in App
      BY <3>3 DEF App, t
    <3>6. Keeps(a, [a EXCEPT !.session = t], {"session"})
      BY DEF App, Keeps, Fields
    <3>. QED  BY <3>4, <3>5, <3>6
  <2>2. CASE fr.name = "DATA_REPAIR" /\ s.repair > 0
    <3>1. MarkFrameDelivered(a, fr) = [a EXCEPT !.session.repair = @ - 1]
      BY <1>2, <2>2 DEF MarkFrameDelivered
    <3>2. s.repair - 1 \in Nat
      BY <2>0, <2>2 DEF SendSession
    <3>3. [s EXCEPT !.repair = @ - 1] \in SendSession
      BY <2>0, <3>2 DEF SendSession
    <3> DEFINE t == [s EXCEPT !.repair = @ - 1]
    <3>4. MarkFrameDelivered(a, fr) = [a EXCEPT !.session = t]
      BY <3>1 DEF App
    <3>. HIDE DEF t
    <3>5. [a EXCEPT !.session = t] \in App
      BY <3>3 DEF App, t
    <3>6. Keeps(a, [a EXCEPT !.session = t], {"session"})
      BY DEF App, Keeps, Fields
    <3>. QED  BY <3>4, <3>5, <3>6
  <2>3. CASE ~(fr.name \in {"START", "DATA"} /\ s.initial > 0)
             /\ ~(fr.name = "DATA_REPAIR" /\ s.repair > 0)
    BY <1>2, <2>3 DEF MarkFrameDelivered, Keeps
  <2>. QED  BY <2>1, <2>2, <2>3
<1>. QED  BY <1>1, <1>2

LEMMA ChunksCount ==
  ASSUME NEW chunks \in SUBSET Chunk
  PROVE  /\ chunks \subseteq Nat /\ IsFiniteSet(chunks)
         /\ Cardinality(chunks) \in Nat /\ Cardinality(chunks) <= Cardinality(Chunk)
         /\ Cardinality(Chunk) \in Nat
BY ChunkAssumption, FS_Subset, FS_CardinalityType

LEMMA EnqueueChunksType ==
  ASSUME NEW a \in App, a.session # None, NEW chunks \in SUBSET Chunk,
         NEW name \in {"DATA", "DATA_REPAIR"},
         name = "DATA" => a.session.initial = 1
  PROVE  /\ EnqueueChunks(a, chunks, name) \in App
         /\ Keeps(a, EnqueueChunks(a, chunks, name), {"queue", "session"})
         /\ EnqueueChunks(a, chunks, name).session # None
<1> DEFINE s == a.session
           n == Cardinality(chunks)
           order == Ascending(chunks)
           frames == [k \in 1..n |-> [to |-> s.to, file |-> s.file, name |-> name,
                                      chunks |-> {order[k]}]]
           q == a.queue \o frames
           i == IF name = "DATA" THEN s.initial + n ELSE s.initial
           r == IF name = "DATA" THEN s.repair ELSE s.repair + n
           t == [s EXCEPT !.initial = i, !.repair = r]
           b == [a EXCEPT !.queue = q, !.session = t]
<1>1. s \in SendSession /\ a.queue \in Seq(Frame)
  BY DEF App
<1>2. n \in Nat /\ n <= Cardinality(Chunk) /\ order \in [1..n -> chunks]
  BY ChunksCount, AscendingType
<1>3. frames \in Seq(Frame)
  <2>1. s.to \in Phone /\ s.file \in Object /\ name \in Name
    BY <1>1 DEF SendSession, Name
  <2>2. ASSUME NEW k \in 1..n
        PROVE  [to |-> s.to, file |-> s.file, name |-> name, chunks |-> {order[k]}] \in Frame
    <3>1. {order[k]} \in SUBSET Chunk
      BY <1>2
    <3>. HIDE DEF order, s
    <3>. QED  BY <2>1, <3>1 DEF Frame
  <2>3. frames \in [1..n -> Frame]
    BY <2>2
  <2>. HIDE DEF frames, n
  <2>. QED  BY <1>2, <2>3, FunctionIsSeq
<1>4. q \in Seq(Frame)
  <2>. HIDE DEF frames
  <2>. QED  BY <1>1, <1>3, ConcatProperties
<1>5. i \in 0..Cardinality(Chunk) + 1 /\ r \in Nat
  BY <1>1, <1>2, ChunksCount DEF SendSession
<1>6. EnqueueChunks(a, chunks, name) = b
  BY DEF EnqueueChunks, App
<1>. HIDE DEF q, i, r
<1>7. t \in SendSession
  BY <1>1, <1>5 DEF SendSession
<1>. HIDE DEF t
<1>8. b \in App
  BY <1>4, <1>7 DEF App
<1>9. Keeps(a, b, {"queue", "session"}) /\ b.session = t
  BY DEF App, Keeps, Fields
<1>. HIDE DEF b
<1>. QED  BY <1>6, <1>7, <1>8, <1>9, NoneAssumption

\* What starting a transfer leaves in a phone that was idle.
LEMMA StartType ==
  ASSUME NEW a \in App, NEW q \in Phone, NEW f \in Object, NEW skip \in SkipSets
  PROVE  /\ StartTransfer(a, q, f, skip) \in App
         /\ Woken(StartTransfer(a, q, f, skip))
         /\ Answered(a) => Answered(StartTransfer(a, q, f, skip))
<1> DEFINE t == [to |-> q, file |-> f, initial |-> 1, repair |-> 0, round |-> 0, resends |-> 0]
           opened == [a EXCEPT !.session = t]
           started == EnqueueFrame(opened, q, f, "START", {})
           cut == EnqueueChunks(started, Chunk \ skip, "DATA")
           armed == Arm(cut, "watchdog")
<1>1. t \in SendSession
  BY Bounds, ChunksCount DEF SendSession
<1>2. opened \in App /\ opened.session = t /\ Keeps(a, opened, {"session"})
  BY <1>1 DEF App, Keeps, Fields
<1>. HIDE DEF opened
<1>3. started \in App /\ Keeps(opened, started, {"queue"})
  BY <1>2, EnqueueType DEF Name
<1>4. started.session = t
  BY <1>2, <1>3 DEF Keeps, Fields
<1>. HIDE DEF started
<1>5. cut \in App /\ Keeps(started, cut, {"queue", "session"})
  BY <1>1, <1>3, <1>4, NoneAssumption, EnqueueChunksType
<1>. HIDE DEF cut
<1>6. armed \in App /\ Keeps(cut, armed, {"timers"}) /\ armed.timers = cut.timers \cup {"watchdog"}
  BY <1>5, TimersType DEF Timer
<1>7. StartTransfer(a, q, f, skip) = DrainTxQueue(armed)
  BY DEF StartTransfer, armed, cut, started, opened
<1>. HIDE DEF armed
<1>8. Answered(a) => Answered(armed)
  BY <1>2, <1>3, <1>5, <1>6 DEF Keeps, Fields, Answered
<1>. QED  BY <1>6, <1>7, <1>8, DrainType

\* b is as well off as a: it is typed, its frames move, its wait will end.
Follows(a, b) ==
  /\ b \in App
  /\ Woken(a) => Woken(b)
  /\ Answered(a) => Answered(b)

LEMMA FollowsBy ==
  ASSUME NEW a \in App, NEW b \in App,
         Keeps(a, b, {"session", "rx", "timers"}),
         {"drain", "retry"} \cap a.timers \subseteq b.timers
  PROVE  Follows(a, b)
BY DEF Follows, Keeps, Fields, Woken, Answered

LEMMA DrainFollows ==
  ASSUME NEW a \in App, NEW b \in App,
         Keeps(a, b, {"session", "rx", "timers", "queue"}),
         {"drain", "retry"} \cap a.timers \subseteq b.timers
  PROVE  Follows(a, DrainTxQueue(b))
<1>1. Answered(a) => Answered(b)
  BY DEF Keeps, Fields, Answered
<1>. QED  BY <1>1, DrainType DEF Follows

LEMMA RxType ==
  ASSUME NEW a \in App, NEW rx \in ReceiveSession
  PROVE  /\ [a EXCEPT !.rx = rx] \in App
         /\ [a EXCEPT !.rx = rx].rx = rx /\ rx # None
         /\ Keeps(a, [a EXCEPT !.rx = rx], {"rx"})
BY NoneAssumption DEF App, Keeps, Fields

LEMMA OnStartFollows ==
  ASSUME NEW a \in App, NEW src \in Phone, NEW fr \in Frame
  PROVE  Follows(a, OnStartFrame(a, src, fr))
<1> DEFINE rx == [src |-> src, file |-> fr.file, got |-> {}, completed |-> FALSE]
           b == [a EXCEPT !.rx = rx]
<1>1. rx \in ReceiveSession
  BY DEF ReceiveSession, Frame
<1>2. b \in App /\ Keeps(a, b, {"rx"})
  BY <1>1, RxType
<1>3. OnStartFrame(a, src, fr) = Arm(b, "report")
  BY DEF OnStartFrame
<1>. HIDE DEF b
<1>4. /\ Arm(b, "report") \in App /\ Keeps(b, Arm(b, "report"), {"timers"})
      /\ Arm(b, "report").timers = b.timers \cup {"report"}
  BY <1>2, TimersType DEF Timer
<1>5. /\ Keeps(a, Arm(b, "report"), {"session", "rx", "timers"})
      /\ a.timers \subseteq Arm(b, "report").timers
  BY <1>2, <1>4 DEF Keeps, Fields
<1>. QED  BY <1>3, <1>4, <1>5, FollowsBy

LEMMA SendReportType ==
  ASSUME NEW a \in App, a.rx # None
  PROVE  /\ SendReport(a) \in App /\ Keeps(a, SendReport(a), {"queue"})
<1>1. /\ a.rx.src \in Phone /\ a.rx.file \in Object /\ a.rx.got \in SUBSET Chunk
  BY DEF App, ReceiveSession
<1>. QED  BY <1>1, EnqueueType DEF SendReport, Name

LEMMA CompleteFollows ==
  ASSUME NEW a \in App, a.rx # None
  PROVE  Follows(a, CompleteReceive(a))
<1> DEFINE rx == [a.rx EXCEPT !.completed = TRUE]
           b == [a EXCEPT !.rx = rx]
           c == SendReport(b)
           d == EnqueueFrame(c, rx.src, rx.file, "DONE", {})
<1>1. rx \in ReceiveSession /\ rx.src \in Phone /\ rx.file \in Object
  BY DEF App, ReceiveSession
<1>2. b \in App /\ b.rx # None /\ Keeps(a, b, {"rx"})
  BY <1>1, RxType
<1>3. CompleteReceive(a) = DrainTxQueue(d)
  BY DEF CompleteReceive
<1>. HIDE DEF b, rx
<1>4. c \in App /\ Keeps(b, c, {"queue"})
  BY <1>2, SendReportType
<1>. HIDE DEF c
<1>5. d \in App /\ Keeps(c, d, {"queue"})
  BY <1>1, <1>4, EnqueueType DEF Name
<1>6. Keeps(a, d, {"session", "rx", "timers", "queue"}) /\ a.timers = d.timers
  BY <1>2, <1>4, <1>5 DEF Keeps, Fields
<1>. HIDE DEF d
<1>. QED  BY <1>3, <1>5, <1>6, DrainFollows

LEMMA OnDataFollows ==
  ASSUME NEW a \in App, NEW src \in Phone, NEW fr \in Frame
  PROVE  Follows(a, OnDataFrame(a, src, fr))
<1> DEFINE b == [a EXCEPT !.rx.got = @ \cup fr.chunks]
           n == Cardinality(b.rx.got)
           deaf == a.rx = None \/ a.rx.file # fr.file \/ a.rx.src # src \/ a.rx.completed
<1>1. CASE deaf
  <2>1. OnDataFrame(a, src, fr) = a
    BY <1>1 DEF OnDataFrame
  <2>. QED  BY <2>1 DEF Follows
<1>2. CASE ~deaf
  <2>1. a.rx \in ReceiveSession /\ fr.chunks \in SUBSET Chunk
    BY <1>2 DEF App, Frame
  <2> DEFINE rx == [a.rx EXCEPT !.got = @ \cup fr.chunks]
  <2>2. rx \in ReceiveSession
    BY <2>1 DEF ReceiveSession
  <2>3. b = [a EXCEPT !.rx = rx]
    BY DEF App
  <2>4. b \in App /\ b.rx # None /\ Keeps(a, b, {"rx"})
    BY <2>2, <2>3, RxType
  <2>5. \/ OnDataFrame(a, src, fr) = CompleteReceive(b)
        \/ OnDataFrame(a, src, fr) = Arm(b, "report")
        \/ OnDataFrame(a, src, fr) = b
    BY <1>2 DEF OnDataFrame
  <2>. HIDE DEF b
  <2>6. Follows(a, b) /\ Keeps(a, b, {"session", "rx", "timers"}) /\ a.timers = b.timers
    BY <2>4, FollowsBy DEF Keeps, Fields
  <2>7. Follows(a, CompleteReceive(b))
    BY <2>4, <2>6, CompleteFollows DEF Follows
  <2>8. Follows(a, Arm(b, "report"))
    <3>1. /\ Arm(b, "report") \in App /\ Keeps(b, Arm(b, "report"), {"timers"})
          /\ Arm(b, "report").timers = b.timers \cup {"report"}
      BY <2>4, TimersType DEF Timer
    <3>2. Keeps(a, Arm(b, "report"), {"session", "rx", "timers"})
      BY <2>6, <3>1 DEF Keeps, Fields
    <3>. QED  BY <2>6, <3>1, <3>2, FollowsBy
  <2>. QED  BY <2>5, <2>6, <2>7, <2>8
<1>. QED  BY <1>1, <1>2

LEMMA ClearEndFollows ==
  ASSUME NEW a \in App, NEW f \in Object
  PROVE  Follows(a, EndSession(ClearQueuedFramesForFile(a, f)))
<1> DEFINE b == ClearQueuedFramesForFile(a, f)
           c == EndSession(b)
<1>1. b \in App /\ Keeps(a, b, {"queue"}) /\ (a.queue = <<>> => b.queue = <<>>)
  BY ClearType
<1>. HIDE DEF b
<1>2. /\ c \in App /\ Keeps(b, c, {"session", "timers"}) /\ c.timers = b.timers \ {"watchdog"}
  BY <1>1, EndType
<1>. HIDE DEF c
<1>3. Woken(a) => Woken(c)
  BY <1>1, <1>2 DEF Woken, Keeps, Fields
<1>4. Answered(a) => Answered(c)
  BY <1>1, <1>2 DEF Answered, Keeps, Fields
<1>. QED  BY <1>2, <1>3, <1>4 DEF Follows, c, b

LEMMA OnReportFollows ==
  ASSUME NEW a \in App, NEW src \in Phone, NEW fr \in Frame
  PROVE  Follows(a, OnReportFrame(a, src, fr))
<1> DEFINE s == a.session
           cleared == ClearQueuedFramesForFile(a, fr.file)
           told == EnqueueFrame(cleared, src, fr.file, "DONE", {})
           ended == EndSession(told)
           t == [s EXCEPT !.round = @ + 1]
           next == [a EXCEPT !.session = t]
           repaired == EnqueueChunks(next, Missing(fr), "DATA_REPAIR")
           armed == Arm(repaired, "watchdog")
<1>0. fr.file \in Object /\ Missing(fr) \in SUBSET Chunk
  BY DEF Frame, Missing
<1>1. CASE s = None \/ s.file # fr.file \/ s.to # src
  BY <1>1 DEF OnReportFrame, Follows
<1>2. CASE ~(s = None \/ s.file # fr.file \/ s.to # src)
  <2>1. s \in SendSession
    BY <1>2 DEF App
  <2>2. CASE Missing(fr) = {}
    <3>1. cleared \in App /\ Keeps(a, cleared, {"queue"})
      BY <1>0, ClearType
    <3>2. OnReportFrame(a, src, fr) = DrainTxQueue(ended)
      BY <1>2, <2>2 DEF OnReportFrame
    <3>. HIDE DEF cleared
    <3>3. told \in App /\ Keeps(cleared, told, {"queue"})
      BY <1>0, <3>1, EnqueueType DEF Name
    <3>. HIDE DEF told
    <3>4. /\ ended \in App /\ Keeps(told, ended, {"session", "timers"})
          /\ ended.timers = told.timers \ {"watchdog"}
      BY <3>3, EndType
    <3>. HIDE DEF ended
    <3>5. Keeps(a, ended, {"session", "rx", "timers", "queue"})
          /\ {"drain", "retry"} \cap a.timers \subseteq ended.timers
      BY <3>1, <3>3, <3>4 DEF Keeps, Fields
    <3>. QED  BY <3>2, <3>4, <3>5, DrainFollows
  <2>3. CASE Missing(fr) # {} /\ (s.initial > 0 \/ s.repair > 0)
    <3>1. OnReportFrame(a, src, fr) = Arm(a, "watchdog")
      BY <1>2, <2>3 DEF OnReportFrame
    <3>2. /\ Arm(a, "watchdog") \in App /\ Keeps(a, Arm(a, "watchdog"), {"timers"})
          /\ Arm(a, "watchdog").timers = a.timers \cup {"watchdog"}
      BY TimersType DEF Timer
    <3>3. Keeps(a, Arm(a, "watchdog"), {"session", "rx", "timers"})
      BY <3>2 DEF Keeps, Fields
    <3>. QED  BY <3>1, <3>2, <3>3, FollowsBy
  <2>4. CASE Missing(fr) # {} /\ ~(s.initial > 0 \/ s.repair > 0) /\ s.round >= RepairMax
    <3>1. OnReportFrame(a, src, fr) = EndSession(cleared)
      BY <1>2, <2>4 DEF OnReportFrame
    <3>. QED  BY <1>0, <3>1, ClearEndFollows
  <2>5. CASE Missing(fr) # {} /\ ~(s.initial > 0 \/ s.repair > 0) /\ ~(s.round >= RepairMax)
    <3>1. s.round + 1 \in 0..RepairMax
      BY <2>1, <2>5, Bounds DEF SendSession
    <3>2. t \in SendSession
      BY <2>1, <3>1 DEF SendSession
    <3>3. [a EXCEPT !.session.round = @ + 1] = next
      BY DEF App
    <3>4. OnReportFrame(a, src, fr) = DrainTxQueue(armed)
      BY <1>2, <2>5, <3>3 DEF OnReportFrame
    <3>. HIDE DEF t
    <3>5. next \in App /\ next.session = t /\ Keeps(a, next, {"session"})
      BY <3>2 DEF App, Keeps, Fields
    <3>. HIDE DEF next
    <3>6. repaired \in App /\ Keeps(next, repaired, {"queue", "session"})
      BY <1>0, <3>2, <3>5, NoneAssumption, EnqueueChunksType
    <3>. HIDE DEF repaired
    <3>7. /\ armed \in App /\ Keeps(repaired, armed, {"timers"})
          /\ armed.timers = repaired.timers \cup {"watchdog"}
      BY <3>6, TimersType DEF Timer
    <3>. HIDE DEF armed
    <3>8. Keeps(a, armed, {"session", "rx", "timers", "queue"})
          /\ {"drain", "retry"} \cap a.timers \subseteq armed.timers
      BY <3>5, <3>6, <3>7 DEF Keeps, Fields
    <3>. QED  BY <3>4, <3>7, <3>8, DrainFollows
  <2>. QED  BY <2>2, <2>3, <2>4, <2>5
<1>. QED  BY <1>1, <1>2

LEMMA HandleFollows ==
  ASSUME NEW a \in App, NEW src \in Phone, NEW fr \in Frame
  PROVE  Follows(a, HandleFileEvent(a, src, fr))
<1>1. fr.file \in Object /\ fr.name \in Name
  BY DEF Frame
<1>2. Follows(a, OnDoneFrame(a, fr))
  BY <1>1, ClearEndFollows DEF OnDoneFrame, Follows
<1>3. \/ HandleFileEvent(a, src, fr) = OnStartFrame(a, src, fr)
      \/ HandleFileEvent(a, src, fr) = OnDataFrame(a, src, fr)
      \/ HandleFileEvent(a, src, fr) = OnReportFrame(a, src, fr)
      \/ HandleFileEvent(a, src, fr) = OnDoneFrame(a, fr)
  BY <1>1 DEF HandleFileEvent, Name
<1>. QED  BY <1>2, <1>3, OnStartFollows, OnDataFollows, OnReportFollows

-----------------------------------------------------------------------------
(* The steps: what each does to the phone that takes it. *)

\* p moves on to state b.
MovesTo(p, b) == app' = [app EXCEPT ![p] = b]

LEMMA InitType == Init => TypeOK /\ NoLostWakeup /\ FrameIsAnswered
<1>. SUFFICES ASSUME Init PROVE TypeOK /\ NoLostWakeup /\ FrameIsAnswered
  OBVIOUS
<1> DEFINE a == [ready |-> TRUE, session |-> None, active |-> None, queue |-> <<>>,
                 rx |-> None, timers |-> {}, commands |-> <<>>]
<1>1. a \in App
  BY DEF App
<1>2. app = [p \in Phone |-> a]
  BY DEF Init
<1>3. a.active = None /\ a.queue = <<>>
  OBVIOUS
<1>. HIDE DEF a
<1>4. TypeOK
  <2>1. app \in [Phone -> App] /\ air \in [Phone -> Frame \cup {None}]
    BY <1>1, <1>2 DEF Init
  <2>2. offered \in 0..MaxObjects /\ shown \in [Object -> Nat] /\ faults \in 0..MaxFaults
    BY Bounds DEF Init
  <2>3. /\ outcome \in [Object -> {"none", "sending", "completed", "failed"}]
        /\ orphaned \in BOOLEAN
    BY DEF Init
  <2>. QED  BY <2>1, <2>2, <2>3 DEF TypeOK
<1>5. \A p \in Phone : app[p].active = None /\ app[p].queue = <<>>
  BY <1>2, <1>3
<1>. QED  BY <1>4, <1>5 DEF NoLostWakeup, FrameIsAnswered

\* The session of a phone is on an object that was offered.
LEMMA SessionTyped ==
  ASSUME NEW a \in App, a.session # None
  PROVE  a.session \in SendSession /\ a.session.to \in Phone /\ a.session.file \in Object
BY DEF App, SendSession

LEMMA SendObjectMoves ==
  ASSUME TypeOK, NEW p \in Phone, NEW q \in Phone, SendObject(p, q)
  PROVE  /\ \E b : MovesTo(p, b) /\ Follows(app[p], b)
         /\ offered' \in 0..MaxObjects
         /\ outcome' \in [Object -> {"none", "sending", "completed", "failed"}]
         /\ UNCHANGED <<air, shown, faults, orphaned>>
<1>1. app[p] \in App /\ app \in [Phone -> App] /\ offered \in 0..MaxObjects
      /\ outcome \in [Object -> {"none", "sending", "completed", "failed"}]
  BY DEF TypeOK
<1>2. offered' = offered + 1 /\ offered < MaxObjects /\ UNCHANGED <<air, shown, faults, orphaned>>
      /\ \/ /\ app[p].ready /\ IsIdle(app[p])
            /\ \E skip \in SkipSets :
                 app' = [app EXCEPT ![p] = StartTransfer(@, q, offered + 1, skip)]
            /\ outcome' = [outcome EXCEPT ![offered + 1] = "sending"]
         \/ outcome' = [outcome EXCEPT ![offered + 1] = "failed"] /\ app' = app
  BY DEF SendObject
<1>3. offered' \in 0..MaxObjects /\ offered + 1 \in Object
  BY <1>1, <1>2, Bounds DEF Object
<1>4. outcome' \in [Object -> {"none", "sending", "completed", "failed"}]
  BY <1>1, <1>2
<1>5. \E b : MovesTo(p, b) /\ Follows(app[p], b)
  <2>1. CASE app' = app
    <3>1. MovesTo(p, app[p]) /\ Follows(app[p], app[p])
      BY <1>1, <2>1 DEF MovesTo, Follows
    <3>. QED  BY <3>1
  <2>2. CASE app' # app
    <3>1. PICK skip \in SkipSets : MovesTo(p, StartTransfer(app[p], q, offered + 1, skip))
      BY <1>2, <2>2 DEF MovesTo
    <3>2. Follows(app[p], StartTransfer(app[p], q, offered + 1, skip))
      BY <1>1, <1>3, StartType DEF Follows
    <3>. QED  BY <3>1, <3>2
  <2>. QED  BY <2>1, <2>2
<1>. QED  BY <1>2, <1>3, <1>4, <1>5

\* What taking the oldest answered command off the list keeps.
LEMMA RestType ==
  ASSUME NEW a \in App, a.commands # <<>>
  PROVE  LET rest == [a EXCEPT !.commands = Tail(@)]
             c    == Head(a.commands)
         IN  /\ c \in Command
             /\ rest \in App /\ Keeps(a, rest, {"commands"})
             /\ ~c.current \/ a.active = None => Follows(a, rest)
<1> DEFINE cs == a.commands
           rest == [a EXCEPT !.commands = Tail(cs)]
           c == Head(a.commands)
<1>1. cs \in Seq(Command) /\ cs # <<>>
  BY DEF App
<1>2. /\ Head(cs) \in Command /\ Tail(cs) \in Seq(Command) /\ Len(Tail(cs)) = Len(cs) - 1
      /\ \A i \in 1..Len(Tail(cs)) : Tail(cs)[i] = cs[i + 1]
      /\ Head(cs) = cs[1]
  BY <1>1, HeadTailProperties
<1>3. rest \in App /\ Keeps(a, rest, {"commands"}) /\ rest.commands = Tail(cs)
  BY <1>2 DEF App, Keeps, Fields
<1>4. ASSUME ~c.current, NEW k \in DOMAIN cs, cs[k].current
      PROVE  \E i \in DOMAIN Tail(cs) : Tail(cs)[i].current
  <2>1. k \in 1..Len(cs) /\ Len(cs) \in Nat /\ DOMAIN Tail(cs) = 1..Len(cs) - 1
    BY <1>1, <1>2
  <2>2. k # 1
    BY <1>2, <1>4
  <2>3. k - 1 \in 1..Len(Tail(cs)) /\ (k - 1) + 1 = k
    BY <1>2, <2>1, <2>2
  <2>4. Tail(cs)[k - 1] = cs[k]
    BY <1>2, <2>3
  <2>5. k - 1 \in DOMAIN Tail(cs)
    BY <1>2, <2>1, <2>3
  <2>6. Tail(cs)[k - 1].current
    BY <1>4, <2>4
  <2>. QED  BY <2>5, <2>6
<1>. HIDE DEF rest
<1>5. Woken(a) => Woken(rest)
  BY <1>3 DEF Woken, Keeps, Fields
<1>6. ASSUME ~c.current \/ a.active = None, Answered(a) PROVE Answered(rest)
  <2>1. rest.active = a.active /\ rest.timers = a.timers
    BY <1>3 DEF Keeps, Fields
  <2>2. CASE a.active = None
    BY <2>1, <2>2 DEF Answered
  <2>3. CASE a.active # None /\ ~c.current
    BY <1>3, <1>4, <1>6, <2>1, <2>3 DEF Answered
  <2>. QED  BY <1>6, <2>2, <2>3
<1>. QED  BY <1>2, <1>3, <1>5, <1>6 DEF Follows, rest

Verdicts == [Object -> {"none", "sending", "completed", "failed"}]

LEMMA ResponseMoves ==
  ASSUME TypeOK, NEW p \in Phone, HandleFileSendResponse(p)
  PROVE  /\ \E b : MovesTo(p, b) /\ Follows(app[p], b)
         /\ outcome' \in Verdicts
         /\ UNCHANGED <<air, offered, shown, faults, orphaned>>
<1> DEFINE a == app[p]
           c == Head(a.commands)
           rest == [a EXCEPT !.commands = Tail(a.commands)]
           done == [rest EXCEPT !.active = None]
           s == a.session
<1>1. a \in App /\ app \in [Phone -> App] /\ outcome \in Verdicts /\ a.commands # <<>>
  BY DEF TypeOK, Verdicts, HandleFileSendResponse
<1>2. UNCHANGED <<air, offered, shown, faults, orphaned>>
  BY DEF HandleFileSendResponse
<1>3. /\ c \in Command /\ rest \in App /\ Keeps(a, rest, {"commands"})
      /\ ~c.current \/ a.active = None => Follows(a, rest)
  BY <1>1, RestType
<1>4. /\ rest.active = a.active /\ rest.session = a.session
      /\ rest.timers = a.timers
  BY <1>3 DEF Keeps, Fields
<1>5. CASE ~c.current \/ a.active = None
  <2>1. app' = [app EXCEPT ![p] = rest] /\ outcome' = outcome
    BY <1>5 DEF HandleFileSendResponse
  <2>. HIDE DEF rest, a
  <2>. QED  BY <1>1, <1>2, <1>3, <1>5, <2>1 DEF MovesTo, a
<1>6. CASE c.current /\ a.active # None
  <2>0. done \in App /\ done.active = None /\ Keeps(rest, done, {"active"})
    BY <1>3 DEF App, Keeps, Fields
  <2>1. CASE c.status = "ok"
    <3> DEFINE m == MarkFrameDelivered(done, c.frame)
               b == Arm(m, "drain")
    <3>1. app' = [app EXCEPT ![p] = b] /\ outcome' = outcome
      BY <1>6, <2>1 DEF HandleFileSendResponse, Sent
    <3>2. c.frame \in Frame
      BY <1>3 DEF Command
    <3>. HIDE DEF done, c
    <3>3. m \in App /\ Keeps(done, m, {"session"})
      BY <2>0, <3>2, MarkType
    <3>. HIDE DEF m
    <3>4. b \in App /\ Keeps(m, b, {"timers"}) /\ b.timers = m.timers \cup {"drain"}
      BY <3>3, TimersType DEF Timer
    <3>. HIDE DEF b
    <3>5. Follows(a, b)
      BY <2>0, <3>3, <3>4 DEF Follows, Woken, Answered, Keeps, Fields
    <3>. QED  BY <1>1, <1>2, <3>1, <3>5 DEF MovesTo
  <2>2. CASE c.status = "busy" /\ MayRetry(a)
    <3> DEFINE f == [a.active EXCEPT !.retries = @ + 1]
               r == [rest EXCEPT !.active = f]
               b == Arm(r, "retry")
    <3>1. app' = [app EXCEPT ![p] = Arm([rest EXCEPT !.active.retries = @ + 1], "retry")]
          /\ outcome' = outcome
      BY <1>6, <2>2 DEF HandleFileSendResponse
    <3>2. [rest EXCEPT !.active.retries = @ + 1] = r
      BY <1>3, <1>4 DEF App
    <3>3. f \in ActiveFrame
      <4>1. a.active \in ActiveFrame /\ a.active.retries < RetryMax
        BY <1>1, <1>6, <2>2 DEF App, MayRetry
      <4>. QED  BY <4>1, Bounds DEF ActiveFrame
    <3>. HIDE DEF rest, f
    <3>4. r \in App /\ Keeps(rest, r, {"active"}) /\ r.active = f
      BY <1>3, <3>3 DEF App, Keeps, Fields
    <3>. HIDE DEF r
    <3>5. b \in App /\ Keeps(r, b, {"timers"}) /\ b.timers = r.timers \cup {"retry"}
      BY <3>4, TimersType DEF Timer
    <3>6. MovesTo(p, b)
      BY <3>1, <3>2 DEF MovesTo
    <3>. HIDE DEF b
    <3>7. b.active = f /\ f # None /\ "retry" \in b.timers
      BY <3>3, <3>4, <3>5, NoneAssumption DEF Keeps, Fields
    <3>8. Follows(a, b)
      BY <3>5, <3>7 DEF Follows, Woken, Answered
    <3>. QED  BY <1>1, <1>2, <3>1, <3>6, <3>8
  <2>3. CASE c.status # "ok" /\ ~(c.status = "busy" /\ MayRetry(a))
    <3>1. CASE s # None /\ s.file = c.frame.file
      <4> DEFINE e == [done EXCEPT !.queue = <<>>]
                 b == EndSession(e)
      <4>1. app' = [app EXCEPT ![p] = b] /\ outcome' = [outcome EXCEPT ![s.file] = "failed"]
        BY <1>6, <2>3, <3>1 DEF HandleFileSendResponse
      <4>. HIDE DEF done
      <4>2. e \in App /\ e.active = None /\ e.queue = <<>>
        <5>1. <<>> \in Seq(Frame)
          OBVIOUS
        <5>2. e \in App
          BY <2>0, <5>1 DEF App
        <5>3. e.queue = <<>> /\ e.active = done.active
          BY <2>0 DEF App
        <5>. QED  BY <2>0, <5>2, <5>3
      <4>. HIDE DEF e
      <4>3. b \in App /\ Keeps(e, b, {"session", "timers"})
        BY <4>2, EndType
      <4>. HIDE DEF b
      <4>4. b.active = None /\ b.queue = <<>>
        BY <4>2, <4>3 DEF Keeps, Fields
      <4>5. outcome' \in Verdicts
        BY <1>1, <4>1 DEF Verdicts
      <4>. QED  BY <1>2, <4>1, <4>3, <4>4, <4>5 DEF Follows, Woken, Answered, MovesTo
    <3>2. CASE ~(s # None /\ s.file = c.frame.file)
      <4>1. app' = [app EXCEPT ![p] = DrainTxQueue(done)] /\ outcome' = outcome
        BY <1>6, <2>3, <3>2 DEF HandleFileSendResponse
      <4>. HIDE DEF done
      <4>2. Answered(done)
        BY <2>0 DEF Answered
      <4>3. Follows(a, DrainTxQueue(done))
        BY <2>0, <4>2, DrainType DEF Follows
      <4>. QED  BY <1>1, <1>2, <4>1, <4>3 DEF MovesTo
    <3>. QED  BY <3>1, <3>2
  <2>. QED  BY <2>1, <2>2, <2>3
<1>. QED  BY <1>5, <1>6

LEMMA WatchdogMoves ==
  ASSUME TypeOK, NEW p \in Phone, OnSenderWatchdog(p)
  PROVE  /\ \E b : MovesTo(p, b) /\ Follows(app[p], b)
         /\ outcome' \in Verdicts
         /\ UNCHANGED <<air, offered, shown, faults, orphaned>>
<1> DEFINE z == app[p]
           a == Disarm(z, "watchdog")
           s == a.session
           t == [s EXCEPT !.resends = @ + 1]
           again == [a EXCEPT !.session = t]
           start == EnqueueFrame(again, s.to, s.file, "START_RETRY", {})
           cut == EnqueueChunks(start, Chunk, "DATA_REPAIR")
           armed == Arm(cut, "watchdog")
<1>1. z \in App /\ app \in [Phone -> App] /\ outcome \in Verdicts
  BY DEF TypeOK, Verdicts
<1>2. UNCHANGED <<air, offered, shown, faults, orphaned>>
  BY DEF OnSenderWatchdog
<1>3. /\ a \in App /\ Keeps(z, a, {"timers"}) /\ a.timers = z.timers \ {"watchdog"}
  BY <1>1, TimersType DEF Timer
<1>4. Follows(z, a)
  BY <1>3 DEF Follows, Woken, Answered, Keeps, Fields
<1>5. CASE s = None
  <2>1. app' = [app EXCEPT ![p] = a] /\ outcome' = outcome
    BY <1>5 DEF OnSenderWatchdog
  <2>. HIDE DEF a
  <2>. QED  BY <1>1, <1>2, <1>4, <2>1 DEF MovesTo
<1>6. CASE s # None /\ (a.active # None \/ a.queue # <<>>)
  <2>1. app' = [app EXCEPT ![p] = Arm(a, "watchdog")] /\ outcome' = outcome
    BY <1>6 DEF OnSenderWatchdog, WatchdogWaits
  <2>. HIDE DEF a
  <2>2. /\ Arm(a, "watchdog") \in App /\ Keeps(a, Arm(a, "watchdog"), {"timers"})
        /\ Arm(a, "watchdog").timers = a.timers \cup {"watchdog"}
    BY <1>3, TimersType DEF Timer
  <2>3. Follows(z, Arm(a, "watchdog"))
    BY <1>4, <2>2 DEF Follows, Woken, Answered, Keeps, Fields
  <2>. QED  BY <1>1, <1>2, <2>1, <2>3 DEF MovesTo
<1>7. CASE s # None /\ a.active = None /\ a.queue = <<>> /\ s.resends >= ResendMax
  <2>1. app' = [app EXCEPT ![p] = EndSession(a)] /\ outcome' = [outcome EXCEPT ![s.file] = "failed"]
    BY <1>7 DEF OnSenderWatchdog
  <2>. HIDE DEF a
  <2>2. /\ EndSession(a) \in App /\ Keeps(a, EndSession(a), {"session", "timers"})
        /\ EndSession(a).timers = a.timers \ {"watchdog"}
    BY <1>3, EndType
  <2>3. Follows(z, EndSession(a))
    BY <1>4, <2>2 DEF Follows, Woken, Answered, Keeps, Fields
  <2>4. outcome' \in Verdicts
    BY <1>1, <2>1 DEF Verdicts
  <2>. QED  BY <1>2, <2>1, <2>3, <2>4 DEF MovesTo
<1>8. CASE s # None /\ a.active = None /\ a.queue = <<>> /\ ~(s.resends >= ResendMax)
  <2>1. s \in SendSession /\ s.to \in Phone /\ s.file \in Object
    BY <1>3, <1>8, SessionTyped
  <2>2. s.resends + 1 \in 0..ResendMax
    BY <1>8, <2>1, Bounds DEF SendSession
  <2>. HIDE DEF a
  <2>3. t \in SendSession
    BY <2>1, <2>2 DEF SendSession
  <2>4. [a EXCEPT !.session.resends = @ + 1] = again
    BY <1>3 DEF App
  <2>5. app' = [app EXCEPT ![p] = DrainTxQueue(armed)] /\ outcome' = outcome
    BY <1>8, <2>4 DEF OnSenderWatchdog, a
  <2>. HIDE DEF t
  <2>6. again \in App /\ again.session = t /\ Keeps(a, again, {"session"})
    BY <1>3, <2>3 DEF App, Keeps, Fields
  <2>. HIDE DEF again, s
  <2>7. start \in App /\ Keeps(again, start, {"queue"})
    BY <2>1, <2>6, EnqueueType DEF Name
  <2>8. start.session # None
    BY <2>3, <2>6, <2>7, NoneAssumption DEF Keeps, Fields
  <2>. HIDE DEF start
  <2>9. cut \in App /\ Keeps(start, cut, {"queue", "session"})
    BY <2>7, <2>8, EnqueueChunksType
  <2>. HIDE DEF cut
  <2>10. /\ armed \in App /\ Keeps(cut, armed, {"timers"})
         /\ armed.timers = cut.timers \cup {"watchdog"}
    BY <2>9, TimersType DEF Timer
  <2>. HIDE DEF armed
  <2>11. /\ Keeps(z, armed, {"session", "rx", "timers", "queue"})
         /\ {"drain", "retry"} \cap z.timers \subseteq armed.timers
    BY <1>3, <2>6, <2>7, <2>9, <2>10 DEF Keeps, Fields
  <2>12. Follows(z, DrainTxQueue(armed))
    BY <1>1, <2>10, <2>11, DrainFollows
  <2>. QED  BY <1>1, <1>2, <2>5, <2>12 DEF MovesTo
<1>. QED  BY <1>5, <1>6, <1>7, <1>8

LEMMA RunMoves ==
  ASSUME TypeOK, NEW p \in Phone, RunDrain(p) \/ RunRetry(p)
  PROVE  /\ \E b : MovesTo(p, b) /\ Follows(app[p], b)
         /\ UNCHANGED <<air, offered, outcome, shown, faults, orphaned>>
<1> DEFINE z == app[p]
<1>1. z \in App /\ app \in [Phone -> App]
  BY DEF TypeOK
<1>2. UNCHANGED <<air, offered, outcome, shown, faults, orphaned>>
  BY DEF RunDrain, RunRetry
<1>3. CASE RunDrain(p)
  <2> DEFINE a == Disarm(z, "drain")
  <2>1. app' = [app EXCEPT ![p] = DrainTxQueue(a)]
    BY <1>3 DEF RunDrain
  <2>2. /\ a \in App /\ Keeps(z, a, {"timers"}) /\ a.timers = z.timers \ {"drain"}
    BY <1>1, TimersType DEF Timer
  <2>. HIDE DEF a
  <2>3. Answered(z) => Answered(a)
    BY <2>2 DEF Answered, Keeps, Fields
  <2>4. Follows(z, DrainTxQueue(a))
    BY <2>2, <2>3, DrainType DEF Follows
  <2>. QED  BY <1>2, <2>1, <2>4 DEF MovesTo
<1>4. CASE RunRetry(p)
  <2> DEFINE a == Disarm(z, "retry")
             b == SendActiveFrame(a)
  <2>1. app' = [app EXCEPT ![p] = b]
    BY <1>4 DEF RunRetry
  <2>2. /\ a \in App /\ Keeps(z, a, {"timers"}) /\ a.timers = z.timers \ {"retry"}
    BY <1>1, TimersType DEF Timer
  <2>. HIDE DEF a
  <2>3. /\ b \in App /\ Keeps(a, b, {"active", "commands"})
        /\ b.active = IF a.ready THEN a.active ELSE None
        /\ Answered(b)
    BY <2>2, SendActiveType
  <2>. HIDE DEF b
  <2>4. Woken(z) => Woken(b)
    BY <2>2, <2>3 DEF Woken, Keeps, Fields
  <2>. QED  BY <1>2, <2>1, <2>3, <2>4 DEF MovesTo, Follows
<1>. QED  BY <1>3, <1>4

LEMMA ReportMoves ==
  ASSUME TypeOK, NEW p \in Phone, SendPendingReport(p)
  PROVE  /\ \E b : MovesTo(p, b) /\ Follows(app[p], b)
         /\ UNCHANGED <<air, offered, outcome, shown, faults, orphaned>>
<1> DEFINE z == app[p]
           a == Disarm(z, "report")
           b == SendReport(a)
           c == Arm(b, "report")
<1>1. z \in App /\ app \in [Phone -> App]
  BY DEF TypeOK
<1>2. UNCHANGED <<air, offered, outcome, shown, faults, orphaned>>
  BY DEF SendPendingReport
<1>3. /\ a \in App /\ Keeps(z, a, {"timers"}) /\ a.timers = z.timers \ {"report"}
  BY <1>1, TimersType DEF Timer
<1>4. CASE a.rx = None
  <2>1. app' = [app EXCEPT ![p] = a]
    BY <1>4 DEF SendPendingReport
  <2>. HIDE DEF a
  <2>2. Follows(z, a)
    BY <1>3 DEF Follows, Woken, Answered, Keeps, Fields
  <2>. QED  BY <1>2, <2>1, <2>2 DEF MovesTo
<1>5. CASE a.rx # None
  <2>1. \/ app' = [app EXCEPT ![p] = DrainTxQueue(c)]
        \/ app' = [app EXCEPT ![p] = DrainTxQueue(b)]
    <3>1. CASE a.rx.got # Chunk
      BY <1>5, <3>1 DEF SendPendingReport
    <3>2. CASE a.rx.got = Chunk
      BY <1>5, <3>2 DEF SendPendingReport
    <3>. QED  BY <3>1, <3>2
  <2>. HIDE DEF a
  <2>2. b \in App /\ Keeps(a, b, {"queue"})
    BY <1>3, <1>5, SendReportType
  <2>. HIDE DEF b
  <2>3. /\ c \in App /\ Keeps(b, c, {"timers"}) /\ c.timers = b.timers \cup {"report"}
    BY <2>2, TimersType DEF Timer
  <2>. HIDE DEF c
  <2>4. /\ Keeps(z, b, {"session", "rx", "timers", "queue"})
        /\ {"drain", "retry"} \cap z.timers \subseteq b.timers
    BY <1>3, <2>2 DEF Keeps, Fields
  <2>5. /\ Keeps(z, c, {"session", "rx", "timers", "queue"})
        /\ {"drain", "retry"} \cap z.timers \subseteq c.timers
    BY <2>3, <2>4 DEF Keeps, Fields
  <2>6. Follows(z, DrainTxQueue(b)) /\ Follows(z, DrainTxQueue(c))
    BY <1>1, <2>2, <2>3, <2>4, <2>5, DrainFollows
  <2>. QED  BY <1>2, <2>1, <2>6 DEF MovesTo
<1>. QED  BY <1>4, <1>5

LEMMA AnswerFollows ==
  ASSUME NEW a \in App, NEW k \in DOMAIN a.commands,
         NEW status \in {"sent", "ok", "busy", "refused"}
  PROVE  Follows(a, [a EXCEPT !.commands[k].status = status])
<1> DEFINE cs == a.commands
           d == [cs[k] EXCEPT !.status = status]
           ds == [cs EXCEPT ![k] = d]
           b == [a EXCEPT !.commands = ds]
<1>1. cs \in Seq(Command) /\ Len(cs) \in Nat /\ DOMAIN cs = 1..Len(cs)
  BY DEF App
<1>2. cs[k] \in Command
  BY <1>1
<1>3. d \in Command /\ (cs[k].current => d.current)
  BY <1>2 DEF Command
<1>4. [a EXCEPT !.commands[k].status = status] = b
  BY DEF App
<1>. HIDE DEF d
<1>5. /\ ds \in [1..Len(cs) -> Command] /\ DOMAIN ds = DOMAIN cs
      /\ \A i \in DOMAIN cs : i # k => ds[i] = cs[i]
      /\ ds[k] = d
  BY <1>1, <1>3
<1>. HIDE DEF ds
<1>6. ds \in Seq(Command)
  BY <1>1, <1>5, FunctionIsSeq
<1>7. b \in App /\ Keeps(a, b, {"commands"}) /\ b.commands = ds
  BY <1>6 DEF App, Keeps, Fields
<1>. HIDE DEF b
<1>8. ASSUME NEW i \in DOMAIN cs, cs[i].current PROVE ds[i].current
  <2>1. CASE i = k
    BY <1>3, <1>5, <1>8, <2>1
  <2>2. CASE i # k
    BY <1>5, <1>8, <2>2, Zenon
  <2>. QED  BY <2>1, <2>2
<1>9. Woken(a) => Woken(b)
  BY <1>7 DEF Woken, Keeps, Fields
<1>10. Answered(a) => Answered(b)
  <2>1. b.active = a.active /\ b.timers = a.timers
    BY <1>7 DEF Keeps, Fields
  <2>. QED  BY <1>5, <1>7, <1>8, <2>1 DEF Answered
<1>. QED  BY <1>4, <1>7, <1>9, <1>10 DEF Follows

LEMMA HappensType ==
  ASSUME faults \in 0..MaxFaults, orphaned \in BOOLEAN, NEW fault, Happens(fault)
  PROVE  /\ faults' \in 0..MaxFaults
         /\ orphaned' \in BOOLEAN /\ (orphaned => orphaned')
         /\ fault \in {"drop", "unbind"} => orphaned'
<1>1. faults' \in 0..MaxFaults
  BY Bounds DEF Happens
<1>2. orphaned' = (orphaned \/ fault \in {"drop", "unbind"})
  BY DEF Happens
<1>. QED  BY <1>1, <1>2

LEMMA AnswersMoves ==
  ASSUME TypeOK, NEW p \in Phone, PendantAnswers(p)
  PROVE  /\ \E b : MovesTo(p, b) /\ Follows(app[p], b)
         /\ air' \in [Phone -> Frame \cup {None}]
         /\ faults' \in 0..MaxFaults
         /\ orphaned' \in BOOLEAN /\ (orphaned => orphaned')
         /\ UNCHANGED <<offered, outcome, shown>>
<1> DEFINE a == app[p]
           waiting == {k \in DOMAIN a.commands : a.commands[k].status = "sent"}
           w == CHOOSE i \in waiting : \A j \in waiting : i <= j
<1>1. /\ a \in App /\ app \in [Phone -> App] /\ air \in [Phone -> Frame \cup {None}]
      /\ faults \in 0..MaxFaults /\ orphaned \in BOOLEAN
  BY DEF TypeOK
<1>2. UNCHANGED <<offered, outcome, shown>>
  BY DEF PendantAnswers
<1>3. w \in DOMAIN a.commands /\ a.commands[w] \in Command
  <2>1. a.commands \in Seq(Command) /\ DOMAIN a.commands = 1..Len(a.commands)
    BY <1>1 DEF App
  <2>2. waiting \subseteq Nat /\ waiting # {}
    BY <2>1 DEF PendantAnswers
  <2>3. w \in waiting
    BY <2>2, LeastExists
  <2>. HIDE DEF w
  <2>4. w \in DOMAIN a.commands
    BY <2>3
  <2>. QED  BY <2>1, <2>4
<1>4. \/ app' = Answer(p, w, "ok") /\ air' = [air EXCEPT ![p] = a.commands[w].frame]
         /\ UNCHANGED <<faults, orphaned>>
      \/ app' = Answer(p, w, "busy") /\ UNCHANGED <<air, faults, orphaned>>
      \/ app' = Answer(p, w, "refused") /\ UNCHANGED air /\ Happens("refusal")
  BY DEF PendantAnswers
<1>. HIDE DEF w
<1>5. PICK status \in {"ok", "busy", "refused"} : app' = Answer(p, w, status)
  BY <1>4
<1>6. MovesTo(p, [a EXCEPT !.commands[w].status = status])
  BY <1>5, Zenon DEF Answer, MovesTo
<1>7. Follows(a, [a EXCEPT !.commands[w].status = status])
  BY <1>1, <1>3, AnswerFollows
<1>8. a.commands[w].frame \in Frame
  BY <1>3 DEF Command
<1>9. air' \in [Phone -> Frame \cup {None}]
  <2>. HIDE DEF a
  <2>. QED  BY <1>1, <1>4, <1>8
<1>10. faults' \in 0..MaxFaults /\ orphaned' \in BOOLEAN /\ (orphaned => orphaned')
  <2>1. UNCHANGED <<faults, orphaned>> \/ Happens("refusal")
    BY <1>4
  <2>. QED  BY <1>1, <2>1, HappensType
<1>. HIDE DEF a
<1>. QED  BY <1>2, <1>6, <1>7, <1>9, <1>10 DEF a

LEMMA DropMoves ==
  ASSUME TypeOK, NEW p \in Phone, DropCommand(p) \/ UnbindDevice(p)
  PROVE  /\ \E b : MovesTo(p, b) /\ b \in App /\ (Woken(app[p]) => Woken(b))
         /\ faults' \in 0..MaxFaults /\ orphaned'
         /\ UNCHANGED <<air, offered, outcome, shown>>
<1> DEFINE a == app[p]
           cs == a.commands
<1>1. /\ a \in App /\ app \in [Phone -> App] /\ faults \in 0..MaxFaults
  BY DEF TypeOK
<1>2. UNCHANGED <<air, offered, outcome, shown>>
  BY DEF DropCommand, UnbindDevice
<1>3. faults' \in 0..MaxFaults /\ orphaned'
  <2>1. Happens("drop") \/ Happens("unbind")
    BY DEF DropCommand, UnbindDevice
  <2>. QED  BY <1>1, <2>1, HappensType DEF TypeOK
<1>4. cs \in Seq(Command) /\ Len(cs) \in Nat /\ DOMAIN cs = 1..Len(cs)
  BY <1>1 DEF App
<1>5. CASE DropCommand(p)
  <2>1. PICK k \in DOMAIN cs : app' = [app EXCEPT ![p].commands = RemoveAt(@, k)]
    BY <1>5 DEF DropCommand
  <2> DEFINE ds == RemoveAt(cs, k)
             b == [a EXCEPT !.commands = ds]
  <2>2. ds \in Seq(Command)
    <3>1. k \in Nat /\ k >= 1 /\ k <= Len(cs)
      BY <1>4
    <3>2. \A i \in 1..Len(cs) : cs[i] \in Command
      BY <1>4
    <3>3. k - 1 \in Int /\ k + 1 \in Int /\ Len(cs) \in Int /\ 1 \in Int
      BY <1>4, <3>1
    <3>4. SubSeq(cs, 1, k - 1) \in Seq(Command)
      BY <1>4, <3>1, <3>2, <3>3, SubSeqProperties
    <3>5. SubSeq(cs, k + 1, Len(cs)) \in Seq(Command)
      BY <1>4, <3>1, <3>2, <3>3, SubSeqProperties
    <3>. QED  BY <3>4, <3>5, ConcatProperties DEF RemoveAt
  <2>. HIDE DEF ds
  <2>3. b \in App /\ Keeps(a, b, {"commands"})
    BY <1>1, <2>2 DEF App, Keeps, Fields
  <2>4. MovesTo(p, b)
    BY <2>1 DEF MovesTo, ds
  <2>. HIDE DEF b
  <2>5. Woken(a) => Woken(b)
    BY <2>3 DEF Woken, Keeps, Fields
  <2>. QED  BY <1>2, <1>3, <2>3, <2>4, <2>5
<1>6. CASE UnbindDevice(p)
  <2> DEFINE b == [a EXCEPT !.ready = FALSE, !.commands = <<>>]
  <2>1. MovesTo(p, b)
    BY <1>1, <1>6 DEF UnbindDevice, MovesTo
  <2>2. <<>> \in Seq(Command)
    OBVIOUS
  <2>3. b \in App /\ ~b.ready
    BY <1>1, <2>2 DEF App
  <2>. HIDE DEF b
  <2>. QED  BY <1>2, <1>3, <2>1, <2>3 DEF Woken
<1>. QED  BY <1>5, <1>6

LEMMA DeliverMoves ==
  ASSUME TypeOK, NEW p \in Phone, Deliver(p)
  PROVE  /\ air[p] \in Frame /\ air[p].to \in Phone
         /\ MovesTo(air[p].to, HandleFileEvent(app[air[p].to], p, air[p]))
         /\ Follows(app[air[p].to], HandleFileEvent(app[air[p].to], p, air[p]))
         /\ air' \in [Phone -> Frame \cup {None}] /\ outcome' \in Verdicts
         /\ shown' \in [Object -> Nat]
         /\ faults' \in 0..MaxFaults
         /\ orphaned' \in BOOLEAN /\ (orphaned => orphaned')
         /\ UNCHANGED offered
<1> DEFINE fr == air[p]
           q == fr.to
           before == app[q]
           after == HandleFileEvent(before, p, fr)
<1>1. /\ app \in [Phone -> App] /\ air \in [Phone -> Frame \cup {None}]
      /\ faults \in 0..MaxFaults /\ orphaned \in BOOLEAN
      /\ outcome \in Verdicts /\ shown \in [Object -> Nat]
  BY DEF TypeOK, Verdicts
<1>2. fr \in Frame /\ q \in Phone /\ fr.file \in Object
  BY <1>1 DEF Deliver, Frame
<1>3. Follows(before, after)
  BY <1>1, <1>2, HandleFollows
<1>4. /\ app' = [app EXCEPT ![q] = after]
      /\ shown' = IF Completes(before, p, fr) THEN [shown EXCEPT ![fr.file] = @ + 1] ELSE shown
      /\ outcome' = IF before.session # None /\ after.session = None
                    THEN [outcome EXCEPT ![fr.file] = Verdict(before, fr)] ELSE outcome
      /\ \/ air' = [air EXCEPT ![p] = None] /\ UNCHANGED <<faults, orphaned>>
         \/ Happens("repeat") /\ UNCHANGED air
      /\ UNCHANGED offered
  BY DEF Deliver
<1>. HIDE DEF after, before, q
<1>5. air' \in [Phone -> Frame \cup {None}]
  BY <1>1, <1>4
<1>6. shown' \in [Object -> Nat]
  BY <1>1, <1>2, <1>4
<1>7. outcome' \in Verdicts
  BY <1>1, <1>2, <1>4 DEF Verdicts, Verdict
<1>8. faults' \in 0..MaxFaults /\ orphaned' \in BOOLEAN /\ (orphaned => orphaned')
  <2>1. UNCHANGED <<faults, orphaned>> \/ Happens("repeat")
    BY <1>4
  <2>. QED  BY <1>1, <2>1, HappensType
<1>. QED  BY <1>2, <1>3, <1>4, <1>5, <1>6, <1>7, <1>8 DEF MovesTo, after, before, q

LEMMA LinkMoves ==
  ASSUME TypeOK, NEW p \in Phone, LinkLost(p) \/ LinkUp(p)
  PROVE  /\ \E b : MovesTo(p, b) /\ Follows(app[p], b)
         /\ outcome' \in Verdicts
         /\ faults' \in 0..MaxFaults
         /\ orphaned' \in BOOLEAN /\ (orphaned => orphaned')
         /\ UNCHANGED <<air, offered, shown>>
<1> DEFINE a == app[p]
<1>1. /\ a \in App /\ app \in [Phone -> App] /\ faults \in 0..MaxFaults
      /\ orphaned \in BOOLEAN /\ outcome \in Verdicts
  BY DEF TypeOK, Verdicts
<1>2. UNCHANGED <<air, offered, shown>>
  BY DEF LinkLost, LinkUp
<1>3. faults' \in 0..MaxFaults /\ orphaned' \in BOOLEAN /\ (orphaned => orphaned')
  <2>1. UNCHANGED <<faults, orphaned>> \/ Happens("loss")
    BY DEF LinkLost, LinkUp
  <2>. QED  BY <1>1, <2>1, HappensType
<1>4. CASE LinkLost(p)
  <2> DEFINE c == [a EXCEPT !.ready = FALSE, !.active = None, !.queue = <<>>, !.commands = <<>>]
             b == EndSession(c)
  <2>1. /\ app' = [app EXCEPT ![p] = b]
        /\ outcome' = IF a.session = None THEN outcome
                      ELSE [outcome EXCEPT ![a.session.file] = "failed"]
    BY <1>4 DEF LinkLost, LinkDown
  <2>2. <<>> \in Seq(Frame) /\ <<>> \in Seq(Command)
    OBVIOUS
  <2>3. c \in App /\ c.active = None /\ c.queue = <<>>
    BY <1>1, <2>2 DEF App
  <2>. HIDE DEF c
  <2>4. b \in App /\ Keeps(c, b, {"session", "timers"})
    BY <2>3, EndType
  <2>. HIDE DEF b
  <2>5. Follows(a, b)
    BY <2>3, <2>4 DEF Follows, Woken, Answered, Keeps, Fields
  <2>6. outcome' \in Verdicts
    <3>. HIDE DEF a
    <3>. QED  BY <1>1, <2>1 DEF Verdicts
  <2>. QED  BY <1>2, <1>3, <2>1, <2>5, <2>6 DEF MovesTo
<1>5. CASE LinkUp(p)
  <2> DEFINE b == [a EXCEPT !.ready = TRUE]
  <2>1. app' = [app EXCEPT ![p] = DrainTxQueue(b)] /\ outcome' = outcome
    BY <1>5 DEF LinkUp
  <2>2. b \in App
    BY <1>1 DEF App
  <2>3. b.active = a.active /\ b.timers = a.timers /\ b.commands = a.commands
    BY <1>1 DEF App
  <2>. HIDE DEF b
  <2>4. Follows(a, DrainTxQueue(b))
    BY <2>2, <2>3, DrainType DEF Follows, Answered
  <2>. QED  BY <1>1, <1>2, <1>3, <2>1, <2>4 DEF MovesTo
<1>. QED  BY <1>4, <1>5

-----------------------------------------------------------------------------
(* The invariants. *)

\* One phone moves on, the others stay as they are.
LEMMA MoveStep ==
  ASSUME app \in [Phone -> App], NEW p \in Phone, NEW b \in App, MovesTo(p, b)
  PROVE  /\ app' \in [Phone -> App] /\ app'[p] = b
         /\ \A q \in Phone : q # p => app'[q] = app[q]
BY DEF MovesTo

Moves == \E p \in Phone : \E b : MovesTo(p, b) /\ Follows(app[p], b)

LEMMA MovesStep ==
  ASSUME app \in [Phone -> App], Moves
  PROVE  /\ app' \in [Phone -> App]
         /\ NoLostWakeup => NoLostWakeup'
         /\ (\A q \in Phone : Answered(app[q])) => \A q \in Phone : Answered(app'[q])
<1>0. PICK p \in Phone : \E b : MovesTo(p, b) /\ Follows(app[p], b)
  BY DEF Moves
<1>1. PICK b : MovesTo(p, b) /\ Follows(app[p], b)
  BY <1>0
<1>2. /\ app' \in [Phone -> App] /\ app'[p] = b
      /\ \A q \in Phone : q # p => app'[q] = app[q]
  BY <1>1, MoveStep DEF Follows
<1>3. NoLostWakeup <=> \A q \in Phone : Woken(app[q])
  BY DEF NoLostWakeup, Woken
<1>4. NoLostWakeup' <=> \A q \in Phone : Woken(app'[q])
  BY DEF NoLostWakeup, Woken
<1>5. ASSUME \A q \in Phone : Woken(app[q]), NEW q \in Phone PROVE Woken(app'[q])
  BY <1>1, <1>2, <1>5 DEF Follows
<1>6. ASSUME \A q \in Phone : Answered(app[q]), NEW q \in Phone PROVE Answered(app'[q])
  BY <1>1, <1>2, <1>6 DEF Follows
<1>. QED  BY <1>2, <1>3, <1>4, <1>5, <1>6

LEMMA SafeStep ==
  ASSUME TypeOK, NoLostWakeup, FrameIsAnswered, [Next]_vars
  PROVE  TypeOK' /\ NoLostWakeup' /\ FrameIsAnswered'
<1>1. /\ app \in [Phone -> App] /\ air \in [Phone -> Frame \cup {None}]
      /\ offered \in 0..MaxObjects /\ outcome \in Verdicts /\ shown \in [Object -> Nat]
      /\ faults \in 0..MaxFaults /\ orphaned \in BOOLEAN
  BY DEF TypeOK, Verdicts
<1> DEFINE Rest == /\ air' \in [Phone -> Frame \cup {None}]
                   /\ offered' \in 0..MaxObjects /\ outcome' \in Verdicts
                   /\ shown' \in [Object -> Nat]
                   /\ faults' \in 0..MaxFaults
           Quiet == orphaned' \in BOOLEAN /\ (orphaned => orphaned')
<1>2. ASSUME Moves, Rest, Quiet PROVE TypeOK' /\ NoLostWakeup' /\ FrameIsAnswered'
  <2>1. app' \in [Phone -> App] /\ NoLostWakeup'
    BY <1>1, <1>2, MovesStep
  <2>2. ~orphaned => \A q \in Phone : Answered(app[q])
    BY DEF FrameIsAnswered, Answered
  <2>3. ~orphaned' => \A q \in Phone : Answered(app'[q])
    BY <1>1, <1>2, <2>2, MovesStep
  <2>4. FrameIsAnswered'
    BY <2>3 DEF FrameIsAnswered, Answered
  <2>. QED  BY <1>2, <2>1, <2>4 DEF TypeOK, Verdicts
<1>3. ASSUME NEW p \in Phone, NEW q \in Phone, SendObject(p, q) PROVE Moves /\ Rest /\ Quiet
  BY <1>1, <1>3, SendObjectMoves DEF Moves, Verdicts
<1>4. ASSUME NEW p \in Phone, HandleFileSendResponse(p) \/ OnSenderWatchdog(p)
      PROVE  Moves /\ Rest /\ Quiet
  BY <1>1, <1>4, ResponseMoves, WatchdogMoves DEF Moves
<1>5. ASSUME NEW p \in Phone, RunDrain(p) \/ RunRetry(p) \/ SendPendingReport(p)
      PROVE  Moves /\ Rest /\ Quiet
  BY <1>1, <1>5, RunMoves, ReportMoves DEF Moves
<1>6. ASSUME NEW p \in Phone, PendantAnswers(p) PROVE Moves /\ Rest /\ Quiet
  BY <1>1, <1>6, AnswersMoves DEF Moves
<1>7. ASSUME NEW p \in Phone, Deliver(p) PROVE Moves /\ Rest /\ Quiet
  BY <1>1, <1>7, DeliverMoves DEF Moves
<1>8. ASSUME NEW p \in Phone, LinkLost(p) \/ LinkUp(p) PROVE Moves /\ Rest /\ Quiet
  BY <1>1, <1>8, LinkMoves DEF Moves
<1>9. ASSUME NEW p \in Phone, DropCommand(p) \/ UnbindDevice(p)
      PROVE  TypeOK' /\ NoLostWakeup' /\ FrameIsAnswered'
  <2>1. PICK b : MovesTo(p, b) /\ b \in App /\ (Woken(app[p]) => Woken(b))
    BY <1>9, DropMoves
  <2>2. /\ app' \in [Phone -> App] /\ app'[p] = b
        /\ \A q \in Phone : q # p => app'[q] = app[q]
    BY <1>1, <2>1, MoveStep
  <2>3. NoLostWakeup'
    BY <2>1, <2>2 DEF NoLostWakeup, Woken
  <2>4. orphaned' /\ Rest
    BY <1>1, <1>9, DropMoves
  <2>. QED  BY <2>2, <2>3, <2>4 DEF TypeOK, Verdicts, FrameIsAnswered
<1>10. ASSUME NEW p \in Phone, Lose(p) PROVE TypeOK' /\ NoLostWakeup' /\ FrameIsAnswered'
  <2>1. UNCHANGED <<app, offered, outcome, shown, faults, orphaned>>
    BY <1>10 DEF Lose
  <2>2. air' \in [Phone -> Frame \cup {None}]
    BY <1>1, <1>10 DEF Lose
  <2>. QED  BY <1>1, <2>1, <2>2 DEF TypeOK, Verdicts, NoLostWakeup, FrameIsAnswered
<1>11. CASE UNCHANGED vars
  BY <1>11 DEF vars, TypeOK, NoLostWakeup, FrameIsAnswered
<1>12. CASE Next
  <2>. HIDE DEF Rest, Quiet
  <2>. QED  BY <1>2, <1>3, <1>4, <1>5, <1>6, <1>7, <1>8, <1>9, <1>10, <1>12 DEF Next
<1>. QED  BY <1>11, <1>12

\* Types, wakeups and answers are one invariant: none needs more than the
\* others, and the types are what each method is understood by.
THEOREM Invariance == Spec => [](TypeOK /\ NoLostWakeup /\ FrameIsAnswered)
<1>1. Init => TypeOK /\ NoLostWakeup /\ FrameIsAnswered
  BY InitType
<1>2. TypeOK /\ NoLostWakeup /\ FrameIsAnswered /\ [Next]_vars
        => (TypeOK /\ NoLostWakeup /\ FrameIsAnswered)'
  BY SafeStep
<1>. QED  BY <1>1, <1>2, PTL DEF Spec

\* Every variable keeps its type: no counter of a session or of a frame passes
\* its bound, whatever is lost or repeated.
THEOREM TypeCorrect == Spec => []TypeOK
BY Invariance, PTL

\* A frame that waits in txQueue is on its way out.
THEOREM FramesMove == Spec => []NoLostWakeup
BY Invariance, PTL

\* A frame in flight has something that will end the wait for it.
THEOREM WaitsEnd == Spec => []FrameIsAnswered
BY Invariance, PTL

-----------------------------------------------------------------------------
(***************************************************************************)
(* FileTransfer keeps the promise of ObjectTransfer.                       *)
(*                                                                         *)
(* The hard part of the promise is that the receiving phone is given an    *)
(* object at most once for each round of the sender: a START frame resets  *)
(* the receiver, and one START may be on its way in several copies - in    *)
(* activeFrame, in commands that were written again after a busy answer,   *)
(* and on the air of a pendant that repeats it.  The invariant numbers the *)
(* rounds, and keeps for each object the round of the last START its       *)
(* receiver heard and of the one on air.  None of this is a variable of    *)
(* the code; the invariant says that such numbers exist.                   *)
(***************************************************************************)

Starts == {"START", "START_RETRY"}
Datas  == {"DATA", "DATA_REPAIR"}

-----------------------------------------------------------------------------
(* The frames of one phone. *)

Queued(a) == {a.queue[k] : k \in DOMAIN a.queue}
Active(a) == IF a.active = None THEN {} ELSE {a.active.frame}
Held(a)   == Queued(a) \cup Active(a)

\* Every command carries the active frame, and the one its response is
\* awaited for is the last.
Lined(a) ==
  /\ ~a.ready \/ a.active = None => a.commands = <<>>
  /\ \A k \in DOMAIN a.commands :
       /\ a.commands[k].frame = a.active.frame
       /\ a.commands[k].current => k = Len(a.commands)

\* No round waits to be started.
Calm(a) == \A fr \in Queued(a) : fr.name \notin Starts

Starting(a) == {fr \in Active(a) : fr.name \in Starts}

\* From a to b the frames stay in line, and only those of new are added.
Pipes(a, b, new) ==
  /\ Lined(a) => Lined(b)
  /\ Held(b) \subseteq Held(a) \cup new
  /\ Calm(a) => Calm(b) /\ Starting(b) \subseteq Starting(a)

LEMMA PipesJoin ==
  ASSUME NEW a, NEW b, NEW c, NEW m, NEW n, Pipes(a, b, m), Pipes(b, c, n)
  PROVE  Pipes(a, c, m \cup n)
BY DEF Pipes

LEMMA PipesSame ==
  ASSUME NEW a, NEW b, Keeps(a, b, {"session", "rx", "timers"})
  PROVE  Pipes(a, b, {})
<1>1. /\ b.ready = a.ready /\ b.active = a.active /\ b.queue = a.queue
      /\ b.commands = a.commands
  BY DEF Keeps, Fields
<1>. QED  BY <1>1 DEF Pipes, Lined, Held, Queued, Active, Calm, Starting

LEMMA EnqueuePipes ==
  ASSUME NEW a \in App, NEW to \in Phone, NEW file \in Object, NEW name \in Name,
         NEW chunks \in SUBSET Chunk, name \notin Starts
  PROVE  Pipes(a, EnqueueFrame(a, to, file, name, chunks),
               {[to |-> to, file |-> file, name |-> name, chunks |-> chunks]})
<1> DEFINE fr == [to |-> to, file |-> file, name |-> name, chunks |-> chunks]
           b == EnqueueFrame(a, to, file, name, chunks)
<1>1. fr \in Frame /\ fr.name \notin Starts /\ a.queue \in Seq(Frame)
  BY DEF Frame, App
<1>2. Keeps(a, b, {"queue"})
  BY EnqueueType
<1>. HIDE DEF fr
<1>3. b.queue = Append(a.queue, fr)
  BY DEF EnqueueFrame, fr, App
<1>. HIDE DEF b
<1>4. /\ Append(a.queue, fr) \in Seq(Frame) /\ Len(Append(a.queue, fr)) = Len(a.queue) + 1
      /\ \A i \in 1..Len(a.queue) : Append(a.queue, fr)[i] = a.queue[i]
      /\ Append(a.queue, fr)[Len(a.queue) + 1] = fr
  BY <1>1, AppendProperties
<1>5. ASSUME NEW k \in DOMAIN b.queue PROVE b.queue[k] \in Queued(a) \cup {fr}
  <2>1. k \in 1..Len(a.queue) + 1 /\ DOMAIN a.queue = 1..Len(a.queue) /\ Len(a.queue) \in Nat
    BY <1>1, <1>3, <1>4
  <2>2. CASE k \in 1..Len(a.queue)
    BY <1>3, <1>4, <2>1, <2>2 DEF Queued
  <2>3. CASE k = Len(a.queue) + 1
    BY <1>3, <1>4, <2>3
  <2>. QED  BY <2>1, <2>2, <2>3
<1>6. Queued(b) \subseteq Queued(a) \cup {fr}
  BY <1>5 DEF Queued
<1>7. b.ready = a.ready /\ b.active = a.active /\ b.commands = a.commands
  BY <1>2 DEF Keeps, Fields
<1>8. Active(b) = Active(a) /\ (Lined(a) => Lined(b))
  BY <1>7 DEF Active, Lined
<1>. QED  BY <1>1, <1>6, <1>8 DEF Pipes, Held, Calm, Starting, fr, b

LEMMA ClearPipes ==
  ASSUME NEW a \in App, NEW f \in Object
  PROVE  Pipes(a, ClearQueuedFramesForFile(a, f), {})
<1> DEFINE K == {k \in DOMAIN a.queue : a.queue[k].file # f}
           n == Cardinality(K)
           b == ClearQueuedFramesForFile(a, f)
<1>1. a.queue \in Seq(Frame) /\ DOMAIN a.queue = 1..Len(a.queue) /\ Len(a.queue) \in Nat
  BY DEF App
<1>2. K \in SUBSET (1..Len(a.queue)) /\ K \subseteq Nat
  BY <1>1
<1>. HIDE DEF n, b
<1>3. IsFiniteSet(K)
  <2>1. 1 \in Int /\ Len(a.queue) \in Int
    BY <1>1
  <2>2. IsFiniteSet(1..Len(a.queue))
    BY <2>1, FS_Interval
  <2>. HIDE DEF K
  <2>. QED  BY <1>2, <2>2, FS_Subset
<1>4. n \in Nat /\ Ascending(K) \in [1..n -> K]
  BY <1>2, <1>3, AscendingType DEF n
<1>5. b.queue = [k \in 1..n |-> a.queue[Ascending(K)[k]]]
  BY <1>4 DEF ClearQueuedFramesForFile, App, b, n
<1>6. Keeps(a, b, {"queue"})
  BY ClearType DEF b
<1>. HIDE DEF K
<1>7. ASSUME NEW k \in DOMAIN b.queue PROVE b.queue[k] \in Queued(a)
  <2>1. k \in 1..n
    BY <1>5
  <2>2. Ascending(K)[k] \in DOMAIN a.queue
    BY <1>1, <1>2, <1>4, <2>1
  <2>. QED  BY <1>5, <2>1, <2>2 DEF Queued
<1>8. Queued(b) \subseteq Queued(a)
  BY <1>7 DEF Queued
<1>9. b.ready = a.ready /\ b.active = a.active /\ b.commands = a.commands
  BY <1>6 DEF Keeps, Fields
<1>10. Active(b) = Active(a) /\ (Lined(a) => Lined(b))
  BY <1>9 DEF Active, Lined
<1>. QED  BY <1>8, <1>10 DEF Pipes, Held, Calm, Starting, b

LEMMA SendActivePipes ==
  ASSUME NEW a \in App
  PROVE  Pipes(a, SendActiveFrame(a), {})
<1> DEFINE b == SendActiveFrame(a)
<1>1. Keeps(a, b, {"active", "commands"}) /\ b.active = IF a.ready THEN a.active ELSE None
  BY SendActiveType
<1>2. b.queue = a.queue /\ b.ready = a.ready
  BY <1>1 DEF Keeps, Fields
<1>3. Queued(b) = Queued(a) /\ Active(b) \subseteq Active(a)
  BY <1>1, <1>2 DEF Queued, Active
<1>4. ASSUME Lined(a) PROVE Lined(b)
  <2>1. CASE a.active = None
    <3>1. b = a
      BY <2>1 DEF SendActiveFrame
    <3>. QED  BY <1>4, <3>1
  <2>2. CASE a.active # None /\ ~a.ready
    <3>1. b.commands = a.commands
      BY <2>2 DEF SendActiveFrame, App
    <3>2. a.commands = <<>>
      BY <1>4, <2>2 DEF Lined
    <3>. HIDE DEF b
    <3>. QED  BY <3>1, <3>2 DEF Lined
  <2>3. CASE a.active # None /\ a.ready
    <3> DEFINE stale == [k \in DOMAIN a.commands |-> [a.commands[k] EXCEPT !.current = FALSE]]
               new == [frame |-> a.active.frame, current |-> TRUE, status |-> "sent"]
               cs == Append(stale, new)
    <3>1. b.commands = cs /\ b.active = a.active
      BY <1>1, <2>3 DEF SendActiveFrame, App
    <3>2. a.commands \in Seq(Command) /\ a.active.frame \in Frame
      BY <2>3 DEF App, ActiveFrame
    <3>3. new \in Command /\ new.frame = a.active.frame
      BY <3>2 DEF Command
    <3>4. ASSUME NEW k \in DOMAIN a.commands
          PROVE  /\ [a.commands[k] EXCEPT !.current = FALSE] \in Command
                 /\ ~[a.commands[k] EXCEPT !.current = FALSE].current
                 /\ [a.commands[k] EXCEPT !.current = FALSE].frame = a.commands[k].frame
      <4>1. a.commands[k] \in Command
        BY <3>2
      <4>. QED  BY <4>1 DEF Command
    <3>5. DOMAIN a.commands = 1..Len(a.commands) /\ Len(a.commands) \in Nat
      BY <3>2
    <3>6. /\ \A k \in 1..Len(a.commands) :
               ~stale[k].current /\ stale[k].frame = a.commands[k].frame
          /\ stale \in [1..Len(a.commands) -> Command]
      BY <3>4, <3>5
    <3>. HIDE DEF stale, new
    <3>7. stale \in Seq(Command) /\ Len(stale) = Len(a.commands)
      BY <3>5, <3>6, FunctionIsSeq
    <3>8. /\ cs \in Seq(Command) /\ Len(cs) = Len(a.commands) + 1
          /\ \A k \in 1..Len(a.commands) : cs[k] = stale[k]
          /\ cs[Len(a.commands) + 1] = new
      BY <3>3, <3>7, AppendProperties
    <3>. HIDE DEF cs, b
    <3>9. DOMAIN cs = 1..Len(a.commands) + 1
      BY <3>5, <3>8
    <3>10. ASSUME NEW k \in DOMAIN cs
           PROVE  cs[k].frame = a.active.frame /\ (cs[k].current => k = Len(cs))
      <4>1. CASE k \in 1..Len(a.commands)
        <5>1. a.commands[k].frame = a.active.frame
          BY <1>4, <3>5, <4>1 DEF Lined
        <5>2. cs[k] = stale[k] /\ ~stale[k].current /\ stale[k].frame = a.active.frame
          BY <3>6, <3>8, <4>1, <5>1
        <5>. QED  BY <5>2
      <4>2. CASE k = Len(a.commands) + 1
        BY <3>3, <3>8, <4>2
      <4>. QED  BY <3>5, <3>9, <4>1, <4>2
    <3>. QED  BY <1>2, <2>3, <3>1, <3>10 DEF Lined
  <2>. QED  BY <2>1, <2>2, <2>3
<1>. HIDE DEF b
<1>. QED  BY <1>3, <1>4 DEF Pipes, Held, Calm, Starting, b

\* What drainTxQueue does to the frames: nothing, or the first of the queue
\* becomes the active one - or is lost, while the link is down.
LEMMA DrainFrames ==
  ASSUME NEW a \in App
  PROVE  LET b == DrainTxQueue(a)
         IN  /\ Lined(a) => Lined(b)
             /\ \/ b = a /\ (a.active # None \/ a.queue = <<>>)
                \/ /\ a.active = None /\ a.queue # <<>> /\ b.queue = Tail(a.queue)
                   /\ Active(b) \subseteq {Head(a.queue)}
<1> DEFINE b == DrainTxQueue(a)
<1>1. CASE a.active # None \/ a.queue = <<>>
  BY <1>1 DEF DrainTxQueue
<1>2. CASE a.active = None /\ a.queue # <<>>
  <2> DEFINE f == [frame |-> Head(a.queue), retries |-> 0]
             c == [a EXCEPT !.active = f, !.queue = Tail(a.queue)]
  <2>1. a.queue \in Seq(Frame)
    BY DEF App
  <2>2. Head(a.queue) \in Frame /\ Tail(a.queue) \in Seq(Frame)
    BY <1>2, <2>1, HeadTailProperties
  <2>3. f \in ActiveFrame /\ f.frame = Head(a.queue) /\ f # None
    BY <2>2, Bounds, NoneAssumption DEF ActiveFrame
  <2>4. b = SendActiveFrame(c)
    BY <1>2 DEF DrainTxQueue
  <2>. HIDE DEF f
  <2>5. c \in App
    BY <2>2, <2>3 DEF App
  <2>6. c.active = f /\ c.queue = Tail(a.queue) /\ c.commands = a.commands
    BY DEF App
  <2>. HIDE DEF c
  <2>7. Keeps(c, b, {"active", "commands"}) /\ b.active = IF c.ready THEN c.active ELSE None
    BY <2>4, <2>5, SendActiveType
  <2>8. b.queue = Tail(a.queue)
    BY <2>6, <2>7 DEF Keeps, Fields
  <2>9. Active(b) \subseteq {Head(a.queue)}
    BY <2>3, <2>6, <2>7 DEF Active
  <2>10. Lined(a) => Lined(c)
    BY <1>2, <2>6 DEF Lined
  <2>11. Lined(c) => Lined(b)
    BY <2>4, <2>5, SendActivePipes DEF Pipes
  <2>. QED  BY <1>2, <2>8, <2>9, <2>10, <2>11
<1>. QED  BY <1>1, <1>2

LEMMA HeadTailQueued ==
  ASSUME NEW a \in App, a.queue # <<>>
  PROVE  /\ Head(a.queue) \in Queued(a)
         /\ \A k \in DOMAIN Tail(a.queue) : Tail(a.queue)[k] \in Queued(a)
<1>1. a.queue \in Seq(Frame) /\ a.queue # <<>>
  BY DEF App
<1>2. /\ Tail(a.queue) \in Seq(Frame) /\ Len(Tail(a.queue)) = Len(a.queue) - 1
      /\ \A i \in 1..Len(Tail(a.queue)) : Tail(a.queue)[i] = a.queue[i + 1]
      /\ Head(a.queue) = a.queue[1]
  BY <1>1, HeadTailProperties
<1>3. DOMAIN a.queue = 1..Len(a.queue) /\ Len(a.queue) \in Nat /\ Len(a.queue) # 0
  BY <1>1
<1>4. 1 \in DOMAIN a.queue
  BY <1>3
<1>5. ASSUME NEW k \in DOMAIN Tail(a.queue) PROVE Tail(a.queue)[k] \in Queued(a)
  <2>1. k \in 1..Len(a.queue) - 1
    BY <1>2, <1>3
  <2>2. k + 1 \in DOMAIN a.queue /\ k \in 1..Len(Tail(a.queue))
    BY <1>2, <1>3, <2>1
  <2>. QED  BY <1>2, <2>2 DEF Queued
<1>. QED  BY <1>2, <1>4, <1>5 DEF Queued

LEMMA DrainPipes ==
  ASSUME NEW a \in App
  PROVE  Pipes(a, DrainTxQueue(a), {})
<1> DEFINE b == DrainTxQueue(a)
<1>1. CASE b = a
  BY <1>1 DEF Pipes
<1>2. CASE b # a
  <2>1. /\ Lined(a) => Lined(b)
        /\ a.active = None /\ a.queue # <<>> /\ b.queue = Tail(a.queue)
        /\ Active(b) \subseteq {Head(a.queue)}
    BY <1>2, DrainFrames
  <2>. HIDE DEF b
  <2>2. Head(a.queue) \in Queued(a) /\ Queued(b) \subseteq Queued(a)
    BY <2>1, HeadTailQueued DEF Queued
  <2>. QED  BY <2>1, <2>2 DEF Pipes, Held, Calm, Starting, b
<1>. QED  BY <1>1, <1>2

-----------------------------------------------------------------------------
(* The methods: their frames and their sessions. *)

SessionKept(a, b) ==
  b.session # None =>
    /\ a.session # None
    /\ b.session.file = a.session.file /\ b.session.to = a.session.to
    /\ b.session.resends = a.session.resends

\* An ordinary step: it starts no round.
Plain(a, b, new) == Pipes(a, b, new) /\ SessionKept(a, b)

LEMMA PlainJoin ==
  ASSUME NEW a, NEW b, NEW c, NEW m, NEW n, Plain(a, b, m), Plain(b, c, n)
  PROVE  Plain(a, c, m \cup n)
BY PipesJoin DEF Plain, SessionKept

\* The timers, the receive session and the end of the send session.
LEMMA PlainSame ==
  ASSUME NEW a, NEW b, Keeps(a, b, {"session", "rx", "timers"}),
         b.session = a.session \/ b.session = None
  PROVE  Plain(a, b, {})
BY PipesSame DEF Plain, SessionKept

LEMMA PlainKeeps ==
  ASSUME NEW a, NEW b, NEW n, Pipes(a, b, n), b.session = a.session
  PROVE  Plain(a, b, n)
BY DEF Plain, SessionKept

LEMMA DrainPlain ==
  ASSUME NEW a \in App
  PROVE  /\ Plain(a, DrainTxQueue(a), {})
         /\ DrainTxQueue(a) \in App
         /\ DrainTxQueue(a).session = a.session /\ DrainTxQueue(a).rx = a.rx
<1>1. /\ DrainTxQueue(a) \in App /\ DrainTxQueue(a).session = a.session
      /\ DrainTxQueue(a).rx = a.rx
  BY DrainType DEF Keeps, Fields
<1>. QED  BY <1>1, DrainPipes, PlainKeeps

LEMMA TimersPlain ==
  ASSUME NEW a \in App, NEW t \in Timer
  PROVE  /\ Arm(a, t) \in App /\ Plain(a, Arm(a, t), {})
         /\ Arm(a, t).session = a.session /\ Arm(a, t).rx = a.rx
         /\ Disarm(a, t) \in App /\ Plain(a, Disarm(a, t), {})
         /\ Disarm(a, t).session = a.session /\ Disarm(a, t).rx = a.rx
<1>1. /\ Arm(a, t) \in App /\ Keeps(a, Arm(a, t), {"timers"})
      /\ Disarm(a, t) \in App /\ Keeps(a, Disarm(a, t), {"timers"})
  BY TimersType
<1>2. /\ Arm(a, t).session = a.session /\ Arm(a, t).rx = a.rx
      /\ Disarm(a, t).session = a.session /\ Disarm(a, t).rx = a.rx
  BY <1>1 DEF Keeps, Fields
<1>3. /\ Keeps(a, Arm(a, t), {"session", "rx", "timers"})
      /\ Keeps(a, Disarm(a, t), {"session", "rx", "timers"})
  BY <1>1 DEF Keeps
<1>. QED  BY <1>1, <1>2, <1>3, PlainSame

LEMMA EnqueuePlain ==
  ASSUME NEW a \in App, NEW to \in Phone, NEW file \in Object, NEW name \in Name,
         NEW chunks \in SUBSET Chunk, name \notin Starts
  PROVE  LET b == EnqueueFrame(a, to, file, name, chunks)
         IN  /\ Plain(a, b, {[to |-> to, file |-> file, name |-> name, chunks |-> chunks]})
             /\ b \in App /\ b.session = a.session /\ b.rx = a.rx
<1> DEFINE b == EnqueueFrame(a, to, file, name, chunks)
<1>1. b \in App /\ Keeps(a, b, {"queue"})
  BY EnqueueType
<1>2. b.session = a.session /\ b.rx = a.rx
  BY <1>1 DEF Keeps, Fields
<1>3. Pipes(a, b, {[to |-> to, file |-> file, name |-> name, chunks |-> chunks]})
  BY EnqueuePipes
<1>. HIDE DEF b
<1>. QED  BY <1>1, <1>2, <1>3, PlainKeeps DEF b

LEMMA ClearPlain ==
  ASSUME NEW a \in App, NEW f \in Object
  PROVE  LET b == ClearQueuedFramesForFile(a, f)
         IN  Plain(a, b, {}) /\ b \in App /\ b.session = a.session /\ b.rx = a.rx
<1> DEFINE b == ClearQueuedFramesForFile(a, f)
<1>1. b \in App /\ Keeps(a, b, {"queue"})
  BY ClearType
<1>2. b.session = a.session /\ b.rx = a.rx
  BY <1>1 DEF Keeps, Fields
<1>. HIDE DEF b
<1>. QED  BY <1>1, <1>2, ClearPipes, PlainKeeps DEF b

LEMMA EndPlain ==
  ASSUME NEW a \in App
  PROVE  /\ Plain(a, EndSession(a), {}) /\ EndSession(a) \in App
         /\ EndSession(a).session = None /\ EndSession(a).rx = a.rx
<1>1. /\ EndSession(a) \in App /\ Keeps(a, EndSession(a), {"session", "timers"})
      /\ EndSession(a).session = None
  BY EndType
<1>2. EndSession(a).rx = a.rx /\ Keeps(a, EndSession(a), {"session", "rx", "timers"})
  BY <1>1 DEF Keeps, Fields
<1>. QED  BY <1>1, <1>2, PlainSame

\* The frames with the chunks of the object of session s.
ChunkFrames(s) ==
  {fr \in Frame : fr.to = s.to /\ fr.file = s.file /\ fr.name \in Datas}

LEMMA EnqueueChunksPlain ==
  ASSUME NEW a \in App, a.session # None, NEW chunks \in SUBSET Chunk, NEW name \in Datas,
         name = "DATA" => a.session.initial = 1
  PROVE  LET b == EnqueueChunks(a, chunks, name)
         IN  /\ Plain(a, b, ChunkFrames(a.session))
             /\ b \in App /\ b.rx = a.rx
             /\ b.session # None
             /\ b.session.file = a.session.file /\ b.session.to = a.session.to
             /\ b.session.resends = a.session.resends
             /\ \E frames \in Seq(ChunkFrames(a.session)) : b.queue = a.queue \o frames
             /\ b.ready = a.ready /\ b.active = a.active /\ b.commands = a.commands
<1> DEFINE s == a.session
           n == Cardinality(chunks)
           order == Ascending(chunks)
           frames == [k \in 1..n |-> [to |-> s.to, file |-> s.file, name |-> name,
                                      chunks |-> {order[k]}]]
           b == EnqueueChunks(a, chunks, name)
<1>1. s \in SendSession /\ a.queue \in Seq(Frame)
  BY DEF App
<1>2. n \in Nat /\ order \in [1..n -> chunks]
  BY ChunksCount, AscendingType
<1>3. s.to \in Phone /\ s.file \in Object /\ name \in Name
  BY <1>1 DEF SendSession, Name, Datas
<1>4. frames \in Seq(ChunkFrames(s))
  <2>1. ASSUME NEW k \in 1..n
        PROVE  [to |-> s.to, file |-> s.file, name |-> name, chunks |-> {order[k]}]
                 \in ChunkFrames(s)
    <3>1. {order[k]} \in SUBSET Chunk
      BY <1>2
    <3>. HIDE DEF order, s
    <3>. QED  BY <1>3, <3>1 DEF Frame, ChunkFrames
  <2>2. frames \in [1..n -> ChunkFrames(s)]
    BY <2>1
  <2>. HIDE DEF frames, n
  <2>. QED  BY <1>2, <2>2, FunctionIsSeq
<1>5. b.queue = a.queue \o frames
  BY DEF EnqueueChunks, App
<1>6. /\ b \in App /\ Keeps(a, b, {"queue", "session"}) /\ b.session # None
  BY EnqueueChunksType DEF Datas
<1>7. /\ b.session.file = s.file /\ b.session.to = s.to /\ b.session.resends = s.resends
  <2> DEFINE i == IF name = "DATA" THEN s.initial + n ELSE s.initial
             r == IF name = "DATA" THEN s.repair ELSE s.repair + n
  <2>1. b.session = [s EXCEPT !.initial = i, !.repair = r]
    BY DEF EnqueueChunks, App
  <2>. HIDE DEF b, i, r, s
  <2>. QED  BY <1>1, <2>1 DEF SendSession
<1>8. b.ready = a.ready /\ b.active = a.active /\ b.commands = a.commands /\ b.rx = a.rx
  BY <1>6 DEF Keeps, Fields
<1>. HIDE DEF b, frames, s
<1>9. Queued(b) \subseteq Queued(a) \cup ChunkFrames(s)
  <2>1. frames \in Seq(Frame)
    BY <1>4 DEF ChunkFrames
  <2>2. /\ Len(a.queue) \in Nat /\ Len(frames) \in Nat
        /\ DOMAIN a.queue = 1..Len(a.queue) /\ DOMAIN b.queue = 1..Len(a.queue) + Len(frames)
        /\ \A i \in 1..Len(a.queue) + Len(frames) :
             b.queue[i] = IF i <= Len(a.queue) THEN a.queue[i] ELSE frames[i - Len(a.queue)]
    BY <1>1, <1>5, <2>1, ConcatProperties
  <2>3. ASSUME NEW k \in DOMAIN b.queue PROVE b.queue[k] \in Queued(a) \cup ChunkFrames(s)
    <3>1. CASE k <= Len(a.queue)
      BY <2>2, <3>1 DEF Queued
    <3>2. CASE ~(k <= Len(a.queue))
      <4>1. k - Len(a.queue) \in 1..Len(frames)
        BY <2>2, <3>2
      <4>2. frames[k - Len(a.queue)] \in ChunkFrames(s)
        BY <1>4, <4>1
      <4>. QED  BY <2>2, <3>2, <4>2
    <3>. QED  BY <3>1, <3>2
  <2>. QED  BY <2>3 DEF Queued
<1>10. Active(b) = Active(a) /\ (Lined(a) => Lined(b))
  BY <1>8 DEF Active, Lined
<1>11. \A fr \in ChunkFrames(s) : fr.name \notin Starts
  BY DEF ChunkFrames, Datas, Starts
<1>12. Pipes(a, b, ChunkFrames(s))
  BY <1>9, <1>10, <1>11 DEF Pipes, Held, Calm, Starting
<1>13. SessionKept(a, b)
  BY <1>7 DEF SessionKept, s
<1>. QED  BY <1>4, <1>5, <1>6, <1>7, <1>8, <1>12, <1>13 DEF Plain, b, s

LEMMA PlainMore ==
  ASSUME NEW a, NEW b, NEW m, NEW n, Plain(a, b, m), m \subseteq n
  PROVE  Plain(a, b, n)
BY DEF Plain, Pipes

\* What a REPORT may put into the queue of the sender it reaches.
Answers(a, fr) ==
  {x \in Frame :
     /\ a.session # None /\ a.session.file = fr.file /\ x.file = fr.file
     /\ \/ x \in ChunkFrames(a.session)
        \/ x.name = "DONE" /\ Missing(fr) = {}}

\* Only a frame of its own object ends a session.
EndedBy(a, b, fr) ==
  a.session # None /\ b.session = None => a.session.file = fr.file

LEMMA OnReportPlain ==
  ASSUME NEW a \in App, NEW src \in Phone, NEW fr \in Frame
  PROVE  LET b == OnReportFrame(a, src, fr)
         IN  Plain(a, b, Answers(a, fr)) /\ b.rx = a.rx /\ EndedBy(a, b, fr)
<1> DEFINE s == a.session
           f == fr.file
           cleared == ClearQueuedFramesForFile(a, f)
           done == [to |-> src, file |-> f, name |-> "DONE", chunks |-> {}]
           told == EnqueueFrame(cleared, src, f, "DONE", {})
           ended == EndSession(told)
           t == [s EXCEPT !.round = @ + 1]
           next == [a EXCEPT !.session = t]
           repaired == EnqueueChunks(next, Missing(fr), "DATA_REPAIR")
           armed == Arm(repaired, "watchdog")
           new == Answers(a, fr)
<1>0. f \in Object /\ Missing(fr) \in SUBSET Chunk /\ {} \subseteq new
  BY DEF Frame, Missing
<1>1. CASE s = None \/ s.file # f \/ s.to # src
  <2>1. OnReportFrame(a, src, fr) = a
    BY <1>1 DEF OnReportFrame
  <2>2. Plain(a, a, new)
    BY DEF Plain, Pipes, SessionKept
  <2>. QED  BY <2>1, <2>2 DEF EndedBy
<1>2. CASE ~(s = None \/ s.file # f \/ s.to # src)
  <2>1. s \in SendSession
    BY <1>2 DEF App
  <2>2. ASSUME NEW b, NEW m, Plain(a, b, m), m \subseteq new, b.rx = a.rx
        PROVE  Plain(a, b, new) /\ b.rx = a.rx /\ EndedBy(a, b, fr)
    BY <1>2, <2>2, PlainMore DEF EndedBy
  <2>3. Plain(a, cleared, {}) /\ cleared \in App /\ cleared.session = s /\ cleared.rx = a.rx
    BY <1>0, ClearPlain
  <2>4. CASE Missing(fr) = {}
    <3>1. OnReportFrame(a, src, fr) = DrainTxQueue(ended)
      BY <1>2, <2>4 DEF OnReportFrame
    <3>2. done \in new
      BY <1>0, <1>2, <2>4 DEF Answers, Frame, Name
    <3>. HIDE DEF cleared, new
    <3>3. Plain(cleared, told, {done}) /\ told \in App /\ told.rx = a.rx
      <4>1. "DONE" \in Name /\ "DONE" \notin Starts /\ {} \in SUBSET Chunk
        BY DEF Name, Starts
      <4>. QED  BY <1>0, <2>3, <4>1, EnqueuePlain
    <3>. HIDE DEF told, done
    <3>4. Plain(told, ended, {}) /\ ended \in App /\ ended.rx = a.rx
      BY <3>3, EndPlain
    <3>. HIDE DEF ended
    <3>5. Plain(ended, DrainTxQueue(ended), {}) /\ DrainTxQueue(ended).rx = a.rx
      BY <3>4, DrainPlain
    <3>6. Plain(a, told, {} \cup {done})
      BY <2>3, <3>3, PlainJoin
    <3>7. Plain(a, ended, {} \cup {done} \cup {})
      BY <3>4, <3>6, PlainJoin
    <3>8. Plain(a, DrainTxQueue(ended), {} \cup {done} \cup {} \cup {})
      BY <3>5, <3>7, PlainJoin
    <3>9. {} \cup {done} \cup {} \cup {} \subseteq new
      BY <3>2
    <3>. QED  BY <2>2, <3>1, <3>5, <3>8, <3>9 DEF new
  <2>5. CASE Missing(fr) # {} /\ (s.initial > 0 \/ s.repair > 0)
    <3>1. OnReportFrame(a, src, fr) = Arm(a, "watchdog")
      BY <1>2, <2>5 DEF OnReportFrame
    <3>2. Plain(a, Arm(a, "watchdog"), {}) /\ Arm(a, "watchdog").rx = a.rx
      BY TimersPlain DEF Timer
    <3>. QED  BY <1>0, <2>2, <3>1, <3>2
  <2>6. CASE Missing(fr) # {} /\ ~(s.initial > 0 \/ s.repair > 0) /\ s.round >= RepairMax
    <3>1. OnReportFrame(a, src, fr) = EndSession(cleared)
      BY <1>2, <2>6 DEF OnReportFrame
    <3>. HIDE DEF cleared, new
    <3>2. Plain(cleared, EndSession(cleared), {}) /\ EndSession(cleared).rx = a.rx
      BY <2>3, EndPlain
    <3>3. Plain(a, EndSession(cleared), {} \cup {})
      BY <2>3, <3>2, PlainJoin
    <3>4. {} \cup {} \subseteq new
      OBVIOUS
    <3>. QED  BY <2>2, <3>1, <3>2, <3>3, <3>4 DEF new
  <2>7. CASE Missing(fr) # {} /\ ~(s.initial > 0 \/ s.repair > 0) /\ ~(s.round >= RepairMax)
    <3>1. s.round + 1 \in 0..RepairMax
      BY <2>1, <2>7, Bounds DEF SendSession
    <3>2. /\ t \in SendSession /\ t # None
          /\ t.to = s.to /\ t.file = f /\ t.resends = s.resends
      BY <1>2, <2>1, <3>1, NoneAssumption DEF SendSession
    <3>3. [a EXCEPT !.session.round = @ + 1] = next
      BY DEF App
    <3>4. OnReportFrame(a, src, fr) = DrainTxQueue(armed)
      BY <1>2, <2>7, <3>3 DEF OnReportFrame
    <3>. HIDE DEF t
    <3>5. next \in App /\ next.session = t /\ Keeps(a, next, {"session"})
      BY <3>2 DEF App, Keeps, Fields
    <3>. HIDE DEF next
    <3>6. next.rx = a.rx /\ Keeps(a, next, {"session", "rx", "timers"})
      BY <3>5 DEF Keeps, Fields
    <3>7. Plain(a, next, {})
      BY <1>2, <3>2, <3>5, <3>6, PipesSame DEF Plain, SessionKept
    <3>8. ChunkFrames(t) \subseteq new
      BY <1>2, <3>2 DEF Answers, ChunkFrames
    <3>. HIDE DEF new, s
    <3>9. Plain(next, repaired, ChunkFrames(t)) /\ repaired \in App /\ repaired.rx = a.rx
      BY <1>0, <3>2, <3>5, <3>6, EnqueueChunksPlain DEF Datas
    <3>. HIDE DEF repaired
    <3>10. Plain(repaired, armed, {}) /\ armed \in App /\ armed.rx = a.rx
      BY <3>9, TimersPlain DEF Timer
    <3>. HIDE DEF armed
    <3>11. Plain(armed, DrainTxQueue(armed), {}) /\ DrainTxQueue(armed).rx = a.rx
      BY <3>10, DrainPlain
    <3>12. Plain(a, repaired, {} \cup ChunkFrames(t))
      BY <3>7, <3>9, PlainJoin
    <3>13. Plain(a, armed, {} \cup ChunkFrames(t) \cup {})
      BY <3>10, <3>12, PlainJoin
    <3>14. Plain(a, DrainTxQueue(armed), {} \cup ChunkFrames(t) \cup {} \cup {})
      BY <3>11, <3>13, PlainJoin
    <3>15. {} \cup ChunkFrames(t) \cup {} \cup {} \subseteq new
      BY <3>8
    <3>. QED  BY <2>2, <3>4, <3>11, <3>14, <3>15 DEF new
  <2>. QED  BY <2>4, <2>5, <2>6, <2>7
<1>. QED  BY <1>1, <1>2

LEMMA OnDonePlain ==
  ASSUME NEW a \in App, NEW fr \in Frame
  PROVE  LET b == OnDoneFrame(a, fr)
         IN  Plain(a, b, {}) /\ b.rx = a.rx /\ EndedBy(a, b, fr)
<1> DEFINE cleared == ClearQueuedFramesForFile(a, fr.file)
<1>1. CASE a.session = None \/ a.session.file # fr.file
  <2>1. OnDoneFrame(a, fr) = a
    BY <1>1 DEF OnDoneFrame
  <2>2. Plain(a, a, {})
    BY DEF Plain, Pipes, SessionKept
  <2>. QED  BY <2>1, <2>2 DEF EndedBy
<1>2. CASE ~(a.session = None \/ a.session.file # fr.file)
  <2>1. OnDoneFrame(a, fr) = EndSession(cleared)
    BY <1>2 DEF OnDoneFrame
  <2>2. Plain(a, cleared, {}) /\ cleared \in App /\ cleared.rx = a.rx
    BY ClearPlain DEF Frame
  <2>. HIDE DEF cleared
  <2>3. Plain(cleared, EndSession(cleared), {}) /\ EndSession(cleared).rx = a.rx
    BY <2>2, EndPlain
  <2>4. Plain(a, EndSession(cleared), {} \cup {})
    BY <2>2, <2>3, PlainJoin
  <2>5. Plain(a, EndSession(cleared), {})
    BY <2>4, PlainMore
  <2>. QED  BY <1>2, <2>1, <2>3, <2>5 DEF EndedBy
<1>. QED  BY <1>1, <1>2

-----------------------------------------------------------------------------
(* Receiving: the frames and the receive session. *)

\* The receive session of b is that of a, and not whole unless it was.
RxKept(a, b) ==
  b.rx # None =>
    /\ a.rx # None /\ b.rx.file = a.rx.file /\ b.rx.src = a.rx.src
    /\ a.rx.completed => b.rx.completed
    /\ b.rx.got = Chunk => a.rx.got = Chunk

\* The frames by which a receiver tells the sender of object f how far it is.
Tidings(f) == {x \in Frame : x.file = f /\ x.name \in {"REPORT", "DONE"}}

LEMMA OnStartPlain ==
  ASSUME NEW a \in App, NEW src \in Phone, NEW fr \in Frame
  PROVE  LET b == OnStartFrame(a, src, fr)
         IN  /\ Plain(a, b, {}) /\ b.session = a.session
             /\ b.rx = [src |-> src, file |-> fr.file, got |-> {}, completed |-> FALSE]
<1> DEFINE rx == [src |-> src, file |-> fr.file, got |-> {}, completed |-> FALSE]
           c == [a EXCEPT !.rx = rx]
<1>1. rx \in ReceiveSession
  BY DEF ReceiveSession, Frame
<1>2. c \in App /\ Keeps(a, c, {"rx"}) /\ c.rx = rx
  BY <1>1, RxType
<1>3. OnStartFrame(a, src, fr) = Arm(c, "report")
  BY DEF OnStartFrame
<1>. HIDE DEF c, rx
<1>4. Keeps(a, c, {"session", "rx", "timers"}) /\ c.session = a.session
  BY <1>2 DEF Keeps, Fields
<1>5. Plain(a, c, {})
  BY <1>4, PlainSame
<1>6. /\ Plain(c, Arm(c, "report"), {}) /\ Arm(c, "report").session = c.session
      /\ Arm(c, "report").rx = rx
  BY <1>2, TimersPlain DEF Timer
<1>7. Plain(a, Arm(c, "report"), {} \cup {})
  BY <1>5, <1>6, PlainJoin
<1>8. Plain(a, Arm(c, "report"), {})
  BY <1>7, PlainMore
<1>. QED  BY <1>3, <1>4, <1>6, <1>8 DEF rx

\* sendReport, on a phone with a receive session.
LEMMA SendReportPlain ==
  ASSUME NEW a \in App, a.rx # None
  PROVE  LET b == SendReport(a)
             fr == [to |-> a.rx.src, file |-> a.rx.file, name |-> "REPORT", chunks |-> a.rx.got]
         IN  /\ Plain(a, b, {fr}) /\ fr \in Tidings(a.rx.file)
             /\ b \in App /\ b.session = a.session /\ b.rx = a.rx
<1>1. /\ a.rx.src \in Phone /\ a.rx.file \in Object /\ a.rx.got \in SUBSET Chunk
  BY DEF App, ReceiveSession
<1>2. "REPORT" \in Name /\ "REPORT" \notin Starts
  BY DEF Name, Starts
<1>3. SendReport(a) = EnqueueFrame(a, a.rx.src, a.rx.file, "REPORT", a.rx.got)
  BY DEF SendReport
<1>4. [to |-> a.rx.src, file |-> a.rx.file, name |-> "REPORT", chunks |-> a.rx.got]
        \in Tidings(a.rx.file)
  BY <1>1, <1>2 DEF Tidings, Frame
<1> DEFINE b == SendReport(a)
           fr == [to |-> a.rx.src, file |-> a.rx.file, name |-> "REPORT", chunks |-> a.rx.got]
<1>5. Plain(a, b, {fr}) /\ b \in App /\ b.session = a.session /\ b.rx = a.rx
  BY <1>1, <1>2, <1>3, EnqueuePlain
<1>. QED  BY <1>4, <1>5

LEMMA CompletePlain ==
  ASSUME NEW a \in App, a.rx # None
  PROVE  LET b == CompleteReceive(a)
         IN  /\ Plain(a, b, Tidings(a.rx.file)) /\ b.session = a.session
             /\ b.rx = [a.rx EXCEPT !.completed = TRUE]
<1> DEFINE rx == [a.rx EXCEPT !.completed = TRUE]
           b == [a EXCEPT !.rx = rx]
           c == SendReport(b)
           d == EnqueueFrame(c, rx.src, rx.file, "DONE", {})
           report == [to |-> rx.src, file |-> rx.file, name |-> "REPORT", chunks |-> rx.got]
           done == [to |-> rx.src, file |-> rx.file, name |-> "DONE", chunks |-> {}]
           new == Tidings(a.rx.file)
<1>1. /\ rx \in ReceiveSession /\ rx.src \in Phone /\ rx.file \in Object
      /\ rx.file = a.rx.file
  BY DEF App, ReceiveSession
<1>2. b \in App /\ b.rx = rx /\ b.rx # None /\ Keeps(a, b, {"rx"})
  BY <1>1, RxType
<1>3. CompleteReceive(a) = DrainTxQueue(d)
  BY DEF CompleteReceive
<1>4. /\ "DONE" \in Name /\ "DONE" \notin Starts /\ {} \in SUBSET Chunk
  BY DEF Name, Starts
<1>5. done \in new
  BY <1>1, <1>4 DEF Tidings, Frame
<1>. HIDE DEF b, rx, new, done
<1>6. Keeps(a, b, {"session", "rx", "timers"}) /\ b.session = a.session
  BY <1>2 DEF Keeps, Fields
<1>7. Plain(a, b, {})
  BY <1>6, PlainSame
<1>8. /\ Plain(b, c, {report}) /\ report \in new
      /\ c \in App /\ c.session = a.session /\ c.rx = rx
  <2>1. /\ report = [to |-> b.rx.src, file |-> b.rx.file, name |-> "REPORT",
                      chunks |-> b.rx.got]
        /\ new = Tidings(b.rx.file)
    BY <1>1, <1>2 DEF new
  <2>. HIDE DEF report
  <2>. QED  BY <1>2, <1>6, <2>1, SendReportPlain
<1>. HIDE DEF c
<1>9. Plain(c, d, {done}) /\ d \in App /\ d.session = a.session /\ d.rx = rx
  <2>1. rx.src \in Phone /\ rx.file \in Object /\ c \in App
    BY <1>1, <1>8
  <2>2. Plain(c, d, {done}) /\ d \in App /\ d.session = c.session /\ d.rx = c.rx
    BY <1>4, <2>1, EnqueuePlain DEF done
  <2>. HIDE DEF d
  <2>. QED  BY <1>8, <2>2
<1>. HIDE DEF d, report
<1>10. /\ Plain(d, DrainTxQueue(d), {})
       /\ DrainTxQueue(d).session = a.session /\ DrainTxQueue(d).rx = rx
  BY <1>9, DrainPlain
<1>11. Plain(a, c, {} \cup {report})
  BY <1>7, <1>8, PlainJoin
<1>12. Plain(a, d, {} \cup {report} \cup {done})
  BY <1>9, <1>11, PlainJoin
<1>13. Plain(a, DrainTxQueue(d), {} \cup {report} \cup {done} \cup {})
  BY <1>10, <1>12, PlainJoin
<1>14. {} \cup {report} \cup {done} \cup {} \subseteq new
  BY <1>5, <1>8
<1>15. Plain(a, DrainTxQueue(d), new)
  BY <1>13, <1>14, PlainMore
<1>. QED  BY <1>3, <1>10, <1>15 DEF new, rx

LEMMA OnDataPlain ==
  ASSUME NEW a \in App, NEW src \in Phone, NEW fr \in Frame, fr.name \in Datas
  PROVE  LET b == OnDataFrame(a, src, fr)
         IN  /\ b.session = a.session
             /\ ~Completes(a, src, fr) => Plain(a, b, {}) /\ RxKept(a, b)
             /\ Completes(a, src, fr) =>
                  /\ Plain(a, b, Tidings(fr.file))
                  /\ b.rx = [a.rx EXCEPT !.got = Chunk, !.completed = TRUE]
<1> DEFINE c == [a EXCEPT !.rx.got = @ \cup fr.chunks]
           deaf == a.rx = None \/ a.rx.file # fr.file \/ a.rx.src # src \/ a.rx.completed
<1>1. CASE deaf
  <2>1. OnDataFrame(a, src, fr) = a /\ ~Completes(a, src, fr)
    BY <1>1 DEF OnDataFrame, Completes
  <2>2. Plain(a, a, {}) /\ RxKept(a, a)
    BY DEF Plain, Pipes, SessionKept, RxKept
  <2>. QED  BY <2>1, <2>2
<1>2. CASE ~deaf
  <2>1. a.rx \in ReceiveSession /\ fr.chunks \in SUBSET Chunk /\ a.rx.got \in SUBSET Chunk
    BY <1>2 DEF App, Frame, ReceiveSession
  <2> DEFINE rx == [a.rx EXCEPT !.got = @ \cup fr.chunks]
             n == Cardinality(c.rx.got)
  <2>2. rx \in ReceiveSession /\ rx.got = a.rx.got \cup fr.chunks
        /\ rx.file = fr.file /\ rx.src = a.rx.src /\ rx.completed = a.rx.completed
    BY <1>2, <2>1 DEF ReceiveSession
  <2>3. c = [a EXCEPT !.rx = rx]
    BY DEF App
  <2>4. c \in App /\ c.rx = rx /\ c.rx # None /\ Keeps(a, c, {"rx"})
    BY <2>2, <2>3, RxType
  <2>5. /\ n = Cardinality(Chunk) => OnDataFrame(a, src, fr) = CompleteReceive(c)
        /\ n # Cardinality(Chunk) =>
             \/ OnDataFrame(a, src, fr) = Arm(c, "report")
             \/ OnDataFrame(a, src, fr) = c
    BY <1>2 DEF OnDataFrame
  <2>6. Completes(a, src, fr) <=> rx.got = Chunk
    BY <1>2, <2>2 DEF Completes, Datas
  <2>. HIDE DEF rx, c
  <2>7. n = Cardinality(Chunk) <=> rx.got = Chunk
    <3>1. rx.got \in SUBSET Chunk
      BY <2>1, <2>2
    <3>. QED  BY <2>4, <3>1, ChunkAssumption, FS_Subset
  <2>8. Keeps(a, c, {"session", "rx", "timers"}) /\ c.session = a.session
    BY <2>4 DEF Keeps, Fields
  <2>9. Plain(a, c, {})
    BY <2>8, PlainSame
  <2>10. CASE rx.got = Chunk
    <3>1. OnDataFrame(a, src, fr) = CompleteReceive(c) /\ Completes(a, src, fr)
      BY <2>5, <2>6, <2>7, <2>10
    <3> DEFINE b == CompleteReceive(c)
    <3>2. /\ Plain(c, b, Tidings(fr.file)) /\ b.session = c.session
          /\ b.rx = [rx EXCEPT !.completed = TRUE]
      BY <2>2, <2>4, CompletePlain
    <3>. HIDE DEF b
    <3>3. Plain(a, b, {} \cup Tidings(fr.file))
      BY <2>9, <3>2, PlainJoin
    <3>4. Plain(a, b, Tidings(fr.file))
      BY <3>3, PlainMore
    <3>5. b.rx = [a.rx EXCEPT !.got = Chunk, !.completed = TRUE]
      BY <2>1, <2>2, <2>10, <3>2 DEF ReceiveSession, rx
    <3>. QED  BY <2>8, <3>1, <3>2, <3>4, <3>5 DEF b
  <2>11. CASE rx.got # Chunk
    <3>1. /\ ~Completes(a, src, fr)
          /\ \/ OnDataFrame(a, src, fr) = Arm(c, "report")
             \/ OnDataFrame(a, src, fr) = c
      BY <2>5, <2>6, <2>7, <2>11
    <3>2. /\ Plain(c, Arm(c, "report"), {}) /\ Arm(c, "report").session = c.session
          /\ Arm(c, "report").rx = rx
      BY <2>4, TimersPlain DEF Timer
    <3>3. Plain(a, Arm(c, "report"), {} \cup {})
      BY <2>9, <3>2, PlainJoin
    <3>4. Plain(a, Arm(c, "report"), {})
      BY <3>3, PlainMore
    <3>5. ASSUME NEW b, b.rx = rx PROVE RxKept(a, b)
      BY <1>2, <2>2, <2>11, <3>5 DEF RxKept
    <3>. QED  BY <2>4, <2>8, <2>9, <3>1, <3>2, <3>4, <3>5
  <2>. QED  BY <2>10, <2>11
<1>. QED  BY <1>1, <1>2

-----------------------------------------------------------------------------
(* A new round: START and the chunks, into an empty queue. *)

RoundFrames(s) ==
  {fr \in Frame : fr.to = s.to /\ fr.file = s.file /\ fr.name \in Starts \cup Datas}

LEMMA RoundPipes ==
  ASSUME NEW a \in App, Lined(a), a.active = None, a.queue = <<>>, a.session # None,
         NEW first \in Starts, NEW chunks \in SUBSET Chunk, NEW name \in Datas,
         name = "DATA" => a.session.initial = 1
  PROVE  LET start == EnqueueFrame(a, a.session.to, a.session.file, first, {})
             b == DrainTxQueue(Arm(EnqueueChunks(start, chunks, name), "watchdog"))
         IN  /\ Lined(b) /\ Calm(b) /\ Held(b) \subseteq RoundFrames(a.session)
             /\ b \in App /\ b.rx = a.rx /\ b.session # None
             /\ b.session.file = a.session.file /\ b.session.to = a.session.to
             /\ b.session.resends = a.session.resends
<1> DEFINE s == a.session
           fr == [to |-> s.to, file |-> s.file, name |-> first, chunks |-> {}]
           start == EnqueueFrame(a, s.to, s.file, first, {})
           cut == EnqueueChunks(start, chunks, name)
           armed == Arm(cut, "watchdog")
           b == DrainTxQueue(armed)
<1>1. s \in SendSession /\ s.to \in Phone /\ s.file \in Object
  BY SessionTyped
<1>2. first \in Name /\ {} \in SUBSET Chunk /\ fr \in RoundFrames(s)
  BY <1>1 DEF Name, Starts, RoundFrames, Frame
<1>3. start.queue = Append(<<>>, fr)
  BY DEF EnqueueFrame, App
<1>4. start \in App /\ Keeps(a, start, {"queue"})
  BY <1>1, <1>2, EnqueueType
<1>. HIDE DEF fr, start, s
<1>5. /\ start.session = s /\ start.rx = a.rx /\ start.active = None
      /\ start.ready = a.ready /\ start.commands = a.commands
  BY <1>4 DEF Keeps, Fields, s
<1>6. /\ cut \in App /\ cut.rx = a.rx /\ cut.session # None
      /\ cut.session.file = s.file /\ cut.session.to = s.to /\ cut.session.resends = s.resends
      /\ \E frames \in Seq(ChunkFrames(s)) : cut.queue = start.queue \o frames
      /\ cut.ready = start.ready /\ cut.active = None /\ cut.commands = start.commands
  <2>1. start.session # None /\ (name = "DATA" => start.session.initial = 1)
    BY <1>5 DEF s
  <2>2. /\ cut \in App /\ cut.rx = start.rx /\ cut.session # None
        /\ cut.session.file = start.session.file /\ cut.session.to = start.session.to
        /\ cut.session.resends = start.session.resends
        /\ \E frames \in Seq(ChunkFrames(start.session)) : cut.queue = start.queue \o frames
        /\ cut.ready = start.ready /\ cut.active = start.active
        /\ cut.commands = start.commands
    BY <1>4, <2>1, EnqueueChunksPlain
  <2>. HIDE DEF cut
  <2>. QED  BY <1>5, <2>2
<1>. HIDE DEF cut
<1>7. PICK frames \in Seq(ChunkFrames(s)) : cut.queue = Append(<<>>, fr) \o frames
  BY <1>3, <1>6
<1>8. Keeps(cut, armed, {"timers"}) /\ armed \in App
  BY <1>6, TimersType DEF Timer
<1>. HIDE DEF armed
<1>9. /\ armed.session = cut.session /\ armed.rx = a.rx /\ armed.active = None
      /\ armed.queue = cut.queue /\ armed.ready = a.ready /\ armed.commands = a.commands
  BY <1>5, <1>6, <1>8 DEF Keeps, Fields
<1>10. Lined(armed)
  BY <1>9 DEF Lined
<1>11. /\ cut.queue # <<>> /\ Head(cut.queue) = fr
       /\ \A k \in DOMAIN Tail(cut.queue) : Tail(cut.queue)[k] \in ChunkFrames(s)
  <2>1. fr \in Frame /\ frames \in Seq(Frame)
    BY <1>2 DEF RoundFrames, ChunkFrames
  <2>2. Append(<<>>, fr) = <<fr>> /\ <<fr>> \in Seq(Frame) /\ Len(<<fr>>) = 1 /\ <<fr>>[1] = fr
    BY <2>1
  <2>3. /\ cut.queue \in Seq(Frame) /\ Len(cut.queue) = 1 + Len(frames)
        /\ \A i \in 1..1 + Len(frames) :
             cut.queue[i] = IF i <= 1 THEN <<fr>>[i] ELSE frames[i - 1]
    BY <1>7, <2>1, <2>2, ConcatProperties
  <2>4. Len(frames) \in Nat /\ DOMAIN frames = 1..Len(frames)
    BY <2>1
  <2>5. cut.queue # <<>>
    BY <2>3, <2>4
  <2>6. /\ Head(cut.queue) = cut.queue[1]
        /\ Len(Tail(cut.queue)) = Len(frames) /\ Tail(cut.queue) \in Seq(Frame)
        /\ \A i \in 1..Len(Tail(cut.queue)) : Tail(cut.queue)[i] = cut.queue[i + 1]
    BY <2>3, <2>4, <2>5, HeadTailProperties
  <2>7. Head(cut.queue) = fr
    BY <2>2, <2>3, <2>4, <2>6
  <2>8. ASSUME NEW k \in DOMAIN Tail(cut.queue) PROVE Tail(cut.queue)[k] \in ChunkFrames(s)
    <3>1. k \in 1..Len(frames)
      BY <2>6, <2>8
    <3>2. k + 1 \in 1..1 + Len(frames) /\ ~(k + 1 <= 1) /\ (k + 1) - 1 = k
      BY <2>4, <3>1
    <3>3. Tail(cut.queue)[k] = frames[k]
      BY <2>3, <2>6, <3>1, <3>2
    <3>. QED  BY <2>4, <3>1, <3>3
  <2>. QED  BY <2>5, <2>7, <2>8
<1>12. /\ Lined(b) /\ b.queue = Tail(cut.queue) /\ Active(b) \subseteq {fr}
  BY <1>8, <1>9, <1>10, <1>11, DrainFrames
<1>13. b \in App /\ b.session = cut.session /\ b.rx = a.rx
  BY <1>8, <1>9, DrainPlain
<1>. HIDE DEF b
<1>14. Queued(b) \subseteq ChunkFrames(s)
  BY <1>11, <1>12 DEF Queued
<1>15. Calm(b)
  BY <1>14 DEF Calm, ChunkFrames, Starts, Datas
<1>16. Held(b) \subseteq RoundFrames(s)
  BY <1>2, <1>12, <1>14 DEF Held, ChunkFrames, RoundFrames
<1>. QED  BY <1>6, <1>12, <1>13, <1>15, <1>16 DEF b, armed, cut, start, s

-----------------------------------------------------------------------------
(* The invariant. *)

\* What is true of an object once it was offered: who sends it to whom, how
\* many rounds the sender has started, and the number of the round of the last
\* START frame the receiver heard and of the last one put on air.
Story ==
  [src: Phone, dst: Phone, rounds: 0..1 + ResendMax, heard: 0..1 + ResendMax,
   aired: 0..1 + ResendMax]

\* The sender may take the object for delivered.
Good(fr) == fr.name = "DONE" \/ (fr.name = "REPORT" /\ Missing(fr) = {})

\* A frame of p for an object with story st that was given up n times.
Fits(p, fr, st, n) ==
  /\ fr.name \in Starts \cup Datas => p = st.src /\ fr.to = st.dst
  /\ Good(fr) => n > 0

\* The frames of a phone in state a whose pendant sends w.
Ways(a, w) == Held(a) \cup ({w} \ {None})

\* The side of phone p, in state a and its pendant sending w, of an object f
\* with story st, given up n times, that the sender's chat page shows as o.
Side(p, a, w, f, st, n, o) ==
  /\ a.session # None /\ a.session.file = f =>
       /\ o = "sending" /\ p = st.src /\ a.session.to = st.dst
       /\ st.rounds <= a.session.resends + 1
  /\ \A fr \in Ways(a, w) : fr.file = f => Fits(p, fr, st, n)
  /\ a.rx # None /\ a.rx.file = f =>
       /\ p = st.dst /\ a.rx.src = st.src
       /\ ~a.rx.completed => n < st.heard
       /\ a.rx.got = Chunk => n > 0
  /\ w # None /\ w.file = f /\ w.name \in Starts =>
       /\ st.heard <= st.aired /\ st.aired <= st.rounds
       /\ st.aired = st.heard => n < st.heard
  /\ \A fr \in Starting(a) : fr.file = f =>
       /\ st.rounds = st.heard => n < st.heard
       /\ w # None /\ w.file = f /\ w.name \in Datas => st.heard < st.rounds

Told(f, st) ==
  /\ st \in Story
  /\ shown[f] <= st.heard /\ st.heard <= st.rounds
  /\ \A p \in Phone : Side(p, app[p], air[p], f, st, shown[f], outcome[f])

Untouched(a, w, f) ==
  /\ a.session # None => a.session.file # f
  /\ a.rx # None => a.rx.file # f
  /\ \A fr \in Ways(a, w) : fr.file # f

Known(f) ==
  IF f > offered
  THEN /\ shown[f] = 0 /\ outcome[f] = "none"
       /\ \A p \in Phone : Untouched(app[p], air[p], f)
  ELSE outcome[f] # "none" /\ \E st : Told(f, st)

IInv ==
  /\ TypeOK
  /\ \A p \in Phone : Lined(app[p]) /\ Calm(app[p])
  /\ \A f \in Object : Known(f)

LEMMA SideKept ==
  ASSUME NEW p, NEW a, NEW b, NEW w, NEW v, NEW f, NEW st, NEW n, NEW o, NEW u, NEW new,
         Side(p, a, w, f, st, n, o), Calm(a), Plain(a, b, new), RxKept(a, b),
         v = w \/ v = None,
         b.session # None /\ b.session.file = f => u = o,
         \A fr \in new : fr.file = f => Fits(p, fr, st, n)
  PROVE  Side(p, b, v, f, st, n, u)
<1>1. /\ Held(b) \subseteq Held(a) \cup new /\ Starting(b) \subseteq Starting(a)
      /\ SessionKept(a, b)
  BY DEF Plain, Pipes
<1>2. b.session # None /\ b.session.file = f =>
       /\ u = "sending" /\ p = st.src /\ b.session.to = st.dst
       /\ st.rounds <= b.session.resends + 1
  BY <1>1 DEF Side, SessionKept
<1>3. ASSUME NEW fr \in Ways(b, v), fr.file = f PROVE Fits(p, fr, st, n)
  BY <1>1, <1>3 DEF Side, Ways
<1>4. b.rx # None /\ b.rx.file = f =>
       /\ p = st.dst /\ b.rx.src = st.src
       /\ ~b.rx.completed => n < st.heard
       /\ b.rx.got = Chunk => n > 0
  BY DEF Side, RxKept
<1>5. v # None /\ v.file = f /\ v.name \in Starts =>
       /\ st.heard <= st.aired /\ st.aired <= st.rounds
       /\ st.aired = st.heard => n < st.heard
  BY DEF Side
<1>6. \A fr \in Starting(b) : fr.file = f =>
       /\ st.rounds = st.heard => n < st.heard
       /\ v # None /\ v.file = f /\ v.name \in Datas => st.heard < st.rounds
  BY <1>1 DEF Side
<1>. QED  BY <1>2, <1>3, <1>4, <1>5, <1>6 DEF Side

LEMMA UntouchedKept ==
  ASSUME NEW a, NEW b, NEW w, NEW v, NEW f, NEW new,
         Untouched(a, w, f), Plain(a, b, new), RxKept(a, b), v = w \/ v = None,
         \A fr \in new : fr.file # f
  PROVE  Untouched(b, v, f)
BY DEF Untouched, Plain, Pipes, SessionKept, RxKept, Ways

LEMMA SideSame ==
  ASSUME NEW p, NEW a, NEW w, NEW v, NEW f, NEW st, NEW n, NEW o, NEW u,
         Side(p, a, w, f, st, n, o), v = w \/ v = None,
         a.session # None /\ a.session.file = f => u = o
  PROVE  Side(p, a, v, f, st, n, u)
BY DEF Side, Ways

LEMMA UntouchedSame ==
  ASSUME NEW a, NEW w, NEW v, NEW f, Untouched(a, w, f), v = w \/ v = None
  PROVE  Untouched(a, v, f)
BY DEF Untouched, Ways

LEMMA SameKept == ASSUME NEW a PROVE Plain(a, a, {}) /\ RxKept(a, a)
BY DEF Plain, Pipes, SessionKept, RxKept

\* An object with a session, with a receive session or with a frame anywhere
\* was offered.
LEMMA Offered ==
  ASSUME IInv, NEW p \in Phone
  PROVE  /\ app[p].session # None => app[p].session.file <= offered
         /\ app[p].rx # None => app[p].rx.file <= offered
         /\ \A fr \in Ways(app[p], air[p]) : fr.file \in Object => fr.file <= offered
<1>1. app[p] \in App /\ offered \in Nat /\ MaxObjects \in Nat
  BY Bounds DEF IInv, TypeOK
<1>2. \A f \in Object : f > offered => Untouched(app[p], air[p], f)
  BY DEF IInv, Known
<1>3. \A f \in Object : f \in Nat
  BY DEF Object
<1>4. \A f \in Object : ~(f > offered) => f <= offered
  BY <1>1, <1>3
<1>5. app[p].session # None => app[p].session.file \in Object
  BY <1>1, SessionTyped
<1>6. app[p].rx # None => app[p].rx.file \in Object
  BY <1>1 DEF App, ReceiveSession
<1>. QED  BY <1>2, <1>4, <1>5, <1>6 DEF Untouched

LEMMA StoryOf ==
  ASSUME IInv, NEW f \in Object, f <= offered
  PROVE  outcome[f] # "none" /\ \E st : Told(f, st)
<1>1. ~(f > offered)
  BY Bounds DEF IInv, TypeOK, Object
<1>. QED  BY <1>1 DEF IInv, Known

-----------------------------------------------------------------------------
(* The steps. *)

\* The session of p, if there was one, may have ended with a verdict.
Ends(p, b) ==
  \/ outcome' = outcome
  \/ /\ app[p].session # None /\ b.session = None
     /\ \E v \in {"failed", "completed"} :
          /\ outcome' = [outcome EXCEPT ![app[p].session.file] = v]
          /\ v = "completed" => shown[app[p].session.file] > 0

\* What IInv says of the next state, its types apart, and of the step.
Kept ==
  /\ \A p \in Phone : Lined(app'[p]) /\ Calm(app'[p])
  /\ \A f \in Object : Known(f)'
  /\ [Promise!Next]_(Promise!vars)

LEMMA PlainStep ==
  ASSUME IInv, NEW p \in Phone, NEW b \in App, NEW new, MovesTo(p, b),
         Plain(app[p], b, new), RxKept(app[p], b), Ends(p, b),
         offered' = offered, shown' = shown,
         \A r \in Phone : air'[r] = air[r] \/ air'[r] = None,
         \A fr \in new :
           /\ fr.file \in Object /\ fr.file <= offered
           /\ \A st : Told(fr.file, st) => Fits(p, fr, st, shown[fr.file])
  PROVE  Kept
<1>1. /\ app \in [Phone -> App] /\ outcome \in Verdicts /\ offered \in Nat /\ MaxObjects \in Nat
      /\ \A r \in Phone : Lined(app[r]) /\ Calm(app[r])
  BY Bounds DEF IInv, TypeOK, Verdicts
<1>2. /\ app' \in [Phone -> App] /\ app'[p] = b
      /\ \A r \in Phone : r # p => app'[r] = app[r]
  BY <1>1, MoveStep
<1>3. Lined(b) /\ Calm(b)
  BY <1>1 DEF Plain, Pipes
<1>4. ASSUME app[p].session # None
      PROVE  /\ app[p].session.file \in Object /\ app[p].session.file <= offered
             /\ outcome[app[p].session.file] = "sending"
             /\ \A r \in Phone : app[r].session # None
                  /\ app[r].session.file = app[p].session.file => r = p
  <2> DEFINE g == app[p].session.file
  <2>1. g \in Object /\ g <= offered
    BY <1>1, <1>4, SessionTyped, Offered
  <2>2. PICK st : Told(g, st)
    BY <2>1, StoryOf
  <2>. QED  BY <1>4, <2>1, <2>2 DEF Told, Side
<1>5. ASSUME NEW f \in Object, outcome'[f] # outcome[f]
      PROVE  app[p].session # None /\ f = app[p].session.file /\ b.session = None
  BY <1>1, <1>5 DEF Ends, Verdicts
<1>6. ASSUME NEW f \in Object, f > offered PROVE Known(f)'
  <2>1. /\ shown[f] = 0 /\ outcome[f] = "none"
        /\ \A r \in Phone : Untouched(app[r], air[r], f)
    BY <1>6 DEF IInv, Known
  <2>2. outcome'[f] = outcome[f]
    BY <1>1, <1>4, <1>5, <1>6 DEF Object
  <2>3. \A fr \in new : fr.file # f
    BY <1>1, <1>6 DEF Object
  <2>4. Untouched(b, air'[p], f)
    BY <2>1, <2>3, UntouchedKept
  <2>5. ASSUME NEW r \in Phone, r # p PROVE Untouched(app'[r], air'[r], f)
    <3>1. Untouched(app[r], air'[r], f)
      BY <2>1, UntouchedSame
    <3>. QED  BY <1>2, <2>5, <3>1
  <2>6. \A r \in Phone : Untouched(app'[r], air'[r], f)
    BY <1>2, <2>4, <2>5
  <2>. QED  BY <1>6, <2>1, <2>2, <2>6 DEF Known
<1>7. ASSUME NEW f \in Object, ~(f > offered) PROVE Known(f)'
  <2>1. outcome[f] # "none" /\ \E st : Told(f, st)
    BY <1>7 DEF IInv, Known
  <2>2. PICK st : Told(f, st)
    BY <2>1
  <2>3. \A r \in Phone : Side(r, app[r], air[r], f, st, shown[f], outcome[f])
    BY <2>2 DEF Told
  <2>4. outcome'[f] # "none"
    <3>1. CASE outcome'[f] = outcome[f]
      BY <2>1, <3>1
    <3>2. CASE outcome'[f] # outcome[f]
      BY <1>1, <1>5, <3>2 DEF Ends, Verdicts
    <3>. QED  BY <3>1, <3>2
  <2>5. Side(p, b, air'[p], f, st, shown[f], outcome'[f])
    <3>1. b.session # None /\ b.session.file = f => outcome'[f] = outcome[f]
      BY <1>5
    <3>2. \A fr \in new : fr.file = f => Fits(p, fr, st, shown[f])
      BY <2>2
    <3>. QED  BY <1>1, <2>3, <3>1, <3>2, SideKept
  <2>6. ASSUME NEW r \in Phone, r # p
        PROVE  Side(r, app'[r], air'[r], f, st, shown[f], outcome'[f])
    <3>1. app[r].session # None /\ app[r].session.file = f => outcome'[f] = outcome[f]
      BY <1>4, <1>5, <2>6
    <3>2. Side(r, app[r], air'[r], f, st, shown[f], outcome'[f])
      BY <2>3, <3>1, SideSame
    <3>. QED  BY <1>2, <2>6, <3>2
  <2>7. \A r \in Phone : Side(r, app'[r], air'[r], f, st, shown[f], outcome'[f])
    BY <1>2, <2>5, <2>6
  <2>8. Told(f, st)'
    BY <2>2, <2>7 DEF Told
  <2>. QED  BY <1>7, <2>4, <2>8 DEF Known
<1>8. [Promise!Next]_(Promise!vars)
  <2>1. CASE outcome' = outcome
    BY <2>1 DEF Promise!vars
  <2>2. CASE outcome' # outcome
    <3> DEFINE g == app[p].session.file
    <3>1. PICK v \in {"failed", "completed"} :
            /\ app[p].session # None
            /\ outcome' = [outcome EXCEPT ![g] = v]
            /\ v = "completed" => shown[g] > 0
      BY <2>2 DEF Ends
    <3>2. g \in Object /\ outcome[g] = "sending"
      BY <1>4, <3>1
    <3>. HIDE DEF g
    <3>3. Promise!Fail(g) \/ Promise!Complete(g)
      BY <3>1, <3>2 DEF Promise!Fail, Promise!Complete
    <3>. QED  BY <3>2, <3>3 DEF Promise!Next
  <2>. QED  BY <2>1, <2>2
<1>. QED  BY <1>1, <1>2, <1>3, <1>6, <1>7, <1>8 DEF Kept

\* A step that adds no frame.
LEMMA QuietStep ==
  ASSUME IInv, NEW p \in Phone, NEW b \in App, MovesTo(p, b),
         Plain(app[p], b, {}), b.rx = app[p].rx, Ends(p, b),
         offered' = offered, shown' = shown, air' = air
  PROVE  Kept
<1>1. RxKept(app[p], b)
  BY DEF RxKept
<1>2. \A fr \in {} : /\ fr.file \in Object /\ fr.file <= offered
                     /\ \A st : Told(fr.file, st) => Fits(p, fr, st, shown[fr.file])
  OBVIOUS
<1>. QED  BY <1>1, <1>2, PlainStep

LEMMA PhoneTyped ==
  ASSUME IInv, NEW p \in Phone
  PROVE  /\ app \in [Phone -> App] /\ app[p] \in App
         /\ outcome \in Verdicts /\ Lined(app[p]) /\ Calm(app[p])
BY DEF IInv, TypeOK, Verdicts

LEMMA RunKept ==
  ASSUME IInv, NEW p \in Phone, RunDrain(p) \/ RunRetry(p)
  PROVE  Kept
<1> DEFINE z == app[p]
<1>1. z \in App
  BY PhoneTyped
<1>2. UNCHANGED <<air, offered, outcome, shown>>
  BY DEF RunDrain, RunRetry
<1>3. ASSUME NEW b \in App, MovesTo(p, b), Plain(z, b, {}), b.rx = z.rx PROVE Kept
  BY <1>2, <1>3, QuietStep DEF Ends
<1>4. CASE RunDrain(p)
  <2> DEFINE a == Disarm(z, "drain")
             b == DrainTxQueue(a)
  <2>1. MovesTo(p, b)
    BY <1>4 DEF RunDrain, MovesTo
  <2>2. a \in App /\ Plain(z, a, {}) /\ a.rx = z.rx
    BY <1>1, TimersPlain DEF Timer
  <2>. HIDE DEF a
  <2>3. b \in App /\ Plain(a, b, {}) /\ b.rx = z.rx
    BY <2>2, DrainPlain
  <2>. HIDE DEF b
  <2>4. Plain(z, b, {} \cup {})
    BY <2>2, <2>3, PlainJoin
  <2>5. Plain(z, b, {})
    BY <2>4, PlainMore
  <2>. QED  BY <1>3, <2>1, <2>3, <2>5
<1>5. CASE RunRetry(p)
  <2> DEFINE a == Disarm(z, "retry")
             b == SendActiveFrame(a)
  <2>1. MovesTo(p, b)
    BY <1>5 DEF RunRetry, MovesTo
  <2>2. a \in App /\ Plain(z, a, {}) /\ a.rx = z.rx
    BY <1>1, TimersPlain DEF Timer
  <2>. HIDE DEF a
  <2>3. b \in App /\ Keeps(a, b, {"active", "commands"}) /\ Pipes(a, b, {})
    BY <2>2, SendActiveType, SendActivePipes
  <2>. HIDE DEF b
  <2>4. b.rx = z.rx /\ b.session = a.session
    BY <2>2, <2>3 DEF Keeps, Fields
  <2>5. Plain(a, b, {})
    BY <2>3, <2>4, PlainKeeps
  <2>6. Plain(z, b, {} \cup {})
    BY <2>2, <2>5, PlainJoin
  <2>7. Plain(z, b, {})
    BY <2>6, PlainMore
  <2>. QED  BY <1>3, <2>1, <2>3, <2>4, <2>7
<1>. QED  BY <1>4, <1>5

LEMMA LinkKept ==
  ASSUME IInv, NEW p \in Phone, LinkLost(p) \/ LinkUp(p)
  PROVE  Kept
<1> DEFINE z == app[p]
<1>1. z \in App /\ Lined(z)
  BY PhoneTyped
<1>2. UNCHANGED <<air, offered, shown>>
  BY DEF LinkLost, LinkUp
<1>3. CASE LinkLost(p)
  <2> DEFINE c == [z EXCEPT !.ready = FALSE, !.active = None, !.queue = <<>>, !.commands = <<>>]
             b == EndSession(c)
  <2>1. /\ MovesTo(p, b)
        /\ outcome' = IF z.session = None THEN outcome
                      ELSE [outcome EXCEPT ![z.session.file] = "failed"]
    BY <1>3 DEF LinkLost, LinkDown, MovesTo
  <2>2. <<>> \in Seq(Frame) /\ <<>> \in Seq(Command)
    OBVIOUS
  <2>3. /\ c \in App /\ c.active = None /\ c.queue = <<>> /\ c.commands = <<>>
        /\ c.session = z.session /\ c.rx = z.rx
    BY <1>1, <2>2 DEF App
  <2>. HIDE DEF c
  <2>4. Plain(z, c, {})
    <3>1. Lined(c) /\ Held(c) = {} /\ Calm(c) /\ Starting(c) = {}
      BY <2>3 DEF Lined, Held, Queued, Active, Calm, Starting
    <3>. QED  BY <2>3, <3>1 DEF Plain, Pipes, SessionKept
  <2>5. b \in App /\ Plain(c, b, {}) /\ b.session = None /\ b.rx = z.rx
    BY <2>3, EndPlain
  <2>. HIDE DEF b
  <2>6. Plain(z, b, {} \cup {})
    BY <2>4, <2>5, PlainJoin
  <2>7. Plain(z, b, {})
    BY <2>6, PlainMore
  <2>8. Ends(p, b)
    BY <2>1, <2>5 DEF Ends
  <2>. QED  BY <1>2, <2>1, <2>5, <2>7, <2>8, QuietStep
<1>4. CASE LinkUp(p)
  <2> DEFINE c == [z EXCEPT !.ready = TRUE]
             b == DrainTxQueue(c)
  <2>1. MovesTo(p, b) /\ outcome' = outcome /\ ~z.ready
    BY <1>4 DEF LinkUp, MovesTo
  <2>2. /\ c \in App /\ c.session = z.session /\ c.rx = z.rx
        /\ c.queue = z.queue /\ c.active = z.active /\ c.commands = z.commands
    BY <1>1 DEF App
  <2>. HIDE DEF c
  <2>3. z.commands = <<>>
    BY <1>1, <2>1 DEF Lined
  <2>4. Plain(z, c, {})
    <3>1. Lined(c) /\ Held(c) = Held(z) /\ Starting(c) = Starting(z) /\ (Calm(z) => Calm(c))
      BY <2>2, <2>3 DEF Lined, Held, Queued, Active, Calm, Starting
    <3>. QED  BY <2>2, <3>1 DEF Plain, Pipes, SessionKept
  <2>5. b \in App /\ Plain(c, b, {}) /\ b.rx = z.rx
    BY <2>2, DrainPlain
  <2>. HIDE DEF b
  <2>6. Plain(z, b, {} \cup {})
    BY <2>4, <2>5, PlainJoin
  <2>7. Plain(z, b, {})
    BY <2>6, PlainMore
  <2>. QED  BY <1>2, <2>1, <2>5, <2>7, QuietStep DEF Ends
<1>. QED  BY <1>3, <1>4

LEMMA LoseKept ==
  ASSUME IInv, NEW p \in Phone, Lose(p)
  PROVE  Kept
<1>1. UNCHANGED <<app, offered, outcome, shown>>
  BY DEF Lose
<1>2. app[p] \in App /\ MovesTo(p, app[p]) /\ Ends(p, app[p])
  BY <1>1, PhoneTyped DEF MovesTo, Ends
<1>3. \A r \in Phone : air'[r] = air[r] \/ air'[r] = None
  BY DEF Lose, IInv, TypeOK
<1>4. Plain(app[p], app[p], {}) /\ RxKept(app[p], app[p])
  BY SameKept
<1>5. \A fr \in {} : /\ fr.file \in Object /\ fr.file <= offered
                     /\ \A st : Told(fr.file, st) => Fits(p, fr, st, shown[fr.file])
  OBVIOUS
<1>. QED  BY <1>1, <1>2, <1>3, <1>4, <1>5, PlainStep

LEMMA DropKept ==
  ASSUME IInv, NEW p \in Phone, DropCommand(p) \/ UnbindDevice(p)
  PROVE  Kept
<1> DEFINE z == app[p]
           cs == z.commands
<1>1. z \in App /\ Lined(z) /\ app \in [Phone -> App]
  BY PhoneTyped
<1>2. UNCHANGED <<air, offered, outcome, shown>>
  BY DEF DropCommand, UnbindDevice
\* The commands may thin out, as long as they stay in line.
<1>3. ASSUME NEW b \in App, MovesTo(p, b), b.session = z.session, b.rx = z.rx,
             b.active = z.active, b.queue = z.queue, Lined(b)
      PROVE  Kept
  <2>1. Plain(z, b, {})
    <3>1. Held(b) = Held(z) /\ Starting(b) = Starting(z) /\ (Calm(z) => Calm(b))
      BY <1>3 DEF Held, Queued, Active, Starting, Calm
    <3>. QED  BY <1>3, <3>1 DEF Plain, Pipes, SessionKept
  <2>. QED  BY <1>2, <1>3, <2>1, QuietStep DEF Ends
<1>4. CASE DropCommand(p)
  <2>1. PICK k \in DOMAIN cs : app' = [app EXCEPT ![p].commands = RemoveAt(@, k)]
    BY <1>4 DEF DropCommand
  <2> DEFINE ds == RemoveAt(cs, k)
             b == [z EXCEPT !.commands = ds]
  <2>2. cs \in Seq(Command) /\ Len(cs) \in Nat /\ DOMAIN cs = 1..Len(cs)
    BY <1>1 DEF App
  <2>3. k \in Nat /\ k >= 1 /\ k <= Len(cs)
    BY <2>2
  <2>4. /\ ds \in Seq(Command) /\ Len(ds) = Len(cs) - 1
        /\ \A i \in 1..Len(cs) - 1 : ds[i] = IF i < k THEN cs[i] ELSE cs[i + 1]
    <3> DEFINE u == SubSeq(cs, 1, k - 1)
               v == SubSeq(cs, k + 1, Len(cs))
    <3>1. k - 1 \in Int /\ k + 1 \in Int /\ Len(cs) \in Int /\ 1 \in Int
      BY <2>2, <2>3
    <3>2. \A i \in 1..Len(cs) : cs[i] \in Command
      BY <2>2
    <3>3. /\ u \in Seq(Command) /\ Len(u) = k - 1
          /\ \A i \in 1..k - 1 : u[i] = cs[1 + i - 1]
      BY <2>2, <2>3, <3>1, <3>2, SubSeqProperties
    <3>4. /\ v \in Seq(Command) /\ Len(v) = Len(cs) - k
          /\ \A i \in 1..Len(cs) - k : v[i] = cs[k + 1 + i - 1]
      <4>1. /\ v \in Seq(Command)
            /\ Len(v) = IF k + 1 <= Len(cs) THEN Len(cs) - (k + 1) + 1 ELSE 0
            /\ \A i \in 1..Len(cs) - (k + 1) + 1 : v[i] = cs[k + 1 + i - 1]
        BY <2>2, <2>3, <3>1, <3>2, SubSeqProperties
      <4>2. Len(cs) - (k + 1) + 1 = Len(cs) - k
            /\ (~(k + 1 <= Len(cs)) => Len(cs) - k = 0)
        BY <2>2, <2>3
      <4>. HIDE DEF v
      <4>. QED  BY <4>1, <4>2
    <3>5. ds = u \o v
      BY DEF RemoveAt
    <3>. HIDE DEF u, v, ds
    <3>6. /\ ds \in Seq(Command) /\ Len(ds) = Len(u) + Len(v)
          /\ \A i \in 1..Len(u) + Len(v) : ds[i] = IF i <= Len(u) THEN u[i] ELSE v[i - Len(u)]
      BY <3>3, <3>4, <3>5, ConcatProperties
    <3>7. Len(u) + Len(v) = Len(cs) - 1
      BY <2>2, <2>3, <3>3, <3>4
    <3>8. ASSUME NEW i \in 1..Len(cs) - 1
          PROVE  ds[i] = IF i < k THEN cs[i] ELSE cs[i + 1]
      <4>1. CASE i < k
        <5>1. i \in 1..k - 1 /\ i <= Len(u) /\ 1 + i - 1 = i
          BY <2>2, <2>3, <3>3, <4>1
        <5>. QED  BY <3>3, <3>6, <3>7, <4>1, <5>1
      <4>2. CASE ~(i < k)
        <5>1. /\ i - (k - 1) \in 1..Len(cs) - k /\ ~(i <= Len(u))
              /\ k + 1 + (i - (k - 1)) - 1 = i + 1
          BY <2>2, <2>3, <3>3, <4>2
        <5>2. ds[i] = v[i - (k - 1)]
          BY <3>3, <3>6, <3>7, <5>1
        <5>. QED  BY <3>4, <4>2, <5>1, <5>2
      <4>. QED  BY <4>1, <4>2
    <3>. QED  BY <3>6, <3>7, <3>8
  <2>. HIDE DEF ds
  <2>5. /\ b \in App /\ b.session = z.session /\ b.rx = z.rx /\ b.ready = z.ready
        /\ b.active = z.active /\ b.queue = z.queue /\ b.commands = ds
    BY <1>1, <2>4 DEF App
  <2>6. MovesTo(p, b)
    BY <2>1 DEF MovesTo, ds
  <2>. HIDE DEF b
  <2>7. b.active # None /\ b.ready
    BY <1>1, <2>2, <2>3, <2>5 DEF Lined
  <2>8. ASSUME NEW i \in DOMAIN ds
        PROVE  ds[i].frame = b.active.frame /\ (ds[i].current => i = Len(ds))
    <3>1. i \in 1..Len(cs) - 1
      BY <2>4, <2>8
    <3> DEFINE j == IF i < k THEN i ELSE i + 1
    <3>2. ds[i] = cs[j]
      BY <2>4, <3>1
    <3>3. j \in DOMAIN cs /\ (j = Len(cs) => i = Len(cs) - 1)
      BY <2>2, <2>3, <3>1
    <3>. HIDE DEF j
    <3>. QED  BY <1>1, <2>4, <2>5, <3>2, <3>3 DEF Lined
  <2>9. Lined(b)
    BY <2>5, <2>7, <2>8 DEF Lined
  <2>. QED  BY <1>3, <2>5, <2>6, <2>9
<1>5. CASE UnbindDevice(p)
  <2> DEFINE b == [z EXCEPT !.ready = FALSE, !.commands = <<>>]
  <2>1. MovesTo(p, b)
    BY <1>1, <1>5 DEF UnbindDevice, MovesTo
  <2>2. <<>> \in Seq(Command)
    OBVIOUS
  <2>3. /\ b \in App /\ b.session = z.session /\ b.rx = z.rx
        /\ b.active = z.active /\ b.queue = z.queue /\ b.commands = <<>>
    BY <1>1, <2>2 DEF App
  <2>. HIDE DEF b
  <2>4. Lined(b)
    BY <2>3 DEF Lined
  <2>. QED  BY <1>3, <2>1, <2>3, <2>4
<1>. QED  BY <1>4, <1>5

LEMMA ReportKept ==
  ASSUME IInv, NEW p \in Phone, SendPendingReport(p)
  PROVE  Kept
<1> DEFINE z == app[p]
           a == Disarm(z, "report")
           b == SendReport(a)
           c == Arm(b, "report")
           fr == [to |-> a.rx.src, file |-> a.rx.file, name |-> "REPORT", chunks |-> a.rx.got]
<1>1. z \in App
  BY PhoneTyped
<1>2. UNCHANGED <<air, offered, outcome, shown>>
  BY DEF SendPendingReport
<1>3. a \in App /\ Plain(z, a, {}) /\ a.rx = z.rx
  BY <1>1, TimersPlain DEF Timer
<1>4. CASE a.rx = None
  <2>1. MovesTo(p, a)
    BY <1>4 DEF SendPendingReport, MovesTo
  <2>. HIDE DEF a
  <2>. QED  BY <1>2, <1>3, <2>1, QuietStep DEF Ends
<1>5. CASE a.rx # None
  <2>1. MovesTo(p, DrainTxQueue(c)) \/ MovesTo(p, DrainTxQueue(b))
    <3>1. CASE a.rx.got # Chunk
      BY <1>5, <3>1 DEF SendPendingReport, MovesTo
    <3>2. CASE a.rx.got = Chunk
      BY <1>5, <3>2 DEF SendPendingReport, MovesTo
    <3>. QED  BY <3>1, <3>2
  <2>. HIDE DEF a
  <2>2. Plain(a, b, {fr}) /\ fr \in Tidings(a.rx.file) /\ b \in App /\ b.rx = a.rx
    BY <1>3, <1>5, SendReportPlain
  <2>. HIDE DEF b
  <2>3. Plain(b, c, {}) /\ c \in App /\ c.rx = a.rx
    BY <2>2, TimersPlain DEF Timer
  <2>. HIDE DEF c
  <2>4. fr.chunks = a.rx.got /\ fr.name = "REPORT" /\ fr.file = a.rx.file
    OBVIOUS
  <2>. HIDE DEF fr
  <2>5. Plain(z, b, {} \cup {fr})
    BY <1>3, <2>2, PlainJoin
  <2>6. Plain(z, c, {} \cup {fr} \cup {})
    BY <2>3, <2>5, PlainJoin
  <2>7. ASSUME NEW d \in App, MovesTo(p, DrainTxQueue(d)), Plain(z, d, {} \cup {fr} \cup {}),
               d.rx = a.rx
        PROVE  Kept
    <3> DEFINE e == DrainTxQueue(d)
    <3>1. e \in App /\ Plain(d, e, {}) /\ e.rx = z.rx
      BY <1>3, <2>7, DrainPlain
    <3>. HIDE DEF e
    <3>2. Plain(z, e, {} \cup {fr} \cup {} \cup {})
      BY <2>7, <3>1, PlainJoin
    <3>3. Plain(z, e, {fr})
      BY <3>2, PlainMore
    <3>4. fr.file \in Object /\ fr.file <= offered
      <4>1. z.rx.file <= offered
        BY <1>3, <1>5, Offered
      <4>. QED  BY <1>3, <2>2, <2>4, <4>1 DEF Tidings, Frame
    <3>5. ASSUME NEW st, Told(fr.file, st) PROVE Fits(p, fr, st, shown[fr.file])
      <4>1. Side(p, z, air[p], fr.file, st, shown[fr.file], outcome[fr.file])
        BY <3>5 DEF Told
      <4>2. z.rx.got = Chunk => shown[fr.file] > 0
        BY <1>3, <1>5, <2>4, <4>1 DEF Side
      <4>3. z.rx.got \in SUBSET Chunk
        BY <1>1, <1>3, <1>5 DEF App, ReceiveSession
      <4>4. Good(fr) => z.rx.got = Chunk
        BY <1>3, <2>4, <4>3 DEF Good, Missing
      <4>. QED  BY <2>4, <4>2, <4>4 DEF Fits, Starts, Datas
    <3>6. RxKept(z, e) /\ MovesTo(p, e)
      BY <2>7, <3>1 DEF RxKept, e
    <3>. QED  BY <1>2, <3>1, <3>3, <3>4, <3>5, <3>6, PlainStep DEF Ends
  <2>8. Plain(z, b, {} \cup {fr} \cup {})
    BY <2>5, PlainMore
  <2>. QED  BY <2>1, <2>2, <2>3, <2>6, <2>7, <2>8
<1>. QED  BY <1>4, <1>5

\* Taking the oldest answered command off the list keeps the rest in line; if
\* its response is the one awaited for, there was no other.
LEMMA RestPlain ==
  ASSUME NEW a \in App, Lined(a), a.commands # <<>>
  PROVE  LET rest == [a EXCEPT !.commands = Tail(@)]
         IN  /\ rest \in App /\ Plain(a, rest, {})
             /\ rest.session = a.session /\ rest.rx = a.rx
             /\ rest.active = a.active /\ rest.queue = a.queue
             /\ Head(a.commands).current => rest.commands = <<>>
             /\ Head(a.commands).frame = a.active.frame /\ a.active # None
             /\ Head(a.commands) \in Command
<1> DEFINE cs == a.commands
           rest == [a EXCEPT !.commands = Tail(cs)]
<1>1. cs \in Seq(Command) /\ cs # <<>>
  BY DEF App
<1>2. /\ Head(cs) \in Command /\ Tail(cs) \in Seq(Command) /\ Len(Tail(cs)) = Len(cs) - 1
      /\ \A i \in 1..Len(Tail(cs)) : Tail(cs)[i] = cs[i + 1]
      /\ Head(cs) = cs[1]
  BY <1>1, HeadTailProperties
<1>3. /\ rest \in App /\ rest.commands = Tail(cs)
      /\ rest.session = a.session /\ rest.rx = a.rx /\ rest.ready = a.ready
      /\ rest.active = a.active /\ rest.queue = a.queue
  BY <1>2 DEF App
<1>. HIDE DEF rest
<1>4. Len(cs) \in Nat /\ Len(cs) # 0 /\ DOMAIN cs = 1..Len(cs)
  BY <1>1
<1>5. /\ Head(cs).current => Len(cs) = 1
      /\ Head(cs).frame = a.active.frame
      /\ a.active # None /\ a.ready
  <2>1. 1 \in DOMAIN cs
    BY <1>4
  <2>. QED  BY <1>1, <1>2, <2>1 DEF Lined
<1>6. Head(cs).current => Tail(cs) = <<>>
  <2>. SUFFICES ASSUME Head(cs).current PROVE Tail(cs) = <<>>
    OBVIOUS
  <2> DEFINE t == Tail(cs)
  <2>1. t \in Seq(Command) /\ Len(t) = 0
    BY <1>2, <1>5
  <2>. HIDE DEF t
  <2>2. t = <<>>
    BY <2>1, EmptySeq
  <2>. QED  BY <2>2 DEF t
<1>7. ASSUME NEW i \in DOMAIN Tail(cs)
      PROVE  Tail(cs)[i].frame = a.active.frame /\ (Tail(cs)[i].current => i = Len(Tail(cs)))
  <2>1. i \in 1..Len(Tail(cs)) /\ i + 1 \in DOMAIN cs /\ (i + 1 = Len(cs) => i = Len(Tail(cs)))
    BY <1>2, <1>4, <1>7
  <2>. QED  BY <1>2, <2>1 DEF Lined
<1>8. Lined(rest)
  BY <1>3, <1>5, <1>7 DEF Lined
<1>9. Held(rest) = Held(a) /\ Starting(rest) = Starting(a) /\ (Calm(a) => Calm(rest))
  BY <1>3 DEF Held, Queued, Active, Starting, Calm
<1>10. Plain(a, rest, {})
  BY <1>3, <1>8, <1>9 DEF Plain, Pipes, SessionKept
<1>. QED  BY <1>2, <1>3, <1>5, <1>6, <1>10 DEF rest

\* A phone that waits for no response gives its active frame up.
LEMMA DonePlain ==
  ASSUME NEW a \in App, a.commands = <<>>
  PROVE  LET done == [a EXCEPT !.active = None]
         IN  /\ done \in App /\ Plain(a, done, {})
             /\ done.session = a.session /\ done.rx = a.rx /\ done.active = None
             /\ done.commands = <<>>
<1> DEFINE done == [a EXCEPT !.active = None]
<1>1. /\ done \in App /\ done.session = a.session /\ done.rx = a.rx /\ done.active = None
      /\ done.commands = <<>> /\ done.queue = a.queue
  BY DEF App
<1>. HIDE DEF done
<1>2. Lined(done) /\ Held(done) \subseteq Held(a) /\ Starting(done) = {}
      /\ (Calm(a) => Calm(done))
  BY <1>1 DEF Lined, Held, Queued, Active, Starting, Calm
<1>. QED  BY <1>1, <1>2 DEF Plain, Pipes, SessionKept, done

LEMMA MarkPlain ==
  ASSUME NEW a \in App, NEW fr \in Frame
  PROVE  LET m == MarkFrameDelivered(a, fr)
         IN  m \in App /\ Plain(a, m, {}) /\ m.rx = a.rx
<1> DEFINE m == MarkFrameDelivered(a, fr)
           s == a.session
<1>1. m \in App /\ Keeps(a, m, {"session"})
  BY MarkType
<1>2. \/ m = a
      \/ s # None /\ m = [a EXCEPT !.session.initial = @ - 1]
      \/ s # None /\ m = [a EXCEPT !.session.repair = @ - 1]
  BY DEF MarkFrameDelivered
<1>. HIDE DEF m
<1>3. m.rx = a.rx /\ Keeps(a, m, {"session", "rx", "timers"})
  BY <1>1 DEF Keeps, Fields
<1>4. SessionKept(a, m)
  <2>1. CASE m = a
    BY <2>1 DEF SessionKept
  <2>2. CASE s # None /\ m = [a EXCEPT !.session.initial = @ - 1]
    <3>1. m.session = [s EXCEPT !.initial = @ - 1] /\ s \in SendSession
      BY <2>2 DEF App
    <3>. HIDE DEF s
    <3>2. m.session.file = s.file /\ m.session.to = s.to /\ m.session.resends = s.resends
      BY <3>1 DEF SendSession
    <3>. QED  BY <2>2, <3>2 DEF SessionKept, s
  <2>3. CASE s # None /\ m = [a EXCEPT !.session.repair = @ - 1]
    <3>1. m.session = [s EXCEPT !.repair = @ - 1] /\ s \in SendSession
      BY <2>3 DEF App
    <3>. HIDE DEF s
    <3>2. m.session.file = s.file /\ m.session.to = s.to /\ m.session.resends = s.resends
      BY <3>1 DEF SendSession
    <3>. QED  BY <2>3, <3>2 DEF SessionKept, s
  <2>. QED  BY <1>2, <2>1, <2>2, <2>3
<1>. QED  BY <1>1, <1>3, <1>4, PipesSame DEF Plain, m

LEMMA ResponseKept ==
  ASSUME IInv, NEW p \in Phone, HandleFileSendResponse(p)
  PROVE  Kept
<1> DEFINE a == app[p]
           c == Head(a.commands)
           rest == [a EXCEPT !.commands = Tail(a.commands)]
           done == [rest EXCEPT !.active = None]
           s == a.session
<1>1. a \in App /\ Lined(a) /\ a.commands # <<>>
  BY PhoneTyped DEF HandleFileSendResponse
<1>2. UNCHANGED <<air, offered, shown>>
  BY DEF HandleFileSendResponse
<1>3. /\ rest \in App /\ Plain(a, rest, {})
      /\ rest.session = a.session /\ rest.rx = a.rx
      /\ rest.active = a.active /\ rest.queue = a.queue
      /\ c.current => rest.commands = <<>>
      /\ a.active # None /\ c \in Command
  BY <1>1, RestPlain
<1>4. CASE ~c.current \/ a.active = None
  <2>1. MovesTo(p, rest) /\ outcome' = outcome
    BY <1>4 DEF HandleFileSendResponse, MovesTo
  <2>. HIDE DEF rest, a
  <2>. QED  BY <1>2, <1>3, <2>1, QuietStep DEF Ends, a
<1>5. CASE c.current /\ a.active # None
  <2>0. c.current => rest.commands = <<>>
    BY <1>3
  <2>1. /\ done \in App /\ Plain(rest, done, {}) /\ done.session = s /\ done.rx = a.rx
        /\ done.active = None /\ done.commands = <<>>
    BY <1>3, <1>5, DonePlain
  <2>2. CASE c.status = "ok"
    <3> DEFINE m == MarkFrameDelivered(done, c.frame)
               b == Arm(m, "drain")
    <3>1. MovesTo(p, b) /\ outcome' = outcome
      BY <1>5, <2>2 DEF HandleFileSendResponse, Sent, MovesTo
    <3>2. c.frame \in Frame
      BY <1>3 DEF Command
    <3>. HIDE DEF done, rest, c, a
    <3>3. m \in App /\ Plain(done, m, {}) /\ m.rx = a.rx
      BY <2>1, <3>2, MarkPlain
    <3>. HIDE DEF m
    <3>4. b \in App /\ Plain(m, b, {}) /\ b.rx = a.rx
      BY <3>3, TimersPlain DEF Timer
    <3>. HIDE DEF b
    <3>5. Plain(a, done, {} \cup {})
      BY <1>3, <2>1, PlainJoin
    <3>6. Plain(a, m, {} \cup {} \cup {})
      BY <3>3, <3>5, PlainJoin
    <3>7. Plain(a, b, {} \cup {} \cup {} \cup {})
      BY <3>4, <3>6, PlainJoin
    <3>8. Plain(a, b, {})
      BY <3>7, PlainMore
    <3>. QED  BY <1>2, <3>1, <3>4, <3>8, QuietStep DEF Ends, a
  <2>3. CASE c.status = "busy" /\ MayRetry(a)
    <3> DEFINE f == [a.active EXCEPT !.retries = @ + 1]
               r == [rest EXCEPT !.active = f]
               b == Arm(r, "retry")
    <3>1. app' = [app EXCEPT ![p] = Arm([rest EXCEPT !.active.retries = @ + 1], "retry")]
          /\ outcome' = outcome
      BY <1>5, <2>3 DEF HandleFileSendResponse
    <3>2. [rest EXCEPT !.active.retries = @ + 1] = r
      BY <1>3 DEF App
    <3>3. f \in ActiveFrame /\ f.frame = a.active.frame /\ f # None
      <4>1. a.active \in ActiveFrame /\ a.active.retries < RetryMax
        BY <1>1, <1>5, <2>3 DEF App, MayRetry
      <4>2. f \in ActiveFrame /\ f.frame = a.active.frame
        BY <4>1, Bounds DEF ActiveFrame
      <4>. QED  BY <4>2, NoneAssumption
    <3>. HIDE DEF rest, f
    <3>4. /\ r \in App /\ r.active = f /\ r.session = rest.session /\ r.rx = rest.rx
          /\ r.queue = rest.queue /\ r.commands = rest.commands /\ r.ready = rest.ready
      BY <1>3, <3>3 DEF App
    <3>5. MovesTo(p, b)
      BY <3>1, <3>2 DEF MovesTo
    <3>. HIDE DEF r
    <3>6. Lined(r)
      BY <1>3, <1>5, <3>4 DEF Lined
    <3>7. Active(r) = Active(rest)
      BY <1>3, <3>3, <3>4 DEF Active
    <3>8. Plain(rest, r, {})
      BY <3>4, <3>6, <3>7 DEF Plain, Pipes, Held, Queued, Calm, Starting, SessionKept
    <3>. HIDE DEF a
    <3>9. b \in App /\ Plain(r, b, {}) /\ b.rx = a.rx
      BY <1>3, <3>4, TimersPlain DEF Timer
    <3>. HIDE DEF b
    <3>10. Plain(a, r, {} \cup {})
      BY <1>3, <3>8, PlainJoin
    <3>11. Plain(a, b, {} \cup {} \cup {})
      BY <3>9, <3>10, PlainJoin
    <3>12. Plain(a, b, {})
      BY <3>11, PlainMore
    <3>. QED  BY <1>2, <3>1, <3>5, <3>9, <3>12, QuietStep DEF Ends, a
  <2>4. CASE c.status # "ok" /\ ~(c.status = "busy" /\ MayRetry(a))
    <3>1. CASE s # None /\ s.file = c.frame.file
      <4> DEFINE e == [done EXCEPT !.queue = <<>>]
                 b == EndSession(e)
      <4>1. MovesTo(p, b) /\ outcome' = [outcome EXCEPT ![s.file] = "failed"]
        BY <1>5, <2>4, <3>1 DEF HandleFileSendResponse, MovesTo
      <4>. HIDE DEF done, rest
      <4>2. <<>> \in Seq(Frame)
        OBVIOUS
      <4>3. /\ e \in App /\ e.queue = <<>> /\ e.session = done.session /\ e.rx = done.rx
            /\ e.active = None /\ e.commands = <<>>
        BY <2>1, <4>2 DEF App
      <4>. HIDE DEF e
      <4>4. Lined(e) /\ Held(e) = {} /\ Starting(e) = {} /\ Calm(e)
        BY <4>3 DEF Lined, Held, Queued, Active, Starting, Calm
      <4>5. Plain(done, e, {})
        BY <4>3, <4>4 DEF Plain, Pipes, SessionKept
      <4>6. b \in App /\ Plain(e, b, {}) /\ b.session = None /\ b.rx = a.rx
        BY <2>1, <4>3, EndPlain
      <4>. HIDE DEF b
      <4>7. Ends(p, b)
        BY <3>1, <4>1, <4>6 DEF Ends
      <4>. HIDE DEF a
      <4>8. Plain(a, done, {} \cup {})
        BY <1>3, <2>1, PlainJoin
      <4>9. Plain(a, e, {} \cup {} \cup {})
        BY <4>5, <4>8, PlainJoin
      <4>10. Plain(a, b, {} \cup {} \cup {} \cup {})
        BY <4>6, <4>9, PlainJoin
      <4>11. Plain(a, b, {})
        BY <4>10, PlainMore
      <4>. QED  BY <1>2, <4>1, <4>6, <4>7, <4>11, QuietStep DEF a
    <3>2. CASE ~(s # None /\ s.file = c.frame.file)
      <4> DEFINE b == DrainTxQueue(done)
      <4>1. MovesTo(p, b) /\ outcome' = outcome
        BY <1>5, <2>4, <3>2 DEF HandleFileSendResponse, MovesTo
      <4>. HIDE DEF done, rest
      <4>2. b \in App /\ Plain(done, b, {}) /\ b.rx = a.rx
        BY <2>1, DrainPlain
      <4>. HIDE DEF b, a
      <4>3. Plain(a, done, {} \cup {})
        BY <1>3, <2>1, PlainJoin
      <4>4. Plain(a, b, {} \cup {} \cup {})
        BY <4>2, <4>3, PlainJoin
      <4>5. Plain(a, b, {})
        BY <4>4, PlainMore
      <4>. QED  BY <1>2, <4>1, <4>2, <4>5, QuietStep DEF Ends, a
    <3>. QED  BY <3>1, <3>2
  <2>. QED  BY <2>2, <2>3, <2>4
<1>. QED  BY <1>4, <1>5

-----------------------------------------------------------------------------
(* The steps that add to the story of one object. *)

\* Nothing of object f is new in b, whose pendant sends v.
Apart(a, b, w, v, f) ==
  /\ b.session # None /\ b.session.file = f =>
       /\ a.session # None /\ a.session.file = f /\ a.session.to = b.session.to
       /\ a.session.resends = b.session.resends
  /\ b.rx # None /\ b.rx.file = f => b.rx = a.rx
  /\ \A fr \in Ways(b, v) : fr.file = f => fr \in Ways(a, w)
  /\ v # None /\ v.file = f => v = w
  /\ \A fr \in Starting(b) : fr.file = f => fr \in Starting(a)

LEMMA ApartSide ==
  ASSUME NEW p, NEW a, NEW b, NEW w, NEW v, NEW f, NEW st, NEW n, NEW o,
         Side(p, a, w, f, st, n, o), Apart(a, b, w, v, f)
  PROVE  Side(p, b, v, f, st, n, o)
BY DEF Side, Apart

LEMMA ApartUntouched ==
  ASSUME NEW a, NEW b, NEW w, NEW v, NEW f, Untouched(a, w, f), Apart(a, b, w, v, f)
  PROVE  Untouched(b, v, f)
BY DEF Untouched, Apart

LEMMA UntouchedSide ==
  ASSUME NEW p, NEW a, NEW w, NEW f, NEW st, NEW n, NEW o, Untouched(a, w, f)
  PROVE  Side(p, a, w, f, st, n, o)
BY DEF Untouched, Side, Ways, Held, Starting

LEMMA PlainApart ==
  ASSUME NEW a, NEW b, NEW w, NEW v, NEW f, NEW new, Calm(a), Plain(a, b, new),
         b.rx = a.rx \/ b.rx.file # f, v = w \/ v = None,
         \A fr \in new : fr.file # f
  PROVE  Apart(a, b, w, v, f)
BY DEF Apart, Plain, Pipes, SessionKept, Ways

LEMMA RoundApart ==
  ASSUME NEW a, NEW b, NEW w, NEW f, NEW s, s.file # f, b.rx = a.rx,
         b.session.file = s.file, Held(b) \subseteq RoundFrames(s)
  PROVE  Apart(a, b, w, w, f)
BY DEF Apart, Ways, RoundFrames, Held, Starting

\* The stories of the other objects go on as they were.
LEMMA OthersKept ==
  ASSUME IInv, NEW p \in Phone, NEW b \in App, MovesTo(p, b), NEW g \in Object,
         offered' = offered \/ (offered' = offered + 1 /\ g = offered + 1),
         \A f \in Object : f # g =>
           /\ shown'[f] = shown[f] /\ outcome'[f] = outcome[f]
           /\ Apart(app[p], b, air[p], air'[p], f),
         \A r \in Phone : r # p => \A f \in Object : f # g =>
           air'[r] = air[r] \/ air'[r] = None
  PROVE  \A f \in Object : f # g => Known(f)'
<1>1. /\ app' \in [Phone -> App] /\ app'[p] = b
      /\ \A r \in Phone : r # p => app'[r] = app[r]
  BY PhoneTyped, MoveStep
<1>2. offered \in Nat /\ MaxObjects \in Nat
  BY Bounds DEF IInv, TypeOK
<1>. SUFFICES ASSUME NEW f \in Object, f # g PROVE Known(f)'
  OBVIOUS
<1>3. f > offered' <=> f > offered
  BY <1>2 DEF Object
<1>4. \A r \in Phone : r # p => air'[r] = air[r] \/ air'[r] = None
  OBVIOUS
<1>5. CASE f > offered
  <2>1. /\ shown[f] = 0 /\ outcome[f] = "none"
        /\ \A r \in Phone : Untouched(app[r], air[r], f)
    BY <1>5 DEF IInv, Known
  <2>2. Untouched(b, air'[p], f)
    BY <2>1, ApartUntouched
  <2>3. ASSUME NEW r \in Phone, r # p PROVE Untouched(app'[r], air'[r], f)
    <3>1. Untouched(app[r], air'[r], f)
      BY <1>4, <2>1, <2>3, UntouchedSame
    <3>. QED  BY <1>1, <2>3, <3>1
  <2>4. \A r \in Phone : Untouched(app'[r], air'[r], f)
    BY <1>1, <2>2, <2>3
  <2>. QED  BY <1>3, <1>5, <2>1, <2>4 DEF Known
<1>6. CASE ~(f > offered)
  <2>1. outcome[f] # "none" /\ \E st : Told(f, st)
    BY <1>6 DEF IInv, Known
  <2>2. PICK st : Told(f, st)
    BY <2>1
  <2>3. \A r \in Phone : Side(r, app[r], air[r], f, st, shown[f], outcome[f])
    BY <2>2 DEF Told
  <2>4. Side(p, b, air'[p], f, st, shown[f], outcome[f])
    BY <2>3, ApartSide
  <2>5. ASSUME NEW r \in Phone, r # p
        PROVE  Side(r, app'[r], air'[r], f, st, shown[f], outcome[f])
    <3>1. Side(r, app[r], air'[r], f, st, shown[f], outcome[f])
      BY <1>4, <2>3, <2>5, SideSame
    <3>. QED  BY <1>1, <2>5, <3>1
  <2>6. \A r \in Phone : Side(r, app'[r], air'[r], f, st, shown'[f], outcome'[f])
    BY <1>1, <2>4, <2>5
  <2>7. Told(f, st)'
    BY <2>2, <2>6 DEF Told
  <2>. QED  BY <1>3, <1>6, <2>1, <2>7 DEF Known
<1>. QED  BY <1>5, <1>6

\* The frames stay in line when one phone moves.
LEMMA LinesKept ==
  ASSUME IInv, NEW p \in Phone, NEW b \in App, MovesTo(p, b), Lined(b), Calm(b)
  PROVE  \A r \in Phone : Lined(app'[r]) /\ Calm(app'[r])
<1>1. /\ app'[p] = b /\ \A r \in Phone : r # p => app'[r] = app[r]
  BY PhoneTyped, MoveStep
<1>. QED  BY <1>1 DEF IInv

LEMMA StartPipes ==
  ASSUME NEW a \in App, Lined(a), IsIdle(a), NEW q \in Phone, NEW f \in Object,
         NEW skip \in SkipSets
  PROVE  LET b == StartTransfer(a, q, f, skip)
             s == b.session
         IN  /\ Lined(b) /\ Calm(b) /\ b \in App /\ b.rx = a.rx
             /\ s # None /\ s.file = f /\ s.to = q /\ s.resends = 0
             /\ Held(b) \subseteq RoundFrames([to |-> q, file |-> f])
<1> DEFINE t == [to |-> q, file |-> f, initial |-> 1, repair |-> 0, round |-> 0, resends |-> 0]
           opened == [a EXCEPT !.session = t]
           b == StartTransfer(a, q, f, skip)
<1>1. t \in SendSession /\ t # None
  BY Bounds, ChunksCount, NoneAssumption DEF SendSession
<1>2. t.to = q /\ t.file = f /\ t.resends = 0 /\ t.initial = 1
  OBVIOUS
<1>. HIDE DEF t
<1>3. /\ opened \in App /\ opened.session = t /\ opened.rx = a.rx
      /\ opened.active = None /\ opened.queue = <<>>
  BY <1>1 DEF App, IsIdle
<1>4. Lined(opened)
  <2>1. opened.ready = a.ready /\ opened.active = a.active /\ opened.commands = a.commands
    BY <1>1 DEF App
  <2>. QED  BY <2>1 DEF Lined
<1>5. b = DrainTxQueue(Arm(EnqueueChunks(EnqueueFrame(opened, t.to, t.file, "START", {}),
                                         Chunk \ skip, "DATA"), "watchdog"))
  BY <1>2 DEF StartTransfer, t
<1>6. "START" \in Starts /\ "DATA" \in Datas /\ Chunk \ skip \in SUBSET Chunk
  BY DEF Starts, Datas
<1>. HIDE DEF opened, b
<1>7. /\ Lined(b) /\ Calm(b) /\ Held(b) \subseteq RoundFrames(t)
      /\ b \in App /\ b.rx = opened.rx /\ b.session # None
      /\ b.session.file = t.file /\ b.session.to = t.to /\ b.session.resends = t.resends
  <2> DEFINE start == EnqueueFrame(opened, opened.session.to, opened.session.file, "START", {})
             c == DrainTxQueue(Arm(EnqueueChunks(start, Chunk \ skip, "DATA"), "watchdog"))
  <2>1. opened.session # None /\ opened.session.initial = 1
    BY <1>1, <1>2, <1>3
  <2>2. /\ Lined(c) /\ Calm(c) /\ Held(c) \subseteq RoundFrames(opened.session)
        /\ c \in App /\ c.rx = opened.rx /\ c.session # None
        /\ c.session.file = opened.session.file /\ c.session.to = opened.session.to
        /\ c.session.resends = opened.session.resends
    BY <1>3, <1>4, <1>6, <2>1, RoundPipes
  <2>3. c = b
    BY <1>3, <1>5
  <2>. HIDE DEF c
  <2>. QED  BY <1>3, <2>2, <2>3
<1>8. RoundFrames(t) = RoundFrames([to |-> q, file |-> f])
  BY <1>2 DEF RoundFrames
<1>. QED  BY <1>2, <1>3, <1>7, <1>8 DEF b

LEMMA SendKept ==
  ASSUME IInv, NEW p \in Phone, NEW q \in Phone, SendObject(p, q)
  PROVE  Kept
<1> DEFINE z == app[p]
<1>0. PICK g : g = offered + 1
  OBVIOUS
<1>1. /\ z \in App /\ Lined(z) /\ Calm(z) /\ app \in [Phone -> App] /\ outcome \in Verdicts
      /\ offered \in Nat /\ MaxObjects \in Nat /\ shown \in [Object -> Nat] /\ ResendMax \in Nat
  BY PhoneTyped, Bounds DEF IInv, TypeOK
<1>2. /\ offered < MaxObjects /\ offered' = g
      /\ UNCHANGED <<air, shown>>
      /\ \/ /\ z.ready /\ IsIdle(z)
            /\ \E skip \in SkipSets : app' = [app EXCEPT ![p] = StartTransfer(@, q, g, skip)]
            /\ outcome' = [outcome EXCEPT ![g] = "sending"]
         \/ outcome' = [outcome EXCEPT ![g] = "failed"] /\ UNCHANGED app
  BY <1>0 DEF SendObject
<1>3. g \in Object /\ g > offered /\ ~(g > offered')
  BY <1>0, <1>1, <1>2 DEF Object
<1>4. /\ shown[g] = 0 /\ outcome[g] = "none"
      /\ \A r \in Phone : Untouched(app[r], air[r], g)
  BY <1>3 DEF IInv, Known
<1>5. \A f \in Object : f # g => outcome'[f] = outcome[f]
  BY <1>1, <1>2 DEF Verdicts
<1> DEFINE st == [src |-> p, dst |-> q, rounds |-> 1, heard |-> 0, aired |-> 0]
<1>6. /\ st \in Story /\ st.src = p /\ st.dst = q
      /\ st.rounds = 1 /\ st.heard = 0 /\ st.aired = 0
  BY <1>1 DEF Story
<1>7. CASE z.ready /\ IsIdle(z) /\ outcome' = [outcome EXCEPT ![g] = "sending"]
           /\ \E skip \in SkipSets : app' = [app EXCEPT ![p] = StartTransfer(@, q, g, skip)]
  <2>1. PICK skip \in SkipSets : app' = [app EXCEPT ![p] = StartTransfer(@, q, g, skip)]
    BY <1>7
  <2> DEFINE b == StartTransfer(z, q, g, skip)
             s == [to |-> q, file |-> g]
  <2>2. /\ Lined(b) /\ Calm(b) /\ b \in App /\ b.rx = z.rx
        /\ b.session # None /\ b.session.file = g /\ b.session.to = q
        /\ b.session.resends = 0
        /\ Held(b) \subseteq RoundFrames(s)
    BY <1>1, <1>3, <1>7, StartPipes
  <2>3. MovesTo(p, b)
    BY <2>1 DEF MovesTo
  <2>. HIDE DEF b, z
  <2>4. \A r \in Phone : Lined(app'[r]) /\ Calm(app'[r])
    BY <2>2, <2>3, LinesKept
  <2>5. /\ app'[p] = b /\ \A r \in Phone : r # p => app'[r] = app[r]
    BY <1>1, <2>2, <2>3, MoveStep
  <2>6. \A f \in Object : f # g => Apart(app[p], b, air[p], air'[p], f)
    <3>1. s.file = g
      OBVIOUS
    <3>. HIDE DEF s
    <3>. QED  BY <1>2, <2>2, <3>1, RoundApart DEF z
  <2>7. \A f \in Object : f # g => Known(f)'
    BY <1>2, <1>3, <1>5, <2>2, <2>3, <2>6, <1>0, OthersKept
  <2>8. outcome'[g] = "sending"
    BY <1>1, <1>3, <1>7 DEF Verdicts
  <2>9. Side(p, b, air[p], g, st, 0, "sending")
    <3>. HIDE DEF st
    <3>1. \A fr \in Ways(b, air[p]) : fr.file = g => fr \in RoundFrames(s)
      BY <1>4, <2>2 DEF Untouched, Ways
    <3>2. \A fr \in RoundFrames(s) : Fits(p, fr, st, 0)
      BY <1>6 DEF RoundFrames, Fits, Good, Starts, Datas
    <3>3. b.rx # None => b.rx.file # g
      BY <1>4, <2>2 DEF Untouched, z
    <3>4. air[p] # None => air[p].file # g
      BY <1>4 DEF Untouched, Ways
    <3>. QED  BY <1>6, <2>2, <3>1, <3>2, <3>3, <3>4 DEF Side
  <2>. HIDE DEF st
  <2>10. ASSUME NEW r \in Phone
         PROVE  Side(r, app'[r], air'[r], g, st, shown'[g], outcome'[g])
    <3>1. CASE r = p
      BY <1>2, <1>4, <2>5, <2>8, <2>9, <3>1
    <3>2. CASE r # p
      BY <1>2, <1>4, <2>5, <3>2, UntouchedSide
    <3>. QED  BY <3>1, <3>2
  <2>11. Told(g, st)'
    BY <1>2, <1>4, <1>6, <2>10 DEF Told
  <2>12. Known(g)'
    BY <1>3, <2>8, <2>11 DEF Known
  <2>13. Promise!Next
    BY <1>2, <1>3, <1>4, <1>7 DEF Promise!Next, Promise!Start
  <2>. QED  BY <2>4, <2>7, <2>12, <2>13 DEF Kept
<1>8. CASE outcome' = [outcome EXCEPT ![g] = "failed"] /\ UNCHANGED app
  <2>1. MovesTo(p, z)
    BY <1>1, <1>8 DEF MovesTo
  <2>2. \A f \in Object : Apart(z, z, air[p], air'[p], f)
    BY <1>2 DEF Apart
  <2>3. \A f \in Object : f # g => Known(f)'
    BY <1>1, <1>2, <1>3, <1>5, <2>1, <2>2, <1>0, OthersKept
  <2>4. outcome'[g] = "failed"
    BY <1>1, <1>3, <1>8 DEF Verdicts
  <2>. HIDE DEF st
  <2>5. \A r \in Phone : Side(r, app'[r], air'[r], g, st, shown'[g], outcome'[g])
    BY <1>2, <1>4, <1>8, UntouchedSide
  <2>6. Told(g, st)'
    BY <1>2, <1>4, <1>6, <2>5 DEF Told
  <2>7. Known(g)'
    BY <1>3, <2>4, <2>6 DEF Known
  <2>8. Promise!Next
    BY <1>2, <1>3, <1>4, <1>8 DEF Promise!Next, Promise!Fail
  <2>9. \A r \in Phone : Lined(app'[r]) /\ Calm(app'[r])
    BY <1>8 DEF IInv
  <2>. QED  BY <2>3, <2>7, <2>8, <2>9 DEF Kept
<1>. QED  BY <1>2, <1>7, <1>8

\* The sender's session, its frames and those of others, one round later.
LEMMA NextRoundSide ==
  ASSUME NEW p, NEW b, NEW w, NEW f, NEW st \in Story, NEW n \in Nat, NEW a,
         Side(p, a, w, f, st, n, "sending"), st.heard <= st.rounds, st.rounds < 1 + ResendMax,
         p = st.src, b.session.file = f, b.session.to = st.dst,
         b.session.resends \in Nat, st.rounds <= b.session.resends, b.rx = a.rx,
         Held(b) \subseteq RoundFrames(b.session)
  PROVE  Side(p, b, w, f, [st EXCEPT !.rounds = @ + 1], n, "sending")
<1> DEFINE tt == [st EXCEPT !.rounds = @ + 1]
<1>1. /\ tt.src = st.src /\ tt.dst = st.dst /\ tt.heard = st.heard /\ tt.aired = st.aired
      /\ tt.rounds = st.rounds + 1
  BY DEF Story
<1>2. st.rounds \in Nat /\ st.heard \in Nat /\ st.aired \in Nat
  BY Bounds DEF Story
<1>. HIDE DEF tt
<1>3. tt.rounds <= b.session.resends + 1 /\ st.heard < tt.rounds
  BY <1>1, <1>2
<1>4. ASSUME NEW fr \in Ways(b, w), fr.file = f PROVE Fits(p, fr, tt, n)
  <2>1. CASE fr \in Held(b)
    BY <1>1, <2>1 DEF RoundFrames, Fits, Good, Starts, Datas
  <2>2. CASE fr \in Ways(a, w)
    BY <1>1, <1>4, <2>2 DEF Side, Fits
  <2>. QED  BY <1>4, <2>1, <2>2 DEF Ways
<1>5. b.rx # None /\ b.rx.file = f =>
       /\ p = tt.dst /\ b.rx.src = tt.src
       /\ ~b.rx.completed => n < tt.heard
       /\ b.rx.got = Chunk => n > 0
  BY <1>1 DEF Side
<1>6. w # None /\ w.file = f /\ w.name \in Starts =>
       /\ tt.heard <= tt.aired /\ tt.aired <= tt.rounds
       /\ tt.aired = tt.heard => n < tt.heard
  <2>1. w # None /\ w.file = f /\ w.name \in Starts =>
         /\ st.heard <= st.aired /\ st.aired <= st.rounds
         /\ st.aired = st.heard => n < st.heard
    BY DEF Side
  <2>. QED  BY <1>1, <1>2, <2>1
<1>7. ~(tt.rounds = tt.heard)
  BY <1>1, <1>2
<1>. QED  BY <1>1, <1>3, <1>4, <1>5, <1>6, <1>7 DEF Side, tt

LEMMA OtherRoundSide ==
  ASSUME NEW p, NEW w, NEW v, NEW f, NEW st \in Story, NEW n \in Nat, NEW a, NEW o,
         Side(p, a, w, f, st, n, o), st.heard <= st.rounds, st.rounds < 1 + ResendMax,
         p # st.src, v = w \/ v = None
  PROVE  Side(p, a, v, f, [st EXCEPT !.rounds = @ + 1], n, o)
<1> DEFINE tt == [st EXCEPT !.rounds = @ + 1]
<1>1. /\ tt.src = st.src /\ tt.dst = st.dst /\ tt.heard = st.heard
  BY DEF Story
<1>. HIDE DEF tt
<1>2. \A fr \in Ways(a, v) : fr.file = f => Fits(p, fr, tt, n)
  BY <1>1 DEF Side, Ways, Fits
\* No START frame of the object is anywhere but with its sender.
<1>3. \A fr \in Ways(a, w) : fr.file = f => fr.name \notin Starts
  BY DEF Side, Fits
<1>4. Starting(a) \subseteq Ways(a, w) /\ (v # None => v \in Ways(a, w))
  BY DEF Starting, Ways, Held
<1>5. \A fr \in Starting(a) : fr.file # f
  BY <1>3, <1>4 DEF Starting
<1>6. v # None /\ v.file = f => v.name \notin Starts
  BY <1>3, <1>4
<1>. QED  BY <1>1, <1>2, <1>5, <1>6 DEF Side, tt

LEMMA WatchdogKept ==
  ASSUME IInv, NEW p \in Phone, OnSenderWatchdog(p)
  PROVE  Kept
<1> DEFINE z == app[p]
           a == Disarm(z, "watchdog")
           s == a.session
<1>1. /\ z \in App /\ Lined(z) /\ Calm(z) /\ app \in [Phone -> App]
  BY PhoneTyped
<1>2. UNCHANGED <<air, offered, shown>>
  BY DEF OnSenderWatchdog
<1>3. a \in App /\ Plain(z, a, {}) /\ a.rx = z.rx /\ a.session = z.session
  BY <1>1, TimersPlain DEF Timer
<1>4. CASE s = None
  <2>1. MovesTo(p, a) /\ outcome' = outcome
    BY <1>4 DEF OnSenderWatchdog, MovesTo
  <2>. HIDE DEF a
  <2>. QED  BY <1>2, <1>3, <2>1, QuietStep DEF Ends
<1>5. CASE s # None /\ (a.active # None \/ a.queue # <<>>)
  <2> DEFINE b == Arm(a, "watchdog")
  <2>1. MovesTo(p, b) /\ outcome' = outcome
    BY <1>5 DEF OnSenderWatchdog, WatchdogWaits, MovesTo
  <2>. HIDE DEF a
  <2>2. b \in App /\ Plain(a, b, {}) /\ b.rx = z.rx
    BY <1>3, TimersPlain DEF Timer
  <2>. HIDE DEF b
  <2>3. Plain(z, b, {} \cup {})
    BY <1>3, <2>2, PlainJoin
  <2>4. Plain(z, b, {})
    BY <2>3, PlainMore
  <2>. QED  BY <1>2, <2>1, <2>2, <2>4, QuietStep DEF Ends
<1>6. CASE s # None /\ a.active = None /\ a.queue = <<>> /\ s.resends >= ResendMax
  <2> DEFINE b == EndSession(a)
  <2>1. MovesTo(p, b) /\ outcome' = [outcome EXCEPT ![s.file] = "failed"]
    BY <1>6 DEF OnSenderWatchdog, MovesTo
  <2>. HIDE DEF a
  <2>2. b \in App /\ Plain(a, b, {}) /\ b.session = None /\ b.rx = z.rx
    BY <1>3, EndPlain
  <2>. HIDE DEF b
  <2>3. Plain(z, b, {} \cup {})
    BY <1>3, <2>2, PlainJoin
  <2>4. Plain(z, b, {})
    BY <2>3, PlainMore
  <2>5. Ends(p, b)
    BY <1>3, <1>6, <2>1, <2>2 DEF Ends
  <2>. QED  BY <1>2, <2>1, <2>2, <2>4, <2>5, QuietStep
<1>7. CASE s # None /\ a.active = None /\ a.queue = <<>> /\ ~(s.resends >= ResendMax)
  <2> DEFINE t == [s EXCEPT !.resends = @ + 1]
             again == [a EXCEPT !.session = t]
             start == EnqueueFrame(again, t.to, t.file, "START_RETRY", {})
             b == DrainTxQueue(Arm(EnqueueChunks(start, Chunk, "DATA_REPAIR"), "watchdog"))
  <2>0. PICK g : g = s.file
    OBVIOUS
  <2>1. s \in SendSession /\ s.to \in Phone /\ g \in Object
    BY <1>3, <1>7, <2>0, SessionTyped
  <2>2. s.resends \in Nat /\ s.resends < ResendMax /\ ResendMax \in Nat
    BY <1>7, <2>1, Bounds DEF SendSession
  <2>. HIDE DEF a
  <2>3. /\ t \in SendSession /\ t # None
        /\ t.to = s.to /\ t.file = g /\ t.resends = s.resends + 1
    BY <2>0, <2>1, <2>2, NoneAssumption DEF SendSession
  <2>4. [a EXCEPT !.session.resends = @ + 1] = again
    BY <1>3 DEF App
  <2>5. MovesTo(p, b) /\ outcome' = outcome
    BY <1>7, <2>0, <2>3, <2>4 DEF OnSenderWatchdog, a, MovesTo
  <2>. HIDE DEF t, s
  <2>6. /\ again \in App /\ again.session = t /\ again.rx = z.rx /\ again.ready = a.ready
        /\ again.active = a.active /\ again.queue = a.queue /\ again.commands = a.commands
    BY <1>3, <2>3 DEF App
  <2>. HIDE DEF again
  <2>7. Lined(again)
    <3>1. Lined(a)
      BY <1>1, <1>3 DEF Plain, Pipes
    <3>. QED  BY <2>6, <3>1 DEF Lined
  <2>8. /\ Lined(b) /\ Calm(b) /\ Held(b) \subseteq RoundFrames(t)
        /\ b \in App /\ b.rx = z.rx /\ b.session # None
        /\ b.session.file = g /\ b.session.to = s.to /\ b.session.resends = s.resends + 1
    <3> DEFINE first == EnqueueFrame(again, again.session.to, again.session.file,
                                     "START_RETRY", {})
               c == DrainTxQueue(Arm(EnqueueChunks(first, Chunk, "DATA_REPAIR"), "watchdog"))
    <3>1. "START_RETRY" \in Starts /\ "DATA_REPAIR" \in Datas /\ Chunk \in SUBSET Chunk
      BY DEF Starts, Datas
    <3>2. again.session # None /\ again.active = None /\ again.queue = <<>>
      BY <1>7, <2>3, <2>6
    <3>3. /\ Lined(c) /\ Calm(c) /\ Held(c) \subseteq RoundFrames(again.session)
          /\ c \in App /\ c.rx = again.rx /\ c.session # None
          /\ c.session.file = again.session.file /\ c.session.to = again.session.to
          /\ c.session.resends = again.session.resends
      BY <2>6, <2>7, <3>1, <3>2, RoundPipes
    <3>4. c = b
      BY <2>6
    <3>. HIDE DEF c, b
    <3>. QED  BY <2>3, <2>6, <3>3, <3>4
  <2>. HIDE DEF b
  <2>9. RoundFrames(t) = RoundFrames(b.session)
    BY <2>3, <2>8 DEF RoundFrames
  <2>10. z.session # None /\ z.session.file = g /\ z.session.to = s.to
         /\ z.session.resends = s.resends
    BY <1>3, <1>7, <2>0 DEF s
  <2>11. g <= offered
    BY <2>10, Offered
  <2>12. PICK st : Told(g, st)
    BY <2>1, <2>11, StoryOf
  <2>13. /\ st \in Story /\ shown[g] <= st.heard /\ st.heard <= st.rounds
         /\ \A r \in Phone : Side(r, app[r], air[r], g, st, shown[g], outcome[g])
    BY <2>12 DEF Told
  <2>14. /\ outcome[g] = "sending" /\ p = st.src /\ b.session.to = st.dst
         /\ st.rounds <= s.resends + 1
    BY <2>8, <2>10, <2>13 DEF Side
  <2>15. st.rounds \in Nat /\ st.heard \in Nat /\ shown[g] \in Nat
    BY <2>1, <2>13, Bounds DEF Story, IInv, TypeOK
  <2>16. st.rounds < 1 + ResendMax /\ st.rounds <= b.session.resends
         /\ b.session.resends \in Nat
    BY <2>2, <2>8, <2>14, <2>15
  <2> DEFINE tt == [st EXCEPT !.rounds = @ + 1]
  <2>17. tt \in Story /\ tt.heard = st.heard /\ tt.rounds = st.rounds + 1
    <3>1. st.rounds + 1 \in 0..1 + ResendMax
      BY <2>2, <2>15, <2>16
    <3>. QED  BY <2>13, <3>1 DEF Story
  <2>18. /\ app'[p] = b /\ \A r \in Phone : r # p => app'[r] = app[r]
    BY <1>1, <2>5, <2>8, MoveStep
  <2>19. Side(p, b, air[p], g, tt, shown[g], "sending")
    BY <2>8, <2>9, <2>13, <2>14, <2>15, <2>16, NextRoundSide
  <2>20. ASSUME NEW r \in Phone
         PROVE  Side(r, app'[r], air'[r], g, tt, shown'[g], outcome'[g])
    <3>. HIDE DEF tt
    <3>1. CASE r = p
      BY <1>2, <2>5, <2>14, <2>18, <2>19, <3>1
    <3>2. CASE r # p
      <4>1. Side(r, app[r], air[r], g, tt, shown[g], outcome[g])
        BY <2>13, <2>14, <2>15, <2>16, <3>2, OtherRoundSide DEF tt
      <4>. QED  BY <1>2, <2>5, <2>18, <3>2, <4>1
    <3>. QED  BY <3>1, <3>2
  <2>. HIDE DEF tt
  <2>21. Told(g, tt)'
    <3>1. shown'[g] <= tt.heard /\ tt.heard <= tt.rounds
      BY <1>2, <2>13, <2>15, <2>17
    <3>. QED  BY <2>17, <2>20, <3>1 DEF Told
  <2>22. Known(g)'
    <3>1. ~(g > offered')
      BY <1>2, <2>1, <2>11, Bounds DEF IInv, TypeOK, Object
    <3>2. outcome'[g] # "none"
      BY <2>5, <2>14
    <3>. QED  BY <2>21, <3>1, <3>2 DEF Known
  <2>23. \A f \in Object : f # g => Known(f)'
    <3>1. \A f \in Object : f # g => Apart(app[p], b, air[p], air'[p], f)
      BY <1>2, <2>8, <2>9, RoundApart
    <3>. QED  BY <1>2, <2>1, <2>5, <2>8, <3>1, OthersKept
  <2>24. \A r \in Phone : Lined(app'[r]) /\ Calm(app'[r])
    BY <2>5, <2>8, LinesKept
  <2>25. [Promise!Next]_(Promise!vars)
    BY <1>2, <2>5 DEF Promise!vars
  <2>. QED  BY <2>22, <2>23, <2>24, <2>25 DEF Kept
<1>. QED  BY <1>4, <1>5, <1>6, <1>7

LEMMA StatusPlain ==
  ASSUME NEW a \in App, NEW k \in DOMAIN a.commands,
         NEW status \in {"sent", "ok", "busy", "refused"}
  PROVE  LET b == [a EXCEPT !.commands[k].status = status]
         IN  b \in App /\ Plain(a, b, {}) /\ b.session = a.session /\ b.rx = a.rx
<1> DEFINE cs == a.commands
           d == [cs[k] EXCEPT !.status = status]
           ds == [cs EXCEPT ![k] = d]
           b == [a EXCEPT !.commands = ds]
<1>1. cs \in Seq(Command) /\ Len(cs) \in Nat /\ DOMAIN cs = 1..Len(cs)
  BY DEF App
<1>2. cs[k] \in Command
  BY <1>1
<1>3. d \in Command /\ (d.current <=> cs[k].current) /\ d.frame = cs[k].frame
  BY <1>2 DEF Command
<1>4. [a EXCEPT !.commands[k].status = status] = b
  BY DEF App
<1>. HIDE DEF d
<1>5. /\ ds \in [1..Len(cs) -> Command] /\ DOMAIN ds = DOMAIN cs
      /\ \A i \in DOMAIN cs : i # k => ds[i] = cs[i]
      /\ ds[k] = d
  BY <1>1, <1>3
<1>. HIDE DEF ds
<1>6. ds \in Seq(Command) /\ Len(ds) = Len(cs)
  BY <1>1, <1>5, FunctionIsSeq
<1>7. /\ b \in App /\ b.commands = ds /\ b.session = a.session /\ b.rx = a.rx
      /\ b.ready = a.ready /\ b.active = a.active /\ b.queue = a.queue
  BY <1>6 DEF App
<1>. HIDE DEF b
<1>8. ASSUME NEW i \in DOMAIN cs
      PROVE  ds[i].frame = cs[i].frame /\ (ds[i].current <=> cs[i].current)
  <2>1. CASE i = k
    BY <1>3, <1>5, <2>1, Zenon
  <2>2. CASE i # k
    BY <1>5, <2>2, Zenon
  <2>. QED  BY <2>1, <2>2
<1>9. cs # <<>>
  BY <1>1
<1>10. ASSUME Lined(a) PROVE Lined(b)
  <2>1. a.ready /\ a.active # None
    BY <1>9, <1>10 DEF Lined
  <2>2. \A i \in DOMAIN ds : ds[i].frame = a.active.frame /\ (ds[i].current => i = Len(ds))
    BY <1>5, <1>6, <1>8, <1>10 DEF Lined
  <2>. QED  BY <1>7, <2>1, <2>2 DEF Lined
<1>11. Held(b) = Held(a) /\ Starting(b) = Starting(a) /\ (Calm(a) => Calm(b))
  BY <1>7 DEF Held, Queued, Active, Starting, Calm
<1>. QED  BY <1>4, <1>7, <1>10, <1>11 DEF Plain, Pipes, SessionKept

LEMMA AnswersKept ==
  ASSUME IInv, NEW p \in Phone, PendantAnswers(p)
  PROVE  Kept
<1> DEFINE z == app[p]
           waiting == {k \in DOMAIN z.commands : z.commands[k].status = "sent"}
           w == CHOOSE i \in waiting : \A j \in waiting : i <= j
<1>1. /\ z \in App /\ Lined(z) /\ Calm(z) /\ app \in [Phone -> App] /\ outcome \in Verdicts
      /\ air \in [Phone -> Frame \cup {None}] /\ offered \in Nat
  BY PhoneTyped, Bounds DEF IInv, TypeOK
<1>2. UNCHANGED <<offered, outcome, shown>>
  BY DEF PendantAnswers
<1>3. w \in DOMAIN z.commands /\ z.commands[w] \in Command
  <2>1. z.commands \in Seq(Command) /\ DOMAIN z.commands = 1..Len(z.commands)
    BY <1>1 DEF App
  <2>2. waiting \subseteq Nat /\ waiting # {}
    BY <2>1 DEF PendantAnswers
  <2>3. w \in waiting
    BY <2>2, LeastExists
  <2>. HIDE DEF w
  <2>4. w \in DOMAIN z.commands
    BY <2>3
  <2>. QED  BY <2>1, <2>4
<1>4. \/ app' = Answer(p, w, "ok") /\ air' = [air EXCEPT ![p] = z.commands[w].frame]
      \/ app' = Answer(p, w, "busy") /\ air' = air
      \/ app' = Answer(p, w, "refused") /\ air' = air
  BY DEF PendantAnswers
<1>. HIDE DEF w
<1>5. PICK k : k = w
  OBVIOUS
<1>6. PICK status \in {"ok", "busy", "refused"} : app' = Answer(p, k, status)
  BY <1>4, <1>5
<1> DEFINE b == [z EXCEPT !.commands[k].status = status]
<1>7. MovesTo(p, b)
  BY <1>6, Zenon DEF Answer, MovesTo
<1>8. b \in App /\ Plain(z, b, {}) /\ b.session = z.session /\ b.rx = z.rx
  <2>1. /\ z \in App /\ k \in DOMAIN z.commands
        /\ status \in {"sent", "ok", "busy", "refused"}
    BY <1>1, <1>3, <1>5
  <2>. HIDE DEF z
  <2>. QED  BY <2>1, StatusPlain
<1>. HIDE DEF b
<1>9. z.commands[w].frame = z.active.frame /\ z.active # None
  <2>1. z.commands # <<>>
    BY <1>1, <1>3 DEF App
  <2>. QED  BY <1>1, <1>3, <2>1 DEF Lined
<1>10. CASE air' = air
  BY <1>2, <1>7, <1>8, <1>10, QuietStep DEF Ends
<1>11. CASE air' = [air EXCEPT ![p] = z.commands[w].frame]
  <2>1. PICK fr : fr = z.commands[w].frame
    OBVIOUS
  <2>2. PICK g : g = fr.file
    OBVIOUS
  <2>3. fr \in Frame /\ fr # None /\ g \in Object /\ fr \in Active(z) /\ fr \in Held(z)
        /\ fr \in Ways(z, air[p])
    BY <1>3, <1>9, <2>1, <2>2, NoneAssumption DEF Command, Active, Held, Ways, Frame
  <2>4. Active(z) = {fr}
    BY <1>9, <2>1 DEF Active
  <2>5. air'[p] = fr /\ \A r \in Phone : r # p => air'[r] = air[r]
    BY <1>1, <1>11, <2>1
  <2>6. g <= offered
    BY <2>2, <2>3, Offered DEF Frame
  <2>7. PICK st : Told(g, st)
    BY <2>3, <2>6, StoryOf
  <2>8. /\ st \in Story /\ shown[g] <= st.heard /\ st.heard <= st.rounds
        /\ \A r \in Phone : Side(r, app[r], air[r], g, st, shown[g], outcome[g])
    BY <2>7 DEF Told
  <2> DEFINE tt == IF fr.name \in Starts THEN [st EXCEPT !.aired = st.rounds] ELSE st
  <2>9. /\ tt \in Story /\ tt.src = st.src /\ tt.dst = st.dst
        /\ tt.rounds = st.rounds /\ tt.heard = st.heard
        /\ fr.name \in Starts => tt.aired = st.rounds
        /\ fr.name \notin Starts => tt = st
    BY <2>8 DEF Story
  <2>. HIDE DEF tt, z
  <2>10. Held(b) \subseteq Held(z) /\ Starting(b) \subseteq Starting(z)
    BY <1>1, <1>8 DEF Plain, Pipes
  <2>11. Side(p, z, air[p], g, st, shown[g], outcome[g])
    BY <2>8 DEF z
  <2>12. Side(p, b, fr, g, tt, shown[g], outcome[g])
    <3>1. b.session # None /\ b.session.file = g =>
           /\ outcome[g] = "sending" /\ p = tt.src /\ b.session.to = tt.dst
           /\ tt.rounds <= b.session.resends + 1
      BY <1>8, <2>9, <2>11 DEF Side
    <3>2. ASSUME NEW x \in Ways(b, fr), x.file = g PROVE Fits(p, x, tt, shown[g])
      <4>1. x \in Ways(z, air[p])
        BY <2>3, <2>10, <3>2 DEF Ways
      <4>. QED  BY <2>9, <2>11, <3>2, <4>1 DEF Side, Fits
    <3>3. b.rx # None /\ b.rx.file = g =>
           /\ p = tt.dst /\ b.rx.src = tt.src
           /\ ~b.rx.completed => shown[g] < tt.heard
           /\ b.rx.got = Chunk => shown[g] > 0
      BY <1>8, <2>9, <2>11 DEF Side
    <3>4. ASSUME fr.name \in Starts
          PROVE  /\ tt.heard <= tt.aired /\ tt.aired <= tt.rounds
                 /\ tt.aired = tt.heard => shown[g] < tt.heard
      <4>1. fr \in Starting(z)
        BY <2>3, <3>4 DEF Starting
      <4>2. st.rounds = st.heard => shown[g] < st.heard
        BY <2>2, <2>11, <4>1 DEF Side
      <4>3. st.rounds \in Nat
        BY <2>8, Bounds DEF Story
      <4>. QED  BY <2>8, <2>9, <3>4, <4>2, <4>3
    <3>5. ASSUME NEW x \in Starting(b), x.file = g
          PROVE  /\ tt.rounds = tt.heard => shown[g] < tt.heard
                 /\ fr.name \notin Datas
      <4>1. x \in Starting(z) /\ x = fr /\ x.name \in Starts
        BY <2>4, <2>10, <3>5 DEF Starting
      <4>2. st.rounds = st.heard => shown[g] < st.heard
        BY <2>11, <3>5, <4>1 DEF Side
      <4>. QED  BY <2>9, <4>1, <4>2 DEF Starts, Datas
    <3>. QED  BY <3>1, <3>2, <3>3, <3>4, <3>5 DEF Side
  <2>13. ASSUME NEW r \in Phone, r # p
         PROVE  Side(r, app[r], air[r], g, tt, shown[g], outcome[g])
    <3>1. Side(r, app[r], air[r], g, st, shown[g], outcome[g])
      BY <2>8
    <3>2. CASE fr.name \notin Starts
      BY <2>9, <3>1, <3>2
    <3>3. CASE fr.name \in Starts
      <4>1. st.src = p
        BY <2>2, <2>3, <2>11, <3>3 DEF Side, Fits
      <4>2. air[r] # None /\ air[r].file = g => air[r].name \notin Starts
        BY <2>13, <3>1, <4>1 DEF Side, Ways, Fits
      <4>. QED  BY <2>9, <3>1, <4>2 DEF Side, Fits
    <3>. QED  BY <3>2, <3>3
  <2>14. /\ app'[p] = b /\ \A r \in Phone : r # p => app'[r] = app[r]
    BY <1>1, <1>7, <1>8, MoveStep
  <2>15. \A r \in Phone : Side(r, app'[r], air'[r], g, tt, shown'[g], outcome'[g])
    BY <1>2, <2>5, <2>12, <2>13, <2>14
  <2>16. Told(g, tt)'
    BY <1>2, <2>8, <2>9, <2>15 DEF Told
  <2>17. Known(g)'
    <3>1. ~(g > offered')
      BY <1>1, <1>2, <2>3, <2>6 DEF Object
    <3>2. outcome'[g] # "none"
      BY <1>2, <2>3, <2>6, StoryOf
    <3>. QED  BY <2>16, <3>1, <3>2 DEF Known
  <2>18. ASSUME NEW f \in Object, f # g PROVE Apart(app[p], b, air[p], air'[p], f)
    <3>1. Apart(z, b, air[p], fr, f)
      BY <1>8, <2>2, <2>10, <2>18 DEF Apart, Ways
    <3>. QED  BY <2>5, <3>1 DEF z
  <2>19. \A f \in Object : f # g => Known(f)'
    BY <1>2, <1>7, <1>8, <2>3, <2>5, <2>18, OthersKept
  <2>20. Lined(b) /\ Calm(b)
    BY <1>1, <1>8 DEF Plain, Pipes
  <2>21. \A r \in Phone : Lined(app'[r]) /\ Calm(app'[r])
    BY <1>7, <1>8, <2>20, LinesKept
  <2>22. [Promise!Next]_(Promise!vars)
    BY <1>2 DEF Promise!vars
  <2>. QED  BY <2>17, <2>19, <2>21, <2>22 DEF Kept
<1>. QED  BY <1>4, <1>10, <1>11

\* The receiver of an object, the sender and anyone else, when it is whole.
LEMMA ShownSide ==
  ASSUME NEW r, NEW a, NEW b, NEW w, NEW v, NEW g, NEW st \in Story, NEW n \in Nat, NEW o,
         Side(r, a, w, g, st, n, o), v = w \/ v = None,
         Held(b) \subseteq Held(a) \cup Tidings(g), Starting(b) \subseteq Starting(a),
         b.session = a.session,
         b.rx # None /\ b.rx.file = g =>
           r = st.dst /\ b.rx.src = st.src /\ b.rx.completed,
         r = st.src => w # None /\ w.file = g /\ w.name \in Datas
  PROVE  Side(r, b, v, g, st, n + 1, o)
<1>1. n + 1 > 0
  OBVIOUS
<1>2. ASSUME NEW fr \in Ways(b, v), fr.file = g PROVE Fits(r, fr, st, n + 1)
  <2>1. CASE fr \in Tidings(g)
    BY <1>1, <2>1 DEF Tidings, Fits, Starts, Datas
  <2>2. CASE fr \in Ways(a, w)
    BY <1>1, <1>2, <2>2 DEF Side, Fits
  <2>. QED  BY <1>2, <2>1, <2>2 DEF Ways
<1>3. w # None /\ w.file = g => w.name \notin Starts
  <2>1. w # None => w \in Ways(a, w)
    BY DEF Ways
  <2>. QED  BY <2>1 DEF Side, Fits, Starts, Datas
<1>4. ASSUME NEW fr \in Starting(b), fr.file = g PROVE st.heard < st.rounds
  <2>1. fr \in Starting(a) /\ fr \in Ways(a, w) /\ fr.name \in Starts
    BY <1>4 DEF Starting, Ways, Held
  <2>2. r = st.src
    BY <1>4, <2>1 DEF Side, Fits
  <2>. QED  BY <1>4, <2>1, <2>2 DEF Side
<1>5. st.heard \in Nat /\ st.rounds \in Nat
  BY Bounds DEF Story
<1>6. \A fr \in Starting(b) : fr.file = g =>
       /\ st.rounds = st.heard => n + 1 < st.heard
       /\ v # None /\ v.file = g /\ v.name \in Datas => st.heard < st.rounds
  BY <1>4, <1>5
<1>7. b.session # None /\ b.session.file = g =>
       /\ o = "sending" /\ r = st.src /\ b.session.to = st.dst
       /\ st.rounds <= b.session.resends + 1
  BY DEF Side
<1>. QED  BY <1>1, <1>2, <1>3, <1>6, <1>7 DEF Side

\* The same, when the receiver hears the START frame of the round on air.
LEMMA HeardSide ==
  ASSUME NEW r, NEW a, NEW b, NEW w, NEW v, NEW g, NEW st \in Story, NEW n \in Nat, NEW o,
         Side(r, a, w, g, st, n, o), v = w \/ v = None,
         Held(b) \subseteq Held(a), Starting(b) \subseteq Starting(a),
         b.session = a.session, n < st.aired, st.aired <= st.rounds,
         b.rx # None /\ b.rx.file = g =>
           r = st.dst /\ b.rx.src = st.src /\ b.rx.got # Chunk,
         r = st.src => w # None /\ w.name \in Starts
  PROVE  Side(r, b, v, g, [st EXCEPT !.heard = st.aired], n, o)
<1> DEFINE tt == [st EXCEPT !.heard = st.aired]
<1>1. /\ tt.src = st.src /\ tt.dst = st.dst /\ tt.heard = st.aired /\ tt.aired = st.aired
      /\ tt.rounds = st.rounds
  BY DEF Story
<1>. HIDE DEF tt
<1>2. \A fr \in Ways(b, v) : fr.file = g => fr \in Ways(a, w) /\ Fits(r, fr, tt, n)
  BY <1>1 DEF Ways, Side, Fits
<1>3. v # None /\ v.file = g /\ v.name \in Starts =>
       /\ tt.heard <= tt.aired /\ tt.aired <= tt.rounds
       /\ tt.aired = tt.heard => n < tt.heard
  <2>1. st.aired \in Nat
    BY Bounds DEF Story
  <2>. QED  BY <1>1, <2>1
<1>4. ASSUME NEW fr \in Starting(b), fr.file = g
      PROVE  /\ tt.rounds = tt.heard => n < tt.heard
             /\ v # None /\ v.file = g /\ v.name \in Datas => tt.heard < tt.rounds
  <2>1. fr \in Ways(a, w) /\ fr.name \in Starts
    BY <1>4 DEF Starting, Ways, Held
  <2>2. r = st.src
    BY <1>4, <2>1 DEF Side, Fits
  <2>. QED  BY <1>1, <2>2 DEF Starts, Datas
<1>5. b.session # None /\ b.session.file = g =>
       /\ o = "sending" /\ r = tt.src /\ b.session.to = tt.dst
       /\ tt.rounds <= b.session.resends + 1
  BY <1>1 DEF Side
<1>6. b.rx # None /\ b.rx.file = g =>
       /\ r = tt.dst /\ b.rx.src = tt.src
       /\ ~b.rx.completed => n < tt.heard
       /\ b.rx.got = Chunk => n > 0
  BY <1>1
<1>. QED  BY <1>2, <1>3, <1>4, <1>5, <1>6 DEF Side, tt

\* What a frame that is heard says of its object, and the step that hears it.
LEMMA Hearing ==
  ASSUME IInv, NEW p \in Phone, NEW fr, fr = air[p], Deliver(p)
  PROVE  LET q == fr.to
             before == app[q]
             after == HandleFileEvent(before, p, fr)
         IN  /\ fr \in Frame /\ fr # None /\ q \in Phone /\ fr.file \in Object /\ fr.file <= offered
             /\ before \in App /\ Lined(before) /\ Calm(before)
             /\ after \in App /\ MovesTo(q, after)
             /\ shown' = IF Completes(before, p, fr) THEN [shown EXCEPT ![fr.file] = @ + 1]
                         ELSE shown
             /\ outcome' = IF before.session # None /\ after.session = None
                           THEN [outcome EXCEPT ![fr.file] = Verdict(before, fr)] ELSE outcome
             /\ offered' = offered
             /\ \A r \in Phone : air'[r] = air[r] \/ air'[r] = None
             /\ outcome[fr.file] # "none"
             /\ \E st : Told(fr.file, st)
             /\ \A st : Told(fr.file, st) =>
                  /\ st \in Story /\ shown[fr.file] <= st.heard /\ st.heard <= st.rounds
                  /\ \A r \in Phone : Side(r, app[r], air[r], fr.file, st, shown[fr.file],
                                           outcome[fr.file])
                  /\ Fits(p, fr, st, shown[fr.file])
<1> DEFINE q == fr.to
           before == app[q]
           after == HandleFileEvent(before, p, fr)
<1>1. TypeOK
  BY DEF IInv
<1>2. /\ fr \in Frame /\ q \in Phone /\ MovesTo(q, after) /\ Follows(before, after)
      /\ offered' = offered
  BY <1>1, DeliverMoves
<1>3. fr # None /\ fr.file \in Object
  BY <1>2, NoneAssumption DEF Frame
<1>4. fr \in Ways(app[p], air[p])
  BY <1>3 DEF Ways
<1>5. fr.file <= offered
  BY <1>3, <1>4, Offered
<1>6. outcome[fr.file] # "none" /\ \E st : Told(fr.file, st)
  BY <1>3, <1>5, StoryOf
<1>7. ASSUME NEW st, Told(fr.file, st)
      PROVE  /\ st \in Story /\ shown[fr.file] <= st.heard /\ st.heard <= st.rounds
             /\ \A r \in Phone : Side(r, app[r], air[r], fr.file, st, shown[fr.file],
                                      outcome[fr.file])
             /\ Fits(p, fr, st, shown[fr.file])
  <2>1. /\ st \in Story /\ shown[fr.file] <= st.heard /\ st.heard <= st.rounds
        /\ \A r \in Phone : Side(r, app[r], air[r], fr.file, st, shown[fr.file],
                                 outcome[fr.file])
    BY <1>7 DEF Told
  <2>2. Fits(p, fr, st, shown[fr.file])
    BY <1>4, <2>1 DEF Side
  <2>. QED  BY <2>1, <2>2
<1>8. /\ shown' = IF Completes(before, p, fr) THEN [shown EXCEPT ![fr.file] = @ + 1] ELSE shown
      /\ outcome' = IF before.session # None /\ after.session = None
                    THEN [outcome EXCEPT ![fr.file] = Verdict(before, fr)] ELSE outcome
  BY DEF Deliver
<1>9. air' = [air EXCEPT ![p] = None] \/ air' = air
  BY DEF Deliver
<1>10. \A r \in Phone : air'[r] = air[r] \/ air'[r] = None
  BY <1>1, <1>9 DEF TypeOK
<1>11. before \in App /\ Lined(before) /\ Calm(before)
  BY <1>2, PhoneTyped
<1>. HIDE DEF after
<1>. QED  BY <1>2, <1>3, <1>5, <1>6, <1>7, <1>8, <1>10, <1>11 DEF Follows, after

\* A REPORT or a DONE: the sender repairs, or it has its verdict.
LEMMA VerdictKept ==
  ASSUME IInv, NEW p \in Phone, Deliver(p), air[p].name \in {"REPORT", "DONE"}
  PROVE  Kept
<1>1. PICK fr : fr = air[p]
  OBVIOUS
<1>2. PICK q : q = fr.to
  OBVIOUS
<1>3. PICK g : g = fr.file
  OBVIOUS
<1> DEFINE before == app[q]
           after == HandleFileEvent(before, p, fr)
<1>4. /\ fr \in Frame /\ q \in Phone /\ g \in Object /\ g <= offered
      /\ after \in App /\ MovesTo(q, after)
      /\ shown' = IF Completes(before, p, fr) THEN [shown EXCEPT ![fr.file] = @ + 1] ELSE shown
      /\ outcome' = IF before.session # None /\ after.session = None
                    THEN [outcome EXCEPT ![g] = Verdict(before, fr)] ELSE outcome
      /\ offered' = offered
      /\ \A r \in Phone : air'[r] = air[r] \/ air'[r] = None
      /\ \E st : Told(g, st)
      /\ \A st : Told(g, st) =>
           /\ \A r \in Phone : Side(r, app[r], air[r], g, st, shown[g], outcome[g])
           /\ Fits(p, fr, st, shown[g])
  BY <1>1, <1>2, <1>3, Hearing
<1>5. shown' = shown
  BY <1>1, <1>4 DEF Completes
<1>6. PICK st : Told(g, st)
  BY <1>4
<1>7. Good(fr) => shown[g] > 0
  BY <1>4, <1>6 DEF Fits
<1>8. /\ fr.name = "REPORT" => after = OnReportFrame(before, p, fr)
      /\ fr.name = "DONE" => after = OnDoneFrame(before, fr)
  BY DEF HandleFileEvent
<1>9. before \in App
  BY <1>4, PhoneTyped
<1> DEFINE new == IF fr.name = "REPORT" THEN Answers(before, fr) ELSE {}
<1>. HIDE DEF after
<1>10. Plain(before, after, new) /\ after.rx = before.rx /\ EndedBy(before, after, fr)
  <2>1. CASE fr.name = "REPORT"
    BY <1>4, <1>8, <1>9, <2>1, OnReportPlain
  <2>2. CASE fr.name = "DONE"
    BY <1>4, <1>8, <1>9, <2>2, OnDonePlain
  <2>. QED  BY <1>1, <2>1, <2>2
<1>11. ASSUME NEW x \in new
       PROVE  /\ x.file \in Object /\ x.file <= offered
              /\ \A t : Told(x.file, t) => Fits(q, x, t, shown[x.file])
  <2>1. /\ x \in Answers(before, fr) /\ fr.name = "REPORT"
        /\ before.session # None /\ before.session.file = g /\ x.file = g
        /\ \/ x \in ChunkFrames(before.session)
           \/ x.name = "DONE" /\ Missing(fr) = {}
    BY <1>3 DEF Answers
  <2>2. ASSUME NEW t, Told(g, t) PROVE Fits(q, x, t, shown[g])
    <3>1. Side(q, before, air[q], g, t, shown[g], outcome[g])
      BY <1>4, <2>2
    <3>2. q = t.src /\ before.session.to = t.dst
      BY <2>1, <3>1 DEF Side
    <3>3. CASE x \in ChunkFrames(before.session)
      BY <3>2, <3>3 DEF ChunkFrames, Fits, Good, Datas
    <3>4. CASE x.name = "DONE" /\ Missing(fr) = {}
      BY <1>7, <2>1, <3>4 DEF Fits, Good, Starts, Datas
    <3>. QED  BY <2>1, <3>3, <3>4
  <2>. QED  BY <1>4, <2>1, <2>2
<1>. HIDE DEF new
<1>12. Ends(q, after)
  <2>1. CASE before.session # None /\ after.session = None
    <3>1. before.session.file = g
      BY <1>3, <1>10, <2>1 DEF EndedBy
    <3>2. outcome' = [outcome EXCEPT ![g] = Verdict(before, fr)]
      BY <1>4, <2>1
    <3>3. /\ Verdict(before, fr) \in {"failed", "completed"}
          /\ Verdict(before, fr) = "completed" => Good(fr)
      BY <1>1 DEF Verdict, Good
    <3>. QED  BY <1>7, <2>1, <3>1, <3>2, <3>3 DEF Ends
  <2>2. CASE ~(before.session # None /\ after.session = None)
    BY <1>4, <2>2 DEF Ends
  <2>. QED  BY <2>1, <2>2
<1>13. RxKept(before, after)
  BY <1>10 DEF RxKept
<1>. QED  BY <1>4, <1>5, <1>10, <1>11, <1>12, <1>13, PlainStep

\* A DATA frame: the object is whole, or it is not.
LEMMA DataKept ==
  ASSUME IInv, NEW p \in Phone, Deliver(p), air[p].name \in Datas
  PROVE  Kept
<1>1. PICK fr : fr = air[p]
  OBVIOUS
<1>2. PICK q : q = fr.to
  OBVIOUS
<1>3. PICK g : g = fr.file
  OBVIOUS
<1> DEFINE before == app[q]
           after == HandleFileEvent(before, p, fr)
<1>4. /\ fr \in Frame /\ fr # None /\ q \in Phone /\ g \in Object /\ g <= offered
      /\ before \in App /\ Lined(before) /\ Calm(before)
      /\ after \in App /\ MovesTo(q, after)
      /\ shown' = IF Completes(before, p, fr) THEN [shown EXCEPT ![g] = @ + 1] ELSE shown
      /\ outcome' = IF before.session # None /\ after.session = None
                    THEN [outcome EXCEPT ![g] = Verdict(before, fr)] ELSE outcome
      /\ offered' = offered
      /\ \A r \in Phone : air'[r] = air[r] \/ air'[r] = None
      /\ outcome[g] # "none" /\ \E st : Told(g, st)
      /\ \A st : Told(g, st) =>
           /\ st \in Story /\ shown[g] <= st.heard /\ st.heard <= st.rounds
           /\ \A r \in Phone : Side(r, app[r], air[r], g, st, shown[g], outcome[g])
           /\ Fits(p, fr, st, shown[g])
  BY <1>1, <1>2, <1>3, Hearing
<1>5. after = OnDataFrame(before, p, fr)
  BY <1>1 DEF HandleFileEvent, Datas
<1>. HIDE DEF after
<1>6. /\ after.session = before.session
      /\ ~Completes(before, p, fr) => Plain(before, after, {}) /\ RxKept(before, after)
      /\ Completes(before, p, fr) =>
           /\ Plain(before, after, Tidings(g))
           /\ after.rx = [before.rx EXCEPT !.got = Chunk, !.completed = TRUE]
  <2>1. before \in App /\ p \in Phone /\ fr \in Frame /\ fr.name \in Datas
    BY <1>1, <1>4
  <2>2. after = OnDataFrame(before, p, fr) /\ fr.file = g
    BY <1>3, <1>5
  <2>. HIDE DEF before
  <2>3. LET b == OnDataFrame(before, p, fr)
        IN  /\ b.session = before.session
            /\ ~Completes(before, p, fr) => Plain(before, b, {}) /\ RxKept(before, b)
            /\ Completes(before, p, fr) =>
                 /\ Plain(before, b, Tidings(fr.file))
                 /\ b.rx = [before.rx EXCEPT !.got = Chunk, !.completed = TRUE]
    BY <2>1, OnDataPlain
  <2>. QED  BY <2>2, <2>3
<1>7. outcome' = outcome
  BY <1>4, <1>6
<1>8. CASE ~Completes(before, p, fr)
  <2>1. shown' = shown /\ Ends(q, after)
    BY <1>4, <1>7, <1>8 DEF Ends
  <2>2. \A x \in {} : /\ x.file \in Object /\ x.file <= offered
                      /\ \A t : Told(x.file, t) => Fits(q, x, t, shown[x.file])
    OBVIOUS
  <2>. QED  BY <1>4, <1>6, <1>8, <2>1, <2>2, PlainStep
<1>9. CASE Completes(before, p, fr)
  <2>1. PICK st : Told(g, st)
    BY <1>4
  <2>2. /\ st \in Story /\ shown[g] <= st.heard /\ st.heard <= st.rounds
        /\ \A r \in Phone : Side(r, app[r], air[r], g, st, shown[g], outcome[g])
        /\ Fits(p, fr, st, shown[g])
    BY <1>4, <2>1
  <2>3. /\ before.rx # None /\ before.rx.file = g /\ ~before.rx.completed
        /\ before.rx \in ReceiveSession
    BY <1>3, <1>4, <1>9 DEF Completes, App
  <2>4. q = st.dst /\ before.rx.src = st.src /\ shown[g] < st.heard /\ p = st.src
    BY <1>1, <2>2, <2>3, <1>4 DEF Side, Fits
  <2>5. shown \in [Object -> Nat] /\ shown' = [shown EXCEPT ![g] = @ + 1]
    BY <1>4, <1>9 DEF IInv, TypeOK
  <2>6. shown'[g] = shown[g] + 1 /\ \A f \in Object : f # g => shown'[f] = shown[f]
    BY <1>4, <2>5
  <2>7. shown[g] \in Nat /\ st.heard \in Nat /\ st.rounds \in Nat /\ ResendMax \in Nat
        /\ st.heard <= 1 + ResendMax
    BY <1>4, <2>2, <2>5, Bounds DEF Story
  <2>8. /\ after.rx.file = g /\ after.rx.src = st.src /\ after.rx.completed
    BY <1>6, <1>9, <2>3, <2>4 DEF ReceiveSession
  <2>9. /\ Held(after) \subseteq Held(before) \cup Tidings(g)
        /\ Starting(after) \subseteq Starting(before)
        /\ Lined(after) /\ Calm(after)
    BY <1>4, <1>6, <1>9 DEF Plain, Pipes
  <2>10. /\ app'[q] = after /\ \A r \in Phone : r # q => app'[r] = app[r]
    BY <1>4, PhoneTyped, MoveStep
  <2>11. ASSUME NEW r \in Phone
         PROVE  Side(r, app'[r], air'[r], g, st, shown[g] + 1, outcome[g])
    <3>1. Side(r, app[r], air[r], g, st, shown[g], outcome[g])
      BY <2>2
    <3>2. r = st.src => air[r] # None /\ air[r].file = g /\ air[r].name \in Datas
      BY <1>1, <1>3, <1>4, <2>4
    <3>3. air'[r] = air[r] \/ air'[r] = None
      BY <1>4
    <3>4. /\ Held(app'[r]) \subseteq Held(app[r]) \cup Tidings(g)
          /\ Starting(app'[r]) \subseteq Starting(app[r])
          /\ app'[r].session = app[r].session
      BY <1>6, <2>9, <2>10
    <3>5. app'[r].rx # None /\ app'[r].rx.file = g =>
            r = st.dst /\ app'[r].rx.src = st.src /\ app'[r].rx.completed
      <4>1. CASE r = q
        BY <2>4, <2>8, <2>10, <4>1
      <4>2. CASE r # q
        BY <2>4, <2>10, <3>1, <4>2 DEF Side
      <4>. QED  BY <4>1, <4>2
    <3>. QED  BY <2>2, <2>7, <3>1, <3>2, <3>3, <3>4, <3>5, ShownSide
  <2>12. Told(g, st)'
    <3>1. shown[g] + 1 <= st.heard
      BY <2>4, <2>7
    <3>2. \A r \in Phone : Side(r, app'[r], air'[r], g, st, shown'[g], outcome'[g])
      BY <1>7, <2>6, <2>11
    <3>. QED  BY <2>2, <2>6, <3>1, <3>2 DEF Told
  <2>13. Known(g)'
    <3>1. ~(g > offered')
      BY <1>4, Bounds DEF IInv, TypeOK, Object
    <3>. QED  BY <1>4, <1>7, <2>12, <3>1 DEF Known
  <2>14. \A f \in Object : f # g => Known(f)'
    <3>1. ASSUME NEW f \in Object, f # g PROVE Apart(app[q], after, air[q], air'[q], f)
      <4>1. \A x \in Tidings(g) : x.file # f
        BY <3>1 DEF Tidings
      <4>. QED  BY <1>4, <1>6, <1>9, <2>8, <3>1, <4>1, PlainApart
    <3>. QED  BY <1>4, <1>7, <2>6, <3>1, OthersKept
  <2>15. \A r \in Phone : Lined(app'[r]) /\ Calm(app'[r])
    BY <1>4, <2>9, LinesKept
  <2>16. Promise!Show(g)
    <3>1. shown[g] < 1 + ResendMax
      BY <2>4, <2>7
    <3>. QED  BY <1>4, <1>7, <2>5, <3>1 DEF Promise!Show
  <2>17. Promise!Next
    BY <1>4, <2>16 DEF Promise!Next
  <2>. QED  BY <2>13, <2>14, <2>15, <2>17 DEF Kept
<1>. QED  BY <1>8, <1>9

\* A START frame: the receiver begins a round anew.
LEMMA StartKept ==
  ASSUME IInv, NEW p \in Phone, Deliver(p), air[p].name \in Starts
  PROVE  Kept
<1>1. PICK fr : fr = air[p]
  OBVIOUS
<1>2. PICK q : q = fr.to
  OBVIOUS
<1>3. PICK g : g = fr.file
  OBVIOUS
<1> DEFINE before == app[q]
           after == HandleFileEvent(before, p, fr)
<1>4. /\ fr \in Frame /\ fr # None /\ q \in Phone /\ g \in Object /\ g <= offered
      /\ before \in App /\ Lined(before) /\ Calm(before)
      /\ after \in App /\ MovesTo(q, after)
      /\ shown' = IF Completes(before, p, fr) THEN [shown EXCEPT ![g] = @ + 1] ELSE shown
      /\ outcome' = IF before.session # None /\ after.session = None
                    THEN [outcome EXCEPT ![g] = Verdict(before, fr)] ELSE outcome
      /\ offered' = offered
      /\ \A r \in Phone : air'[r] = air[r] \/ air'[r] = None
      /\ outcome[g] # "none" /\ \E st : Told(g, st)
      /\ \A st : Told(g, st) =>
           /\ st \in Story /\ shown[g] <= st.heard /\ st.heard <= st.rounds
           /\ \A r \in Phone : Side(r, app[r], air[r], g, st, shown[g], outcome[g])
           /\ Fits(p, fr, st, shown[g])
  BY <1>1, <1>2, <1>3, Hearing
<1>5. after = OnStartFrame(before, p, fr)
  BY <1>1 DEF HandleFileEvent, Starts
<1>. HIDE DEF after
<1>6. /\ Plain(before, after, {}) /\ after.session = before.session
      /\ after.rx = [src |-> p, file |-> g, got |-> {}, completed |-> FALSE]
  <2>1. before \in App /\ p \in Phone /\ fr \in Frame
    BY <1>4
  <2>2. after = OnStartFrame(before, p, fr) /\ fr.file = g
    BY <1>3, <1>5
  <2>. HIDE DEF before
  <2>3. LET b == OnStartFrame(before, p, fr)
        IN  /\ Plain(before, b, {}) /\ b.session = before.session
            /\ b.rx = [src |-> p, file |-> fr.file, got |-> {}, completed |-> FALSE]
    BY <2>1, OnStartPlain
  <2>. QED  BY <2>2, <2>3
<1>7. fr.name \in Starts /\ fr.name \notin Datas
  BY <1>1 DEF Starts, Datas
<1>8. shown' = shown /\ outcome' = outcome
  BY <1>4, <1>6, <1>7 DEF Completes, Datas
<1>9. PICK st : Told(g, st)
  BY <1>4
<1>10. /\ st \in Story /\ shown[g] <= st.heard /\ st.heard <= st.rounds
       /\ \A r \in Phone : Side(r, app[r], air[r], g, st, shown[g], outcome[g])
       /\ Fits(p, fr, st, shown[g])
  BY <1>4, <1>9
<1>11. p = st.src /\ q = st.dst
  <2>. HIDE DEF before
  <2>. QED  BY <1>2, <1>7, <1>10 DEF Fits
<1>12. /\ shown[g] \in Nat /\ st.heard \in Nat /\ st.aired \in Nat /\ st.rounds \in Nat
       /\ shown[g] < st.aired /\ st.aired <= st.rounds
  <2>1. Side(p, app[p], fr, g, st, shown[g], outcome[g])
    BY <1>1, <1>10
  <2>2. /\ st.heard <= st.aired /\ st.aired <= st.rounds
        /\ st.aired = st.heard => shown[g] < st.heard
    BY <1>3, <1>4, <1>7, <2>1 DEF Side
  <2>3. shown[g] \in Nat
    BY <1>4 DEF IInv, TypeOK
  <2>4. st.heard \in Nat /\ st.aired \in Nat /\ st.rounds \in Nat
    BY <1>10, Bounds DEF Story
  <2>. QED  BY <1>10, <2>2, <2>3, <2>4
<1>13. after.rx # None /\ after.rx.src = p /\ after.rx.file = g /\ after.rx.got # Chunk
  <2>1. [src |-> p, file |-> g, got |-> {}, completed |-> FALSE] \in ReceiveSession
    BY <1>4 DEF ReceiveSession
  <2>2. after.rx # None
    BY <1>6, <2>1, NoneAssumption
  <2>3. {} # Chunk
    BY ChunkAssumption
  <2>. QED  BY <1>6, <2>2, <2>3
<1>14. /\ Held(after) \subseteq Held(before) /\ Starting(after) \subseteq Starting(before)
       /\ Lined(after) /\ Calm(after)
  BY <1>4, <1>6 DEF Plain, Pipes
<1>15. app'[q] = after /\ \A r \in Phone : r # q => app'[r] = app[r]
  BY <1>4, PhoneTyped, MoveStep
<1>16. ASSUME NEW r \in Phone
       PROVE  Side(r, app'[r], air'[r], g, [st EXCEPT !.heard = st.aired], shown[g], outcome[g])
  <2>1. Side(r, app[r], air[r], g, st, shown[g], outcome[g])
    BY <1>10
  <2>2. r = st.src => air[r] # None /\ air[r].name \in Starts
    BY <1>1, <1>4, <1>7, <1>11
  <2>3. air'[r] = air[r] \/ air'[r] = None
    BY <1>4
  <2>4. /\ Held(app'[r]) \subseteq Held(app[r])
        /\ Starting(app'[r]) \subseteq Starting(app[r])
        /\ app'[r].session = app[r].session
    BY <1>6, <1>14, <1>15
  <2>5. app'[r].rx # None /\ app'[r].rx.file = g =>
          r = st.dst /\ app'[r].rx.src = st.src /\ app'[r].rx.got # Chunk
    <3>1. CASE r = q
      BY <1>11, <1>13, <1>15, <3>1
    <3>2. CASE r # q
      BY <1>11, <1>15, <2>1, <3>2 DEF Side
    <3>. QED  BY <3>1, <3>2
  <2>. QED  BY <1>10, <1>12, <2>1, <2>2, <2>3, <2>4, <2>5, HeardSide
<1>17. Known(g)'
  <2> DEFINE tt == [st EXCEPT !.heard = st.aired]
  <2>1. /\ tt \in Story /\ tt.src = st.src /\ tt.dst = st.dst /\ tt.rounds = st.rounds
        /\ tt.heard = st.aired /\ tt.aired = st.aired
    BY <1>10 DEF Story
  <2>2. \A r \in Phone : Side(r, app'[r], air'[r], g, tt, shown'[g], outcome'[g])
    BY <1>8, <1>16
  <2>. HIDE DEF tt
  <2>3. Told(g, tt)'
    BY <1>8, <1>12, <2>1, <2>2 DEF Told
  <2>4. ~(g > offered')
    BY <1>4, Bounds DEF IInv, TypeOK, Object
  <2>5. outcome'[g] # "none"
    BY <1>4, <1>8
  <2>. QED  BY <2>3, <2>4, <2>5 DEF Known
<1>18. \A f \in Object : f # g => Known(f)'
  <2>1. ASSUME NEW f \in Object, f # g PROVE Apart(app[q], after, air[q], air'[q], f)
    <3>1. \A x \in {} : x.file # f
      OBVIOUS
    <3>. QED  BY <1>4, <1>6, <1>13, <2>1, <3>1, PlainApart
  <2>. QED  BY <1>4, <1>8, <2>1, OthersKept
<1>19. \A r \in Phone : Lined(app'[r]) /\ Calm(app'[r])
  BY <1>4, <1>14, LinesKept
<1>. QED  BY <1>4, <1>8, <1>17, <1>18, <1>19 DEF Kept, Promise!vars

-----------------------------------------------------------------------------
(* The invariant, and the promise. *)

LEMMA StepKept == ASSUME IInv, Next PROVE Kept
<1>1. PICK p \in Phone :
        \/ \E q \in Phone : SendObject(p, q)
        \/ HandleFileSendResponse(p) \/ OnSenderWatchdog(p)
        \/ RunDrain(p) \/ RunRetry(p) \/ SendPendingReport(p)
        \/ PendantAnswers(p) \/ DropCommand(p) \/ Deliver(p) \/ Lose(p)
        \/ LinkLost(p) \/ UnbindDevice(p) \/ LinkUp(p)
  BY DEF Next
<1>2. CASE \E q \in Phone : SendObject(p, q)
  BY <1>2, SendKept
<1>3. CASE HandleFileSendResponse(p)
  BY <1>3, ResponseKept
<1>4. CASE OnSenderWatchdog(p)
  BY <1>4, WatchdogKept
<1>5. CASE RunDrain(p) \/ RunRetry(p)
  BY <1>5, RunKept
<1>6. CASE SendPendingReport(p)
  BY <1>6, ReportKept
<1>7. CASE PendantAnswers(p)
  BY <1>7, AnswersKept
<1>8. CASE DropCommand(p) \/ UnbindDevice(p)
  BY <1>8, DropKept
<1>9. CASE Deliver(p)
  <2>1. air[p] \in Frame
    BY <1>9 DEF Deliver, IInv, TypeOK
  <2>2. air[p].name \in Starts \cup Datas \cup {"REPORT", "DONE"}
    BY <2>1 DEF Frame, Name, Starts, Datas
  <2>. QED  BY <1>9, <2>2, StartKept, DataKept, VerdictKept
<1>10. CASE Lose(p)
  BY <1>10, LoseKept
<1>11. CASE LinkLost(p) \/ LinkUp(p)
  BY <1>11, LinkKept
<1>. QED  BY <1>1, <1>2, <1>3, <1>4, <1>5, <1>6, <1>7, <1>8, <1>9, <1>10, <1>11

LEMMA InitKept == Init => IInv /\ Promise!Init
<1>. SUFFICES ASSUME Init PROVE IInv /\ Promise!Init
  OBVIOUS
<1>1. TypeOK
  BY InitType
<1>2. /\ app = [p \in Phone |->
                  [ready |-> TRUE, session |-> None, active |-> None, queue |-> <<>>,
                   rx |-> None, timers |-> {}, commands |-> <<>>]]
      /\ air = [p \in Phone |-> None] /\ offered = 0
      /\ outcome = [f \in Object |-> "none"] /\ shown = [f \in Object |-> 0]
  BY DEF Init
<1>3. ASSUME NEW p \in Phone
      PROVE  /\ Lined(app[p]) /\ Calm(app[p])
             /\ \A f \in Object : Untouched(app[p], air[p], f)
  <2>1. /\ app[p].active = None /\ app[p].queue = <<>> /\ app[p].commands = <<>>
        /\ app[p].session = None /\ app[p].rx = None /\ air[p] = None
    BY <1>2
  <2>2. Queued(app[p]) = {} /\ Active(app[p]) = {}
    BY <2>1 DEF Queued, Active
  <2>3. Lined(app[p]) /\ Calm(app[p])
    BY <2>1, <2>2 DEF Lined, Calm
  <2>. QED  BY <2>1, <2>2, <2>3 DEF Untouched, Ways, Held
<1>4. ASSUME NEW f \in Object PROVE Known(f)
  <2>1. f > offered
    BY <1>2 DEF Object
  <2>2. shown[f] = 0 /\ outcome[f] = "none"
    BY <1>2
  <2>. QED  BY <1>3, <2>1, <2>2 DEF Known
<1>5. Promise!Init
  BY <1>2 DEF Promise!Init
<1>. QED  BY <1>1, <1>3, <1>4, <1>5 DEF IInv

\* The rounds of an object are told apart: whatever is lost, repeated or
\* written again, its numbers exist in every state.
THEOREM RoundsAreTold == Spec => []IInv
<1>1. Init => IInv
  BY InitKept
<1>2. IInv /\ TypeOK' /\ [Next]_vars => IInv'
  <2>. SUFFICES ASSUME IInv, TypeOK', [Next]_vars PROVE IInv'
    OBVIOUS
  <2>1. CASE Next
    BY <2>1, StepKept DEF Kept, IInv
  <2>2. CASE UNCHANGED vars
    BY <2>2 DEF vars, IInv, Known, Told
  <2>. QED  BY <2>1, <2>2
<1>. QED  BY <1>1, <1>2, TypeCorrect, PTL DEF Spec

\* FileTransfer implements ObjectTransfer.
THEOREM PromiseKept == Spec => KeepsPromise
<1>1. Init => Promise!Init
  BY InitKept
<1>2. IInv /\ [Next]_vars => [Promise!Next]_(Promise!vars)
  <2>. SUFFICES ASSUME IInv, [Next]_vars PROVE [Promise!Next]_(Promise!vars)
    OBVIOUS
  <2>1. CASE Next
    BY <2>1, StepKept DEF Kept
  <2>2. CASE UNCHANGED vars
    BY <2>2 DEF vars, Promise!vars
  <2>. QED  BY <2>1, <2>2
<1>. QED  BY <1>1, <1>2, RoundsAreTold, PTL DEF Spec, KeepsPromise, Promise!Spec

=============================================================================
