------------------------ MODULE PeerTransportProofs ------------------------
(***************************************************************************)
(* Theorems about PeerTransport, for every set of pendants and messages    *)
(* and every number of retry rounds, acknowledgements and resets.          *)
(***************************************************************************)
EXTENDS PeerTransport, SequenceTheorems, FiniteSetTheorems, TLAPS

-----------------------------------------------------------------------------
(* What a step does to the variables of one pendant. *)

\* The acknowledgement in slot a, or the frame made of it, says this.
Says(a, to, id, count, bitmap, status) ==
  /\ a.to = to /\ a.id = id /\ a.count = count /\ a.bitmap = bitmap
  /\ a.status = status

AckFrameOf(d, a) ==
  [kind |-> "ACK", src |-> d, dst |-> a.to, id |-> a.id, count |-> a.count,
   bitmap |-> a.bitmap, status |-> a.status]

DataFrameOf(d, t, i, seq) ==
  [kind |-> "DATA", src |-> d, dst |-> To[t.msg], id |-> t.id, index |-> i,
   count |-> Count[t.msg], reliable |-> Reliable[t.msg], seq |-> seq, msg |-> t.msg]

\* The transmit context of d goes from t to t2, and the upper layers are told o.
TxMoves(d, t, t2, o) ==
  \/ t2 = t /\ o = outcome
  \/ /\ t # None /\ t2 = None /\ tx[d] # None
     /\ o = [outcome EXCEPT ![t.msg] = "failed"]
  \/ /\ t # None /\ t2 = None /\ tx[d] # None
     /\ Reliable[t.msg] => All(Count[t.msg]) \subseteq t.acked
     /\ o = [outcome EXCEPT ![t.msg] = "ok"]
  \/ /\ t # None /\ o = outcome
     /\ \E p \in SUBSET All(Count[t.msg]), r \in 0..MaxRetryRounds :
          t2 = [t EXCEPT !.pending = p, !.round = r]

\* The slot a poll may answer from: the pending one, or that of a timeout.
SlotOf(d, slot) ==
  \/ slot = ack[d]
  \/ /\ rx[d] # None /\ rx[d].reliable /\ slot \in Ack
     /\ Says(slot, rx[d].src, rx[d].id, rx[d].count, DOMAIN rx[d].got, "TIMEOUT")

QueueMoves(d, t, slot, q) ==
  \/ q = queue[d]
  \/ queue[d] = None /\ slot # None /\ q = AckFrameOf(d, slot)
  \/ /\ queue[d] = None /\ t # None
     /\ \E i \in All(Count[t.msg]), s \in Seq4Frame : q = DataFrameOf(d, t, i, s)

AckMoves(slot, a) ==
  \/ a = None
  \/ a = slot
  \/ slot # None /\ a \in Ack /\ Says(a, slot.to, slot.id, slot.count, slot.bitmap, slot.status)

LEMMA Bounds ==
  /\ MaxRetryRounds \in Nat /\ MaxReboots \in Nat
  /\ \A s \in Status : AckRepeat[s] \in Nat \ {0}
  /\ \A m \in Message : /\ From[m] \in Device /\ To[m] \in Device \cup {Broadcast}
                        /\ Count[m] \in {1, 2} /\ Reliable[m] \in BOOLEAN
                        /\ To[m] # From[m] /\ (Reliable[m] => To[m] # Broadcast)
  /\ Index = {0, 1} /\ All(1) = {0} /\ All(2) = {0, 1}
BY BoundAssumption, MessageAssumption DEF MaxFragments, Index, All

LEMMA AllOf ==
  ASSUME NEW m \in Message
  PROVE  /\ Count[m] \in {1, 2} /\ Count[m] \in 1..MaxFragments
         /\ All(Count[m]) \subseteq Index /\ 0 \in All(Count[m]) /\ Count[m] - 1 \in All(Count[m])
<1>1. Count[m] \in {1, 2}
  BY Bounds
<1>. QED  BY <1>1, Bounds DEF MaxFragments

LEMMA ScheduledType ==
  ASSUME NEW slot \in Ack \cup {None}, NEW to \in Device, NEW id \in MsgId,
         NEW count \in 1..MaxFragments, NEW bitmap \in SUBSET Index, NEW status \in Status
  PROVE  /\ Scheduled(slot, to, id, count, bitmap, status) \in Ack
         /\ Says(Scheduled(slot, to, id, count, bitmap, status), to, id, count, bitmap, status)
<1> DEFINE new == [to |-> to, id |-> id, count |-> count, bitmap |-> bitmap,
                   status |-> status, left |-> AckRepeat[status]]
<1>1. new \in Ack /\ Says(new, to, id, count, bitmap, status)
  BY Bounds DEF Ack, Says
<1>2. CASE slot # None /\ [slot EXCEPT !.left = new.left] = new
  <2>1. slot \in Ack
    BY <1>2
  <2>2. /\ slot.to = new.to /\ slot.id = new.id /\ slot.count = new.count
        /\ slot.bitmap = new.bitmap /\ slot.status = new.status
    <3> DEFINE left == new.left
    <3>1. [slot EXCEPT !.left = left].to = slot.to /\ [slot EXCEPT !.left = left].id = slot.id
          /\ [slot EXCEPT !.left = left].count = slot.count
          /\ [slot EXCEPT !.left = left].bitmap = slot.bitmap
          /\ [slot EXCEPT !.left = left].status = slot.status
      <4>. HIDE DEF left, new
      <4>. QED  BY <2>1 DEF Ack
    <3>. HIDE DEF new
    <3>. QED  BY <1>2, <3>1
  <2>3. Says(slot, to, id, count, bitmap, status)
    BY <2>2 DEF Says
  <2>. QED  BY <1>2, <2>1, <2>3 DEF Scheduled
<1>3. CASE ~(slot # None /\ [slot EXCEPT !.left = new.left] = new)
  BY <1>1, <1>3 DEF Scheduled
<1>. QED  BY <1>2, <1>3

LEMMA FirstOf ==
  ASSUME NEW left \in SUBSET Index, left # {}
  PROVE  (CHOOSE i \in left : \A j \in left : i <= j) \in left
<1>1. left \subseteq {0, 1}
  BY Bounds
<1>2. \E i \in left : \A j \in left : i <= j
  <2>1. CASE 0 \in left
    BY <1>1, <2>1
  <2>2. CASE 0 \notin left
    <3>1. left = {1}
      BY <1>1, <2>2
    <3>. QED  BY <3>1
  <2>. QED  BY <2>1, <2>2
<1>. QED  BY <1>2

LEMMA PollFacts ==
  ASSUME TypeOK, NEW d \in Device, NEW t \in TxContext \cup {None}, NEW expired \in BOOLEAN,
         PollWith(d, t, expired), t # None => t.pending \subseteq All(Count[t.msg]), t = None => tx[d] = None,
         t # None /\ tx[d] = None => t.acked = {} /\ t.pending # {}
  PROVE  \E slot, a, q, t2 :
           /\ slot \in Ack \cup {None} /\ SlotOf(d, slot)
           /\ AckMoves(slot, a) /\ ack' = [ack EXCEPT ![d] = a]
           /\ QueueMoves(d, t, slot, q) /\ queue' = [queue EXCEPT ![d] = q]
           /\ TxMoves(d, t, t2, outcome') /\ tx' = [tx EXCEPT ![d] = t2]
           /\ \/ rx' = rx
              \/ rx[d] # None /\ rx' = [rx EXCEPT ![d] = None]
<1> DEFINE r == rx[d]
           slot == IF expired /\ r.reliable
                   THEN Scheduled(ack[d], r.src, r.id, r.count, DOMAIN r.got, "TIMEOUT")
                   ELSE ack[d]
<1>1. /\ ack \in [Device -> Ack \cup {None}] /\ rx \in [Device -> RxContext \cup {None}]
      /\ queue \in [Device -> Frame \cup {None}] /\ tx \in [Device -> TxContext \cup {None}]
  BY DEF TypeOK
<1>2. expired => r # None
  BY DEF PollWith
<1>3. slot \in Ack \cup {None} /\ SlotOf(d, slot)
  <2>1. CASE expired /\ r.reliable
    <3>1. r \in RxContext
      BY <1>1, <1>2, <2>1
    <3>2. /\ r.src \in Device /\ r.id \in MsgId /\ r.count \in 1..MaxFragments
          /\ DOMAIN r.got \in SUBSET Index
      BY <3>1 DEF RxContext, Buffer
    <3>3. ack[d] \in Ack \cup {None} /\ "TIMEOUT" \in Status
      BY <1>1 DEF Status
    <3>4. /\ Scheduled(ack[d], r.src, r.id, r.count, DOMAIN r.got, "TIMEOUT") \in Ack
          /\ Says(Scheduled(ack[d], r.src, r.id, r.count, DOMAIN r.got, "TIMEOUT"),
                  r.src, r.id, r.count, DOMAIN r.got, "TIMEOUT")
      BY <3>2, <3>3, ScheduledType
    <3>. QED  BY <1>2, <2>1, <3>4 DEF SlotOf
  <2>2. CASE ~(expired /\ r.reliable)
    BY <1>1, <2>2 DEF SlotOf
  <2>. QED  BY <2>1, <2>2
<1>4. /\ rx' = [rx EXCEPT ![d] = IF expired THEN None ELSE r]
      /\ \/ SendAck(d, slot) /\ tx' = [tx EXCEPT ![d] = t] /\ UNCHANGED outcome
         \/ /\ NoAckNow(d, slot)
            /\ ack' = [ack EXCEPT ![d] = slot]
            /\ TxPoll(d, t)
  BY DEF PollWith
<1>. HIDE DEF slot
<1>5. \/ rx' = rx
      \/ rx[d] # None /\ rx' = [rx EXCEPT ![d] = None]
  <2>1. [rx EXCEPT ![d] = r] = rx
    BY <1>1
  <2>. QED  BY <1>2, <1>4, <2>1
<1>6. CASE SendAck(d, slot) /\ tx' = [tx EXCEPT ![d] = t] /\ UNCHANGED outcome
  <2> DEFINE a == IF slot.left = 1 THEN None ELSE [slot EXCEPT !.left = @ - 1]
             q == AckFrameOf(d, slot)
  <2>1. slot \in Ack /\ slot # None /\ queue[d] = None
    BY <1>3, <1>6 DEF SendAck
  <2>2. ack' = [ack EXCEPT ![d] = a] /\ queue' = [queue EXCEPT ![d] = q]
    BY <1>6 DEF SendAck, AckFrameOf
  <2>3. AckMoves(slot, a)
    <3>1. CASE slot.left = 1
      BY <3>1 DEF AckMoves
    <3>2. CASE slot.left # 1
      <4> DEFINE b == [slot EXCEPT !.left = @ - 1]
      <4>1. slot.left - 1 \in Nat \ {0}
        BY <2>1, <3>2 DEF Ack
      <4>2. b \in Ack /\ Says(b, slot.to, slot.id, slot.count, slot.bitmap, slot.status)
        BY <2>1, <4>1 DEF Ack, Says
      <4>3. a = b
        BY <3>2
      <4>. QED  BY <2>1, <4>2, <4>3 DEF AckMoves
    <3>. QED  BY <3>1, <3>2
  <2>4. QueueMoves(d, t, slot, q) /\ TxMoves(d, t, t, outcome')
    BY <1>6, <2>1 DEF QueueMoves, TxMoves
  <2>. HIDE DEF a, q
  <2>. QED  BY <1>3, <1>5, <1>6, <2>2, <2>3, <2>4
<1>7. CASE /\ NoAckNow(d, slot)
           /\ ack' = [ack EXCEPT ![d] = slot]
           /\ TxPoll(d, t)
  <2>1. AckMoves(slot, slot)
    BY DEF AckMoves
  <2>2. \E t2, q : /\ QueueMoves(d, t, slot, q) /\ queue' = [queue EXCEPT ![d] = q]
                   /\ TxMoves(d, t, t2, outcome') /\ tx' = [tx EXCEPT ![d] = t2]
    <3> DEFINE left    == t.pending \ t.acked
               missing == All(Count[t.msg]) \ t.acked
               first   == CHOOSE i \in left : \A j \in left : i <= j
               sent    == [t EXCEPT !.pending = left]
    <3>1. QueueMoves(d, t, slot, queue[d]) /\ queue = [queue EXCEPT ![d] = queue[d]]
      BY <1>1 DEF QueueMoves
    <3>2. CASE t = None /\ UNCHANGED <<tx, queue, outcome>>
      <4>1. TxMoves(d, t, t, outcome') /\ tx' = [tx EXCEPT ![d] = t]
        BY <1>1, <3>2 DEF TxMoves
      <4>. QED  BY <3>1, <3>2, <4>1
    <3>3. CASE t # None /\ tx[d] # None /\ Finish(d, t, "failed") /\ UNCHANGED queue
      <4>1. TxMoves(d, t, None, outcome') /\ tx' = [tx EXCEPT ![d] = None]
        BY <3>3 DEF TxMoves, Finish
      <4>. QED  BY <3>1, <3>3, <4>1
    <3>4. ASSUME t # None
          PROVE  /\ t \in TxContext /\ left \in SUBSET All(Count[t.msg])
                 /\ t.round \in 0..MaxRetryRounds
                 /\ \A p : [t EXCEPT !.pending = p] = [t EXCEPT !.pending = p, !.round = t.round]
      <4>1. t \in TxContext
        BY <3>4
      <4>. QED  BY <3>4, <4>1 DEF TxContext
    <3>5. ASSUME NEW p \in SUBSET All(Count[t.msg]), t # None, UNCHANGED <<queue, outcome>>,
                 tx' = [tx EXCEPT ![d] = [t EXCEPT !.pending = p]]
          PROVE  \E t2, q : /\ QueueMoves(d, t, slot, q) /\ queue' = [queue EXCEPT ![d] = q]
                            /\ TxMoves(d, t, t2, outcome') /\ tx' = [tx EXCEPT ![d] = t2]
      <4>1. TxMoves(d, t, [t EXCEPT !.pending = p], outcome')
        BY <3>4, <3>5 DEF TxMoves
      <4>. QED  BY <3>1, <3>5, <4>1
    <3>6. CASE t # None /\ left # {} /\ queue[d] = None /\ SendFragment(d, sent, first)
               /\ UNCHANGED outcome
      <4>1. first \in left /\ left \in SUBSET Index
        <5>1. left \in SUBSET Index
          BY <3>4, <3>6 DEF TxContext
        <5>. QED  BY <3>6, <5>1, FirstOf
      <4> DEFINE t2 == [sent EXCEPT !.pending = @ \ {first}]
                 p  == left \ {first}
                 seq == <<first, t.round>>
                 q  == DataFrameOf(d, t, first, seq)
      <4>2. t \in TxContext /\ p \in SUBSET All(Count[t.msg]) /\ first \in All(Count[t.msg])
            /\ t.round \in 0..MaxRetryRounds
        BY <3>4, <3>6, <4>1
      <4>3. t2 = [t EXCEPT !.pending = p]
        <5>. HIDE DEF first, left
        <5>. QED  BY <4>2 DEF TxContext
      <4>4. sent.msg = t.msg /\ sent.id = t.id /\ sent.round = t.round
        <5>. HIDE DEF first, left
        <5>. QED  BY <4>2 DEF TxContext
      <4>5. tx' = [tx EXCEPT ![d] = t2] /\ queue' = [queue EXCEPT ![d] = q]
        <5>. HIDE DEF first, left
        <5>. QED  BY <3>6, <4>4 DEF SendFragment, DataFrameOf
      <4>6. seq \in Seq4Frame
        <5>. HIDE DEF first, left
        <5>. QED  BY <4>1, <4>2 DEF Seq4Frame
      <4>7. QueueMoves(d, t, slot, q)
        <5>. HIDE DEF first, left, seq
        <5>. QED  BY <3>6, <4>2, <4>6 DEF QueueMoves
      <4>8. TxMoves(d, t, t2, outcome')
        <5>. HIDE DEF first, left, p, t2
        <5>. QED  BY <3>4, <3>6, <4>2, <4>3 DEF TxMoves
      <4>. HIDE DEF t2, q, first, left, sent, p, seq
      <4>. QED  BY <4>5, <4>7, <4>8
    <3>7. CASE t # None /\ left = {} /\ (~Reliable[t.msg] \/ missing = {})
               /\ Finish(d, t, "ok") /\ UNCHANGED queue
      <4>1. Reliable[t.msg] \in BOOLEAN
        BY <3>4, <3>7, Bounds DEF TxContext
      <4>2. (Reliable[t.msg] => All(Count[t.msg]) \subseteq t.acked) /\ tx[d] # None
        BY <3>7, <4>1
      <4>3. TxMoves(d, t, None, outcome') /\ tx' = [tx EXCEPT ![d] = None]
        BY <3>7, <4>2 DEF TxMoves, Finish
      <4>. QED  BY <3>1, <3>7, <4>3
    <3>8. CASE /\ t # None /\ left = {} /\ Reliable[t.msg] /\ missing # {}
               /\ \/ tx' = [tx EXCEPT ![d] = [t EXCEPT !.pending = {}]]
                     /\ UNCHANGED <<queue, outcome>>
                  \/ ~RoundsLeft(t)
                     /\ Finish(d, t, "failed") /\ UNCHANGED queue
                  \/ RoundsLeft(t)
                     /\ tx' = [tx EXCEPT ![d] = [t EXCEPT !.pending = missing, !.round = @ + 1]]
                     /\ UNCHANGED <<queue, outcome>>
      <4>1. tx[d] # None
        BY <3>8
      <4>2. CASE tx' = [tx EXCEPT ![d] = [t EXCEPT !.pending = {}]] /\ UNCHANGED <<queue, outcome>>
        <5>1. {} \in SUBSET All(Count[t.msg])
          OBVIOUS
        <5>. QED  BY <3>5, <3>8, <4>2, <5>1
      <4>3. CASE ~RoundsLeft(t) /\ Finish(d, t, "failed") /\ UNCHANGED queue
        BY <3>3, <3>8, <4>1, <4>3
      <4>4. CASE /\ RoundsLeft(t)
                 /\ tx' = [tx EXCEPT ![d] = [t EXCEPT !.pending = missing, !.round = @ + 1]]
                 /\ UNCHANGED <<queue, outcome>>
        <5> DEFINE t2 == [t EXCEPT !.pending = missing, !.round = @ + 1]
        <5>0. /\ missing \in SUBSET All(Count[t.msg]) /\ t \in TxContext
              /\ t.round \in 0..MaxRetryRounds /\ t.round < MaxRetryRounds
          BY <3>4, <3>8, <4>4 DEF RoundsLeft
        <5>1. /\ missing \in SUBSET All(Count[t.msg]) /\ t.round + 1 \in 0..MaxRetryRounds
              /\ t2 = [t EXCEPT !.pending = missing, !.round = t.round + 1]
          <6>. HIDE DEF missing
          <6>. QED  BY <5>0, BoundAssumption DEF TxContext
        <5>2. TxMoves(d, t, t2, outcome')
          <6>. HIDE DEF missing, t2
          <6>. QED  BY <3>8, <4>4, <5>1 DEF TxMoves
        <5>3. tx' = [tx EXCEPT ![d] = t2]
          BY <4>4
        <5>. HIDE DEF t2
        <5>. QED  BY <3>1, <4>4, <5>2, <5>3
      <4>. QED  BY <3>8, <4>2, <4>3, <4>4
    <3>9. CASE t # None /\ tx' = [tx EXCEPT ![d] = sent] /\ UNCHANGED <<queue, outcome>>
      BY <3>4, <3>5, <3>9
    <3>. QED  BY <1>7, <3>2, <3>3, <3>6, <3>7, <3>8, <3>9 DEF TxPoll
  <2>. QED  BY <1>3, <1>5, <1>7, <2>1, <2>2
<1>. QED  BY <1>4, <1>6, <1>7

-----------------------------------------------------------------------------
(* Types. *)

\* A transmit context only has fragments of its message to send.
Fits(t) == t # None => t.pending \subseteq All(Count[t.msg])

TypeInv == TypeOK /\ \A d \in Device : Fits(tx[d])

Outcomes == [Message -> {"none", "ok", "failed"}]

LEMMA AckFrameType ==
  ASSUME NEW d \in Device, NEW a \in Ack
  PROVE  AckFrameOf(d, a) \in Frame
<1>1. AckFrameOf(d, a) \in AckFrame
  BY DEF AckFrameOf, AckFrame, Ack
<1>. QED  BY <1>1 DEF Frame

LEMMA DataFrameType ==
  ASSUME NEW d \in Device, NEW t \in TxContext, NEW i \in All(Count[t.msg]), NEW s \in Seq4Frame
  PROVE  DataFrameOf(d, t, i, s) \in Frame
<1>1. /\ t.msg \in Message /\ t.id \in MsgId
      /\ To[t.msg] \in Device \cup {Broadcast} /\ Reliable[t.msg] \in BOOLEAN
  BY Bounds DEF TxContext
<1>2. Count[t.msg] \in 1..MaxFragments /\ i \in Index
  BY <1>1, Bounds DEF MaxFragments
<1>3. DataFrameOf(d, t, i, s) \in DataFrame
  BY <1>1, <1>2 DEF DataFrameOf, DataFrame
<1>. QED  BY <1>3 DEF Frame

LEMMA PollTypes ==
  ASSUME TypeOK, NEW d \in Device, NEW t \in TxContext \cup {None}, NEW expired \in BOOLEAN,
         PollWith(d, t, expired), Fits(t), t = None => tx[d] = None,
         t # None /\ tx[d] = None => t.acked = {} /\ t.pending # {},
         \A e \in Device : Fits(tx[e])
  PROVE  /\ tx' \in [Device -> TxContext \cup {None}]
         /\ rx' \in [Device -> RxContext \cup {None}]
         /\ ack' \in [Device -> Ack \cup {None}]
         /\ queue' \in [Device -> Frame \cup {None}]
         /\ outcome' \in Outcomes
         /\ \A e \in Device : Fits(tx'[e])
<1>1. PICK slot, a, q, t2 :
        /\ slot \in Ack \cup {None} /\ SlotOf(d, slot)
        /\ AckMoves(slot, a) /\ ack' = [ack EXCEPT ![d] = a]
        /\ QueueMoves(d, t, slot, q) /\ queue' = [queue EXCEPT ![d] = q]
        /\ TxMoves(d, t, t2, outcome') /\ tx' = [tx EXCEPT ![d] = t2]
        /\ \/ rx' = rx
           \/ rx[d] # None /\ rx' = [rx EXCEPT ![d] = None]
  BY PollFacts DEF Fits
<1>2. /\ ack \in [Device -> Ack \cup {None}] /\ rx \in [Device -> RxContext \cup {None}]
      /\ queue \in [Device -> Frame \cup {None}] /\ tx \in [Device -> TxContext \cup {None}]
      /\ outcome \in Outcomes
  BY DEF TypeOK, Outcomes
<1>3. a \in Ack \cup {None}
  BY <1>1 DEF AckMoves
<1>4. q \in Frame \cup {None}
  BY <1>1, <1>2, AckFrameType, DataFrameType DEF QueueMoves
<1>5. t2 \in TxContext \cup {None} /\ Fits(t2) /\ outcome' \in Outcomes
  <2>1. CASE t = None
    BY <1>1, <1>2, <2>1 DEF TxMoves, Fits
  <2>2. CASE t # None
    <3>1. t \in TxContext /\ t.msg \in Message
      BY <2>2 DEF TxContext
    <3>2. All(Count[t.msg]) \subseteq Index
      BY <3>1, Bounds
    <3>3. ASSUME NEW p \in SUBSET All(Count[t.msg]), NEW r \in 0..MaxRetryRounds,
                 t2 = [t EXCEPT !.pending = p, !.round = r]
          PROVE  t2 \in TxContext /\ t2.pending = p /\ t2.msg = t.msg
      BY <3>1, <3>2, <3>3 DEF TxContext
    <3>4. CASE \E p \in SUBSET All(Count[t.msg]), r \in 0..MaxRetryRounds :
                 t2 = [t EXCEPT !.pending = p, !.round = r]
      <4>1. t2 \in TxContext /\ t2.pending \subseteq All(Count[t.msg]) /\ t2.msg = t.msg
        BY <3>3, <3>4
      <4>2. t2 \in TxContext /\ Fits(t2)
        BY <4>1 DEF Fits
      <4>3. outcome' \in Outcomes
        BY <1>1, <1>2, <3>1 DEF TxMoves, Outcomes
      <4>. QED  BY <4>2, <4>3
    <3>5. CASE t2 = t \/ t2 = None
      <4>1. outcome' \in Outcomes
        BY <1>1, <1>2, <3>1 DEF TxMoves, Outcomes
      <4>. QED  BY <3>1, <3>5, <4>1 DEF Fits
    <3>. QED  BY <1>1, <3>4, <3>5 DEF TxMoves
  <2>. QED  BY <2>1, <2>2
<1>. QED  BY <1>1, <1>2, <1>3, <1>4, <1>5

LEMMA StartContext ==
  ASSUME TypeOK, NEW d \in Device, NEW m \in Message
  PROVE  LET t == [msg |-> m, id |-> nextId[d], acked |-> {}, pending |-> All(Count[m]),
                   round |-> 0]
         IN  /\ t \in TxContext /\ Fits(t) /\ t.acked = {} /\ t.pending # {}
             /\ t.msg = m /\ t.id = nextId[d] /\ t.pending = All(Count[m])
<1> DEFINE p == All(Count[m])
           n == nextId[d]
           t == [msg |-> m, id |-> n, acked |-> {}, pending |-> p, round |-> 0]
<1>1. n \in MsgId
  BY DEF TypeOK
<1>2. n \in MsgId /\ p \in SUBSET Index /\ p # {} /\ 0 \in 0..MaxRetryRounds /\ {} \in SUBSET Index
  BY <1>1, AllOf, BoundAssumption
<1>3. t.pending = p /\ t.msg = m /\ t.acked = {} /\ t.id = n
  OBVIOUS
<1>4. t \in TxContext
  <2>. HIDE DEF p, n
  <2>. QED  BY <1>2 DEF TxContext
<1>5. Fits(t)
  BY <1>3 DEF Fits
<1>. QED  BY <1>2, <1>3, <1>4, <1>5

LEMMA PollType == ASSUME TypeInv, NEW d \in Device, Poll(d) PROVE TypeInv'
<1>1. PICK expired \in BOOLEAN : PollWith(d, tx[d], expired)
  BY DEF Poll
<1>2. tx[d] \in TxContext \cup {None} /\ (\A e \in Device : Fits(tx[e]))
  BY DEF TypeInv, TypeOK
<1>3. /\ tx' \in [Device -> TxContext \cup {None}]
      /\ rx' \in [Device -> RxContext \cup {None}]
      /\ ack' \in [Device -> Ack \cup {None}]
      /\ queue' \in [Device -> Frame \cup {None}]
      /\ outcome' \in Outcomes
      /\ \A e \in Device : Fits(tx'[e])
  BY <1>1, <1>2, PollTypes DEF TypeInv
<1>4. UNCHANGED <<nextId, completed, onAir, deferred, reboots, started, idOf, heard, delivered>>
  BY DEF Poll
<1>. QED  BY <1>3, <1>4 DEF TypeInv, TypeOK, Outcomes

LEMMA StartType ==
  ASSUME TypeInv, NEW d \in Device, NEW m \in Message, Start(d, m) PROVE TypeInv'
<1> DEFINE t == [msg |-> m, id |-> nextId[d], acked |-> {}, pending |-> All(Count[m]),
                 round |-> 0]
<1>1. PICK expired \in BOOLEAN : PollWith(d, t, expired)
  BY DEF Start
<1>2. t \in TxContext /\ Fits(t) /\ t.acked = {} /\ t.pending # {} /\ tx[d] = None
  BY StartContext DEF TypeInv, Start
<1>3. \A e \in Device : Fits(tx[e])
  BY DEF TypeInv
<1>4. /\ started' = started \cup {m} /\ idOf' = [idOf EXCEPT ![m] = nextId[d]]
      /\ nextId' = [nextId EXCEPT ![d] = @ + 1]
      /\ UNCHANGED <<completed, onAir, deferred, reboots, heard, delivered>>
  BY DEF Start
<1>. HIDE DEF t
<1>5. /\ tx' \in [Device -> TxContext \cup {None}]
      /\ rx' \in [Device -> RxContext \cup {None}]
      /\ ack' \in [Device -> Ack \cup {None}]
      /\ queue' \in [Device -> Frame \cup {None}]
      /\ outcome' \in Outcomes
      /\ \A e \in Device : Fits(tx'[e])
  BY <1>1, <1>2, <1>3, PollTypes DEF TypeInv
<1>6. nextId' \in [Device -> MsgId] /\ idOf' \in [Message -> Nat] /\ started' \subseteq Message
  BY <1>4 DEF TypeInv, TypeOK, MsgId
<1>. QED  BY <1>4, <1>5, <1>6 DEF TypeInv, TypeOK, Outcomes

LEMMA NothingGot == << >> \in Buffer /\ DOMAIN << >> = {}
<1>1. << >> \in Seq(Message) /\ Len(<< >>) = 0
  BY EmptySeq
<1>2. << >> \in [1..0 -> Message]
  BY <1>1, SeqDef
<1>3. 1..0 = {}
  OBVIOUS
<1>4. << >> \in [{} -> Message]
  BY <1>2, <1>3
<1>. QED  BY <1>4 DEF Buffer

\* The buffer of r with fragment f.
Filled(r, f) ==
  [i \in DOMAIN r.got \cup {f.index} |-> IF i = f.index THEN f.msg ELSE r.got[i]]

LEMMA FilledType ==
  ASSUME NEW r, r.got \in Buffer, NEW f \in DataFrame
  PROVE  /\ Filled(r, f) \in Buffer
         /\ DOMAIN Filled(r, f) = DOMAIN r.got \cup {f.index}
         /\ Filled(r, f)[f.index] = f.msg
         /\ \A i \in DOMAIN r.got : i # f.index => Filled(r, f)[i] = r.got[i]
<1>1. PICK s \in SUBSET Index : r.got \in [s -> Message]
  BY DEF Buffer
<1>2. f.index \in Index /\ f.msg \in Message
  BY DEF DataFrame
<1>3. DOMAIN r.got = s /\ s \cup {f.index} \in SUBSET Index
  BY <1>1, <1>2
<1>4. Filled(r, f) \in [s \cup {f.index} -> Message]
  BY <1>1, <1>2, <1>3 DEF Filled
<1>5. Filled(r, f) \in Buffer
  BY <1>3, <1>4 DEF Buffer
<1>. QED  BY <1>3, <1>5 DEF Filled

-----------------------------------------------------------------------------
(* What a frame does to the pendant that hears it. *)

Matches(d, f) ==
  /\ f.dst = d /\ tx[d] # None
  /\ tx[d].id = f.id /\ To[tx[d].msg] = f.src /\ Count[tx[d].msg] = f.count

Done == {"COMPLETE", "DUP_COMPLETE"}

LEMMA AckFacts ==
  ASSUME TypeOK, NEW d \in Device, NEW f \in AckFrame, HandleAck(d, f)
  PROVE  /\ UNCHANGED <<rx, completed, ack, heard, delivered>>
         /\ \/ tx' = tx /\ outcome' = outcome
            \/ /\ Matches(d, f) /\ tx' = [tx EXCEPT ![d] = None]
               /\ \E result \in {"ok", "failed"} :
                    /\ result = "ok" => f.status \in Done
                    /\ outcome' = [outcome EXCEPT ![tx[d].msg] = result]
            \/ /\ Matches(d, f) /\ outcome' = outcome
               /\ \E b \in TxContext :
                    /\ tx' = [tx EXCEPT ![d] = b] /\ b.msg = tx[d].msg /\ b.id = tx[d].id
                    /\ b.acked \subseteq tx[d].acked \cup f.bitmap
                    /\ b.pending \subseteq tx[d].pending
<1> DEFINE t == tx[d]
           match == /\ f.dst = d /\ t # None
                    /\ t.id = f.id /\ To[t.msg] = f.src /\ Count[t.msg] = f.count
<1>1. match <=> Matches(d, f)
  BY DEF Matches
<1>2. /\ \/ match /\ f.status \in {"COMPLETE", "DUP_COMPLETE"} /\ Finish(d, t, "ok")
         \/ match /\ f.status \in {"REJECTED", "TIMEOUT"} /\ Finish(d, t, "failed")
         \/ /\ match /\ f.status = "PARTIAL"
            /\ LET acked == t.acked \cup (f.bitmap \cap All(f.count))
               IN tx' = [tx EXCEPT ![d].acked = acked, ![d].pending = @ \ acked]
            /\ UNCHANGED outcome
         \/ ~match /\ UNCHANGED <<tx, outcome>>
         \/ f.status = "BUSY" /\ UNCHANGED <<tx, outcome>>
      /\ UNCHANGED <<rx, completed, ack, heard, delivered>>
  BY DEF HandleAck
<1>3. tx \in [Device -> TxContext \cup {None}]
  BY DEF TypeOK
<1>4. CASE match /\ f.status = "PARTIAL" /\ UNCHANGED outcome
           /\ LET acked == t.acked \cup (f.bitmap \cap All(f.count))
              IN tx' = [tx EXCEPT ![d].acked = acked, ![d].pending = @ \ acked]
  <2> DEFINE acked == t.acked \cup (f.bitmap \cap All(f.count))
             b == [t EXCEPT !.acked = acked, !.pending = @ \ acked]
  <2>1. t \in TxContext /\ f.bitmap \subseteq Index
    BY <1>3, <1>4 DEF AckFrame
  <2>2. acked \in SUBSET Index /\ acked \subseteq t.acked \cup f.bitmap
    BY <2>1 DEF TxContext
  <2>3. tx' = [tx EXCEPT ![d] = b]
    <3>1. tx' = [tx EXCEPT ![d].acked = acked, ![d].pending = @ \ acked]
      BY <1>4
    <3>. HIDE DEF acked
    <3>. QED  BY <1>3, <2>1, <3>1 DEF TxContext
  <2>4. b \in TxContext /\ b.msg = t.msg /\ b.id = t.id /\ b.acked = acked
        /\ b.pending \subseteq t.pending
    <3>. HIDE DEF acked
    <3>. QED  BY <2>1, <2>2 DEF TxContext
  <2>. HIDE DEF acked, b
  <2>. QED  BY <1>1, <1>2, <1>4, <2>2, <2>3, <2>4
<1>5. CASE match /\ f.status \in {"COMPLETE", "DUP_COMPLETE"} /\ Finish(d, t, "ok")
  BY <1>1, <1>2, <1>5 DEF Finish, Done
<1>6. CASE match /\ f.status \in {"REJECTED", "TIMEOUT"} /\ Finish(d, t, "failed")
  BY <1>1, <1>2, <1>6 DEF Finish
<1>. QED  BY <1>2, <1>4, <1>5, <1>6

\* The receive context a first fragment begins.
Fresh(f) == [src |-> f.src, dst |-> f.dst, id |-> f.id, count |-> f.count,
             reliable |-> f.reliable, got |-> << >>]

\* The fragment is answered and changes nothing else but the cached repetition.
Answers(d, f) ==
  /\ f.reliable /\ f.dst \in {d, Broadcast} /\ UNCHANGED <<rx, heard, delivered>>
  /\ \E a \in Ack, bitmap \in SUBSET Index, status \in Status :
       /\ Says(a, f.src, f.id, f.count, bitmap, status) /\ ack' = [ack EXCEPT ![d] = a]
       /\ \/ /\ status = "DUP_COMPLETE" /\ bitmap = All(f.count)
             /\ completed[d] # None /\ SameMessage(completed[d], f)
             /\ completed' = [completed EXCEPT ![d].lastDup = f.seq]
          \/ /\ status \in {"BUSY", "REJECTED", "PARTIAL"} /\ completed' = completed
             /\ \/ bitmap = {}
                \/ rx[d] # None /\ SameMessage(rx[d], f) /\ bitmap = DOMAIN rx[d].got

\* The fragment is new to the context r.
Accepts(d, f, r) ==
  /\ f.dst \in {d, Broadcast} /\ ~(completed[d] # None /\ SameMessage(completed[d], f))
  /\ \/ rx[d] = None /\ r = Fresh(f)
     \/ rx[d] # None /\ r = rx[d]
  /\ SameMessage(r, f) /\ r.count = f.count /\ r.reliable = f.reliable
  /\ f.index \notin DOMAIN r.got
  /\ Accept(d, f, r)

LEMMA DataFacts ==
  ASSUME TypeOK, NEW d \in Device, NEW f \in DataFrame, HandleData(d, f)
  PROVE  /\ UNCHANGED <<tx, outcome>>
         /\ \/ UNCHANGED <<rx, completed, ack, heard, delivered>>
            \/ Answers(d, f)
            \/ \E r \in RxContext : Accepts(d, f, r)
<1> DEFINE r == rx[d]
           known == completed[d] # None /\ SameMessage(completed[d], f)
           mine  == r # None /\ SameMessage(r, f)
           fresh == [src |-> f.src, dst |-> f.dst, id |-> f.id, count |-> f.count,
                     reliable |-> f.reliable, got |-> <<>>]
<1>1. /\ \/ /\ f.dst \notin {d, Broadcast}
            /\ UNCHANGED <<rx, completed, ack, heard, delivered>>
         \/ /\ f.dst \in {d, Broadcast} /\ known
            /\ HandleCompleted(d, f)
         \/ /\ f.dst \in {d, Broadcast} /\ ~known /\ r # None /\ ~mine
            /\ Answer(d, f, {}, "BUSY")
         \/ /\ f.dst \in {d, Broadcast} /\ ~known /\ mine
            /\ r.count # f.count \/ r.reliable # f.reliable
            /\ Answer(d, f, DOMAIN r.got, "REJECTED")
         \/ /\ f.dst \in {d, Broadcast} /\ ~known /\ mine
            /\ r.count = f.count /\ r.reliable = f.reliable
            /\ IF f.index \in DOMAIN r.got THEN Answer(d, f, DOMAIN r.got, "PARTIAL")
                                           ELSE Accept(d, f, r)
         \/ /\ f.dst \in {d, Broadcast} /\ ~known /\ r = None
            /\ Accept(d, f, fresh)
      /\ UNCHANGED <<tx, outcome>>
  BY DEF HandleData
<1>2. /\ ack[d] \in Ack \cup {None} /\ ack \in [Device -> Ack \cup {None}]
      /\ r \in RxContext \cup {None}
  BY DEF TypeOK
<1>3. /\ f.src \in Device /\ f.id \in MsgId /\ f.count \in 1..MaxFragments /\ f.index \in Index
      /\ All(f.count) \in SUBSET Index /\ f.dst \in Device \cup {Broadcast}
      /\ f.reliable \in BOOLEAN
  <2>1. \A n \in 1..MaxFragments : All(n) \subseteq Index
    BY DEF MaxFragments, All, Index
  <2>. QED  BY <2>1 DEF DataFrame
<1>4. ASSUME r # None PROVE r \in RxContext /\ DOMAIN r.got \in SUBSET Index
  BY <1>2, <1>4 DEF RxContext, Buffer
<1>5. ASSUME NEW bitmap \in SUBSET Index, NEW status \in Status
      PROVE  \E a \in Ack :
               /\ a = Scheduled(ack[d], f.src, f.id, f.count, bitmap, status)
               /\ Says(a, f.src, f.id, f.count, bitmap, status)
  BY <1>2, <1>3, ScheduledType
<1>6. CASE f.dst \in {d, Broadcast} /\ known /\ HandleCompleted(d, f)
  <2>1. CASE f.reliable /\ completed[d].lastDup # f.seq
    <3>1. PICK a \in Ack :
            /\ a = Scheduled(ack[d], f.src, f.id, f.count, All(f.count), "DUP_COMPLETE")
            /\ Says(a, f.src, f.id, f.count, All(f.count), "DUP_COMPLETE")
      BY <1>3, <1>5 DEF Status
    <3>2. /\ ack' = [ack EXCEPT ![d] = a]
          /\ completed' = [completed EXCEPT ![d].lastDup = f.seq]
          /\ UNCHANGED <<rx, heard, delivered>>
      BY <1>2, <1>6, <2>1, <3>1 DEF HandleCompleted
    <3>3. Answers(d, f)
      BY <1>3, <1>6, <2>1, <3>1, <3>2 DEF Answers, Status
    <3>. QED  BY <1>1, <3>3
  <2>2. CASE ~(f.reliable /\ completed[d].lastDup # f.seq)
    BY <1>1, <1>6, <2>2 DEF HandleCompleted
  <2>. QED  BY <2>1, <2>2
<1>7. ASSUME NEW bitmap \in SUBSET Index, NEW status \in {"BUSY", "REJECTED", "PARTIAL"},
             f.dst \in {d, Broadcast}, Answer(d, f, bitmap, status),
             bitmap = {} \/ (r # None /\ SameMessage(r, f) /\ bitmap = DOMAIN r.got)
      PROVE  UNCHANGED <<rx, completed, ack, heard, delivered>> \/ Answers(d, f)
  <2>1. CASE f.reliable
    <3>1. PICK a \in Ack :
            /\ a = Scheduled(ack[d], f.src, f.id, f.count, bitmap, status)
            /\ Says(a, f.src, f.id, f.count, bitmap, status)
      BY <1>5 DEF Status
    <3>2. ack' = [ack EXCEPT ![d] = a] /\ UNCHANGED <<rx, completed, heard, delivered>>
      BY <1>2, <1>7, <2>1, <3>1 DEF Answer
    <3>. QED  BY <1>7, <2>1, <3>1, <3>2 DEF Answers, Status
  <2>2. CASE ~f.reliable
    BY <1>7, <2>2 DEF Answer
  <2>. QED  BY <2>1, <2>2
<1>8. CASE f.dst \in {d, Broadcast} /\ ~known /\ r # None /\ ~mine /\ Answer(d, f, {}, "BUSY")
  BY <1>1, <1>7, <1>8
<1>9. CASE /\ f.dst \in {d, Broadcast} /\ ~known /\ mine
           /\ (Answer(d, f, DOMAIN r.got, "REJECTED") \/ Answer(d, f, DOMAIN r.got, "PARTIAL"))
  BY <1>1, <1>4, <1>7, <1>9
<1>10. CASE /\ f.dst \in {d, Broadcast} /\ ~known /\ mine /\ f.index \notin DOMAIN r.got
            /\ r.count = f.count /\ r.reliable = f.reliable /\ Accept(d, f, r)
  BY <1>1, <1>4, <1>10 DEF Accepts
<1>11. CASE f.dst \in {d, Broadcast} /\ ~known /\ r = None /\ Accept(d, f, fresh)
  <2>1. Fresh(f) \in RxContext
    BY <1>3, NothingGot DEF Fresh, RxContext
  <2>2. SameMessage(Fresh(f), f) /\ Fresh(f).count = f.count /\ Fresh(f).reliable = f.reliable
        /\ f.index \notin DOMAIN Fresh(f).got
    BY NothingGot DEF Fresh, SameMessage
  <2>3. Fresh(f) = fresh
    BY DEF Fresh
  <2>4. Accepts(d, f, Fresh(f))
    BY <1>11, <2>2, <2>3 DEF Accepts
  <2>. QED  BY <1>1, <2>1, <2>4
<1>. QED  BY <1>1, <1>6, <1>8, <1>9, <1>10, <1>11

\* What accepting a fragment does; got is the buffer it completes or leaves.
LEMMA AcceptFacts ==
  ASSUME TypeOK, NEW d \in Device, NEW f \in DataFrame, NEW r \in RxContext, Accepts(d, f, r)
  PROVE  LET got == Filled(r, f)
         IN  /\ heard' = [heard EXCEPT ![f.msg] = @ \cup {f.index}]
             /\ \/ ack' = ack
                \/ /\ f.reliable
                   /\ \E a \in Ack, status \in {"COMPLETE", "PARTIAL"} :
                        /\ Says(a, r.src, r.id, r.count, DOMAIN got, status)
                        /\ ack' = [ack EXCEPT ![d] = a]
                        /\ status = "COMPLETE" => DOMAIN got = All(r.count)
             /\ \/ /\ DOMAIN got = All(r.count)
                   /\ completed' = [completed EXCEPT ![d] =
                        [src |-> r.src, dst |-> r.dst, id |-> r.id, lastDup |-> None]]
                   /\ delivered' = [delivered EXCEPT ![d] = Append(@, got)]
                   /\ rx' = [rx EXCEPT ![d] = None]
                \/ /\ rx' = [rx EXCEPT ![d] = [r EXCEPT !.got = got]]
                   /\ DOMAIN got # All(r.count)
                   /\ UNCHANGED <<completed, delivered>>
<1> DEFINE got      == Filled(r, f)
           complete == Complete(got, r.count)
<1>1. /\ heard' = [heard EXCEPT ![f.msg] = @ \cup {f.index}]
      /\ ack' = IF f.reliable
                THEN [ack EXCEPT ![d] =
                       Scheduled(@, r.src, r.id, r.count, DOMAIN got,
                                 IF complete THEN "COMPLETE" ELSE "PARTIAL")]
                ELSE ack
      /\ IF complete
         THEN /\ completed' = Remember(d, r)
              /\ delivered' = [delivered EXCEPT ![d] = Append(@, got)]
              /\ rx' = [rx EXCEPT ![d] = None]
         ELSE /\ rx' = [rx EXCEPT ![d] = [r EXCEPT !.got = got]]
              /\ UNCHANGED <<completed, delivered>>
  BY DEF Accepts, Accept, Filled
<1>2. complete <=> DOMAIN got = All(r.count)
  BY DEF Complete
<1>3. /\ r.src \in Device /\ r.id \in MsgId /\ r.count \in 1..MaxFragments /\ r.got \in Buffer
      /\ ack[d] \in Ack \cup {None} /\ ack \in [Device -> Ack \cup {None}]
  BY DEF RxContext, TypeOK
<1>4. got \in Buffer /\ DOMAIN got \in SUBSET Index
  <2>1. got \in Buffer
    BY <1>3, FilledType
  <2>. HIDE DEF got
  <2>. QED  BY <2>1 DEF Buffer
<1>. HIDE DEF got, complete
<1>5. CASE f.reliable
  <2> DEFINE status == IF complete THEN "COMPLETE" ELSE "PARTIAL"
             a == Scheduled(ack[d], r.src, r.id, r.count, DOMAIN got, status)
  <2>1. status \in Status /\ status \in {"COMPLETE", "PARTIAL"}
    BY DEF Status
  <2>2. status = "COMPLETE" => complete
    OBVIOUS
  <2>3. ack' = [ack EXCEPT ![d] = a]
    BY <1>1, <1>3, <1>5
  <2>. HIDE DEF status
  <2>4. a \in Ack /\ Says(a, r.src, r.id, r.count, DOMAIN got, status)
    BY <1>3, <1>4, <2>1, ScheduledType
  <2>. HIDE DEF a
  <2>5. \E b \in Ack, s \in {"COMPLETE", "PARTIAL"} :
          /\ Says(b, r.src, r.id, r.count, DOMAIN got, s)
          /\ ack' = [ack EXCEPT ![d] = b]
          /\ s = "COMPLETE" => DOMAIN got = All(r.count)
    BY <1>2, <2>1, <2>2, <2>3, <2>4
  <2>. QED  BY <1>1, <1>2, <1>5, <2>5 DEF Remember, got
<1>6. CASE ~f.reliable
  BY <1>1, <1>2, <1>6 DEF Remember, got
<1>. QED  BY <1>5, <1>6

LEMMA DataTypes ==
  ASSUME TypeOK, NEW d \in Device, NEW f \in DataFrame, HandleData(d, f)
  PROVE  /\ rx' \in [Device -> RxContext \cup {None}]
         /\ completed' \in [Device -> Completed \cup {None}]
         /\ ack' \in [Device -> Ack \cup {None}]
         /\ heard' \in [Message -> SUBSET Index]
         /\ delivered' \in [Device -> Seq(Buffer)]
<1>1. /\ rx \in [Device -> RxContext \cup {None}]
      /\ completed \in [Device -> Completed \cup {None}]
      /\ ack \in [Device -> Ack \cup {None}]
      /\ heard \in [Message -> SUBSET Index]
      /\ delivered \in [Device -> Seq(Buffer)]
  BY DEF TypeOK
<1>2. CASE UNCHANGED <<rx, completed, ack, heard, delivered>>
  BY <1>1, <1>2
<1>3. CASE Answers(d, f)
  <2>1. ack' \in [Device -> Ack \cup {None}]
    BY <1>1, <1>3 DEF Answers
  <2>2. f.seq \in Seq4Frame
    BY DEF DataFrame
  <2>3. CASE completed' = completed
    BY <1>1, <1>3, <2>1, <2>3 DEF Answers
  <2>4. CASE completed[d] # None /\ completed' = [completed EXCEPT ![d].lastDup = f.seq]
    <3>1. completed[d] \in Completed
      BY <1>1, <2>4
    <3>2. [completed[d] EXCEPT !.lastDup = f.seq] \in Completed
      BY <2>2, <3>1 DEF Completed
    <3>3. completed' = [completed EXCEPT ![d] = [completed[d] EXCEPT !.lastDup = f.seq]]
      BY <1>1, <2>4
    <3>. QED  BY <1>1, <1>3, <2>1, <3>2, <3>3 DEF Answers
  <2>. QED  BY <1>3, <2>3, <2>4 DEF Answers
<1>4. ASSUME NEW r \in RxContext, Accepts(d, f, r)
      PROVE  /\ rx' \in [Device -> RxContext \cup {None}]
             /\ completed' \in [Device -> Completed \cup {None}]
             /\ ack' \in [Device -> Ack \cup {None}]
             /\ heard' \in [Message -> SUBSET Index]
             /\ delivered' \in [Device -> Seq(Buffer)]
  <2> DEFINE got == Filled(r, f)
  <2>1. got \in Buffer /\ r.src \in Device /\ r.dst \in Device \cup {Broadcast} /\ r.id \in MsgId
    BY FilledType DEF RxContext
  <2>2. f.msg \in Message /\ f.index \in Index
    BY DEF DataFrame
  <2>3. /\ heard' = [heard EXCEPT ![f.msg] = @ \cup {f.index}]
        /\ ack' = ack \/ \E a \in Ack : ack' = [ack EXCEPT ![d] = a]
        /\ \/ /\ completed' = [completed EXCEPT ![d] =
                   [src |-> r.src, dst |-> r.dst, id |-> r.id, lastDup |-> None]]
              /\ delivered' = [delivered EXCEPT ![d] = Append(@, got)]
              /\ rx' = [rx EXCEPT ![d] = None]
           \/ /\ rx' = [rx EXCEPT ![d] = [r EXCEPT !.got = got]]
              /\ UNCHANGED <<completed, delivered>>
    BY <1>4, AcceptFacts
  <2>. HIDE DEF got
  <2>4. [r EXCEPT !.got = got] \in RxContext
    BY <2>1 DEF RxContext
  <2>5. [src |-> r.src, dst |-> r.dst, id |-> r.id, lastDup |-> None] \in Completed
    BY <2>1 DEF Completed
  <2>6. Append(delivered[d], got) \in Seq(Buffer)
    BY <1>1, <2>1
  <2>7. heard' \in [Message -> SUBSET Index] /\ ack' \in [Device -> Ack \cup {None}]
    BY <1>1, <2>2, <2>3
  <2>8. CASE delivered' = [delivered EXCEPT ![d] = Append(@, got)]
    <3>1. delivered' \in [Device -> Seq(Buffer)]
      BY <1>1, <2>6, <2>8
    <3>2. rx' \in [Device -> RxContext \cup {None}]
      BY <1>1, <2>3, <2>4
    <3>3. completed' \in [Device -> Completed \cup {None}]
      BY <1>1, <2>3, <2>5
    <3>. QED  BY <2>7, <3>1, <3>2, <3>3
  <2>9. CASE rx' = [rx EXCEPT ![d] = [r EXCEPT !.got = got]] /\ UNCHANGED <<completed, delivered>>
    BY <1>1, <2>4, <2>7, <2>9
  <2>. QED  BY <2>3, <2>8, <2>9
<1>. QED  BY <1>2, <1>3, <1>4, DataFacts

LEMMA ScanType == ASSUME TypeInv, NEW d \in Device, ScanPoll(d) PROVE TypeInv'
<1>1. PICK f : f = deferred[d]
  OBVIOUS
<1>2. /\ f \in Frame /\ f # None
      /\ \/ f.kind = "ACK" /\ HandleAck(d, f)
         \/ f.kind = "DATA" /\ HandleData(d, f)
      /\ deferred' = [deferred EXCEPT ![d] = None]
      /\ UNCHANGED <<nextId, queue, onAir, reboots, started, idOf>>
  BY <1>1 DEF ScanPoll, TypeInv, TypeOK
<1>3. deferred' \in [Device -> Frame \cup {None}]
  BY <1>2 DEF TypeInv, TypeOK
<1>4. CASE f.kind = "DATA" /\ HandleData(d, f)
  <2>1. f \in DataFrame
    BY <1>2, <1>4 DEF Frame, AckFrame
  <2>2. UNCHANGED <<tx, outcome>>
    BY <1>4, <2>1, DataFacts DEF TypeInv
  <2>. QED  BY <1>2, <1>3, <1>4, <2>1, <2>2, DataTypes DEF TypeInv, TypeOK, Fits
<1>5. CASE f.kind = "ACK" /\ HandleAck(d, f)
  <2>1. f \in AckFrame
    BY <1>2, <1>5 DEF Frame, DataFrame
  <2>2. tx \in [Device -> TxContext \cup {None}] /\ outcome \in Outcomes
    BY DEF TypeInv, TypeOK, Outcomes
  <2>3. /\ UNCHANGED <<rx, completed, ack, heard, delivered>>
        /\ \/ tx' = tx /\ outcome' = outcome
           \/ /\ tx[d] # None /\ tx' = [tx EXCEPT ![d] = None]
              /\ \E result \in {"ok", "failed"} :
                   outcome' = [outcome EXCEPT ![tx[d].msg] = result]
           \/ /\ tx[d] # None /\ outcome' = outcome
              /\ \E b \in TxContext :
                   /\ tx' = [tx EXCEPT ![d] = b] /\ b.msg = tx[d].msg
                   /\ b.pending \subseteq tx[d].pending
    BY <1>5, <2>1, AckFacts DEF TypeInv, Matches
  <2>4. tx' \in [Device -> TxContext \cup {None}] /\ outcome' \in Outcomes
    BY <2>2, <2>3 DEF Outcomes
  <2>5. \A e \in Device : Fits(tx'[e])
    BY <2>2, <2>3 DEF TypeInv, Fits
  <2>. QED  BY <1>2, <1>3, <2>3, <2>4, <2>5 DEF TypeInv, TypeOK, Outcomes
<1>. QED  BY <1>2, <1>4, <1>5

LEMMA InitType == Init => TypeInv
<1>1. \A d \in Device : << >> \in Seq(Buffer)
  BY EmptySeq
<1>. QED  BY <1>1, BoundAssumption DEF Init, TypeInv, TypeOK, Fits, MsgId

LEMMA TypeStep == TypeInv /\ [Next]_vars => TypeInv'
<1>. SUFFICES ASSUME TypeInv, [Next]_vars PROVE TypeInv'
  OBVIOUS
<1>1. CASE UNCHANGED vars
  BY <1>1 DEF vars, radio, upper, TypeInv, TypeOK, Fits
<1>2. ASSUME NEW d \in Device, AdvPoll(d) PROVE TypeInv'
  <2>1. onAir' \in [Device -> Frame \cup {None}] /\ queue' \in [Device -> Frame \cup {None}]
    BY <1>2 DEF AdvPoll, TypeInv, TypeOK
  <2>. QED  BY <1>2, <2>1 DEF AdvPoll, TypeInv, TypeOK, Fits, upper
<1>3. ASSUME NEW d \in Device, NEW e \in Device, OnReport(d, e) PROVE TypeInv'
  <2>1. deferred' \in [Device -> Frame \cup {None}]
    BY <1>3 DEF OnReport, TypeInv, TypeOK
  <2>. QED  BY <1>3, <2>1 DEF OnReport, TypeInv, TypeOK, Fits, upper
<1>4. ASSUME NEW d \in Device, Reboot(d) PROVE TypeInv'
  <2>1. /\ nextId' \in [Device -> MsgId] /\ reboots' \in 0..MaxReboots
    BY <1>4, BoundAssumption DEF Reboot, TypeInv, TypeOK, MsgId
  <2>2. /\ tx' \in [Device -> TxContext \cup {None}] /\ \A e \in Device : Fits(tx'[e])
    BY <1>4 DEF Reboot, TypeInv, TypeOK, Fits
  <2>3. /\ rx' \in [Device -> RxContext \cup {None}]
        /\ completed' \in [Device -> Completed \cup {None}]
        /\ ack' \in [Device -> Ack \cup {None}]
    BY <1>4 DEF Reboot, TypeInv, TypeOK
  <2>4. /\ queue' \in [Device -> Frame \cup {None}] /\ onAir' \in [Device -> Frame \cup {None}]
        /\ deferred' \in [Device -> Frame \cup {None}]
    BY <1>4 DEF Reboot, TypeInv, TypeOK
  <2>. QED  BY <1>4, <2>1, <2>2, <2>3, <2>4 DEF Reboot, TypeInv, TypeOK, upper
<1>. QED  BY <1>1, <1>2, <1>3, <1>4, PollType, StartType, ScanType DEF Next

\* Every variable keeps its type, whatever is lost, repeated or reset: among
\* others, no frame ever carries a fragment beyond those of its message.
THEOREM TypeCorrect == Spec => []TypeOK
<1>1. TypeInv => TypeOK
  BY DEF TypeInv
<1>. QED  BY <1>1, InitType, TypeStep, PTL DEF Spec

-----------------------------------------------------------------------------
(* What is in flight is true of what happened.  p is the past: what was    *)
(* accepted, heard and handed up.                                          *)

Past == [started |-> started, idOf |-> idOf, heard |-> heard, delivered |-> delivered]

Owns(p, m, src, dst, id) ==
  /\ m \in Message /\ m \in p.started
  /\ From[m] = src /\ To[m] = dst /\ p.idOf[m] = id

Handed(p, d, m) == \E k \in DOMAIN p.delivered[d] : p.delivered[d][k] = Whole(m)

\* A data frame carries a fragment of the message it names.
Genuine(p, f) ==
  /\ Owns(p, f.msg, f.src, f.dst, f.id) /\ f.index \in All(Count[f.msg])
  /\ f.count = Count[f.msg] /\ f.reliable = Reliable[f.msg]

\* What d acknowledges to another pendant, it has heard or handed up.
Truthful(p, d, to, a) ==
  \E m \in Message :
    /\ Owns(p, m, to, d, a.id) /\ a.count = Count[m] /\ a.bitmap \subseteq p.heard[m]
    /\ a.status \in Done => Handed(p, d, m)

Honest(p, f) ==
  f # None => /\ f.kind = "DATA" => Genuine(p, f)
              /\ f.kind = "ACK" => Truthful(p, f.src, f.dst, f)

\* A context only believes acknowledged what was heard.
Sending(p, d, t) ==
  /\ t.msg \in p.started /\ From[t.msg] = d /\ p.idOf[t.msg] = t.id
  /\ t.acked \subseteq p.heard[t.msg]

\* A receive context collects the fragments of one message.
Collecting(p, d, r) ==
  \E m \in Message :
    /\ Owns(p, m, r.src, r.dst, r.id) /\ r.dst \in {d, Broadcast}
    /\ r.count = Count[m] /\ r.reliable = Reliable[m]
    /\ DOMAIN r.got \subseteq p.heard[m] /\ \A i \in DOMAIN r.got : r.got[i] = m

Known(p, d, c) == \E m \in Message : Owns(p, m, c.src, c.dst, c.id) /\ Handed(p, d, m)

Local(p) ==
  \A d \in Device :
    /\ tx[d] # None => Sending(p, d, tx[d])
    /\ rx[d] # None => Collecting(p, d, rx[d])
    /\ completed[d] # None => Known(p, d, completed[d])
    /\ ack[d] # None => Truthful(p, d, ack[d].to, ack[d])
    /\ Honest(p, queue[d]) /\ Honest(p, onAir[d]) /\ Honest(p, deferred[d])

\* Success of a reliable message is only told when all of it was heard.
Told(p, o) ==
  \A m \in Message : Reliable[m] /\ o[m] = "ok" => All(Count[m]) \subseteq p.heard[m]

\* A sender's messages have different ids, and what was handed up is whole.
Coherent(p) ==
  /\ p.started \subseteq Message
  /\ \A m, n \in p.started : From[m] = From[n] /\ p.idOf[m] = p.idOf[n] => m = n
  /\ \A m \in Message : p.heard[m] \subseteq All(Count[m])
  /\ \A d \in Device : \A k \in DOMAIN p.delivered[d] :
       \E m \in p.started :
         /\ p.delivered[d][k] = Whole(m) /\ To[m] \in {d, Broadcast}
         /\ All(Count[m]) \subseteq p.heard[m]

NewIds == \A m \in started : idOf[m] < nextId[From[m]]

IInv == TypeInv /\ Coherent(Past) /\ NewIds /\ Local(Past) /\ Told(Past, outcome)

-----------------------------------------------------------------------------
(* Nothing that is in flight becomes false as more happens. *)

Grows(p, p2) ==
  \A m \in Message : m \in p.started =>
    /\ m \in p2.started /\ p2.idOf[m] = p.idOf[m] /\ p.heard[m] \subseteq p2.heard[m]
    /\ \A d \in Device : Handed(p, d, m) => Handed(p2, d, m)

LEMMA TruthfulKept ==
  ASSUME NEW p, NEW p2, Grows(p, p2), NEW d \in Device, NEW to, NEW a, Truthful(p, d, to, a)
  PROVE  Truthful(p2, d, to, a)
<1>1. PICK m \in Message :
        /\ Owns(p, m, to, d, a.id) /\ a.count = Count[m] /\ a.bitmap \subseteq p.heard[m]
        /\ a.status \in Done => Handed(p, d, m)
  BY DEF Truthful
<1>2. /\ m \in p2.started /\ p2.idOf[m] = p.idOf[m] /\ p.heard[m] \subseteq p2.heard[m]
      /\ Handed(p, d, m) => Handed(p2, d, m)
  BY <1>1 DEF Grows, Owns
<1>. QED  BY <1>1, <1>2 DEF Truthful, Owns

LEMMA HonestKept ==
  ASSUME NEW p, NEW p2, Grows(p, p2), NEW f \in Frame \cup {None}, Honest(p, f)
  PROVE  Honest(p2, f)
<1>1. CASE f = None
  BY <1>1 DEF Honest
<1>2. CASE f # None /\ f.kind = "DATA"
  <2>1. f.msg \in Message /\ Genuine(p, f)
    BY <1>2 DEF Honest, Genuine, Owns
  <2>2. Genuine(p2, f)
    BY <2>1 DEF Genuine, Owns, Grows
  <2>. QED  BY <1>2, <2>2 DEF Honest
<1>3. CASE f # None /\ f.kind = "ACK"
  <2>1. f \in AckFrame
    BY <1>2, <1>3 DEF Frame, DataFrame
  <2>2. f.src \in Device /\ Truthful(p, f.src, f.dst, f)
    BY <1>3, <2>1 DEF Honest, AckFrame
  <2>3. Truthful(p2, f.src, f.dst, f)
    BY <2>2, TruthfulKept
  <2>. QED  BY <1>3, <2>3 DEF Honest
<1>4. f = None \/ f.kind \in {"DATA", "ACK"}
  BY DEF Frame, DataFrame, AckFrame
<1>. QED  BY <1>1, <1>2, <1>3, <1>4

LEMMA SendingKept ==
  ASSUME NEW p, NEW p2, Grows(p, p2), NEW d, NEW t \in TxContext, Sending(p, d, t)
  PROVE  Sending(p2, d, t)
<1>1. t.msg \in Message
  BY DEF TxContext
<1>. QED  BY <1>1 DEF Sending, Grows

LEMMA CollectingKept ==
  ASSUME NEW p, NEW p2, Grows(p, p2), NEW d, NEW r, Collecting(p, d, r)
  PROVE  Collecting(p2, d, r)
<1>1. PICK m \in Message :
        /\ Owns(p, m, r.src, r.dst, r.id) /\ r.dst \in {d, Broadcast}
        /\ r.count = Count[m] /\ r.reliable = Reliable[m]
        /\ DOMAIN r.got \subseteq p.heard[m] /\ \A i \in DOMAIN r.got : r.got[i] = m
  BY DEF Collecting
<1>2. /\ m \in p2.started /\ p2.idOf[m] = p.idOf[m] /\ p.heard[m] \subseteq p2.heard[m]
  BY <1>1 DEF Grows, Owns
<1>. QED  BY <1>1, <1>2 DEF Collecting, Owns

LEMMA KnownKept ==
  ASSUME NEW p, NEW p2, Grows(p, p2), NEW d \in Device, NEW c, Known(p, d, c)
  PROVE  Known(p2, d, c)
<1>1. PICK m \in Message : Owns(p, m, c.src, c.dst, c.id) /\ Handed(p, d, m)
  BY DEF Known
<1>2. m \in p2.started /\ p2.idOf[m] = p.idOf[m] /\ Handed(p2, d, m)
  BY <1>1 DEF Grows, Owns
<1>. QED  BY <1>1, <1>2 DEF Known, Owns

LEMMA LocalKept ==
  ASSUME TypeOK, NEW p, NEW p2, Grows(p, p2), Local(p)
  PROVE  Local(p2)
<1>. SUFFICES ASSUME NEW d \in Device
     PROVE  /\ tx[d] # None => Sending(p2, d, tx[d])
            /\ rx[d] # None => Collecting(p2, d, rx[d])
            /\ completed[d] # None => Known(p2, d, completed[d])
            /\ ack[d] # None => Truthful(p2, d, ack[d].to, ack[d])
            /\ Honest(p2, queue[d]) /\ Honest(p2, onAir[d]) /\ Honest(p2, deferred[d])
  BY DEF Local
<1>1. /\ tx[d] # None => Sending(p, d, tx[d])
      /\ rx[d] # None => Collecting(p, d, rx[d])
      /\ completed[d] # None => Known(p, d, completed[d])
      /\ ack[d] # None => Truthful(p, d, ack[d].to, ack[d])
      /\ Honest(p, queue[d]) /\ Honest(p, onAir[d]) /\ Honest(p, deferred[d])
  BY DEF Local
<1>2. /\ tx[d] \in TxContext \cup {None}
      /\ queue[d] \in Frame \cup {None} /\ onAir[d] \in Frame \cup {None}
      /\ deferred[d] \in Frame \cup {None}
  BY DEF TypeOK
<1>3. Honest(p2, queue[d]) /\ Honest(p2, onAir[d]) /\ Honest(p2, deferred[d])
  BY <1>1, <1>2, HonestKept
<1>4. tx[d] # None => Sending(p2, d, tx[d])
  BY <1>1, <1>2, SendingKept
<1>5. rx[d] # None => Collecting(p2, d, rx[d])
  BY <1>1, CollectingKept
<1>6. completed[d] # None => Known(p2, d, completed[d])
  BY <1>1, KnownKept
<1>7. ack[d] # None => Truthful(p2, d, ack[d].to, ack[d])
  BY <1>1, TruthfulKept
<1>. QED  BY <1>3, <1>4, <1>5, <1>6, <1>7

LEMMA WholeOf ==
  ASSUME NEW m \in Message
  PROVE  /\ DOMAIN Whole(m) = All(Count[m]) /\ 0 \in DOMAIN Whole(m) /\ Whole(m)[0] = m
         /\ \A n \in Message : Whole(n) = Whole(m) => n = m
<1>1. \A n \in Message : 0 \in DOMAIN Whole(n) /\ Whole(n)[0] = n
  BY AllOf DEF Whole
<1>2. \A n \in Message : Whole(n) = Whole(m) => n = m
  BY <1>1
<1>. QED  BY <1>1, <1>2 DEF Whole

\* What was handed up had been heard.
LEMMA HandedHeard ==
  ASSUME NEW p, Coherent(p), NEW d \in Device, NEW m \in Message, Handed(p, d, m)
  PROVE  All(Count[m]) \subseteq p.heard[m]
<1>1. PICK k \in DOMAIN p.delivered[d] : p.delivered[d][k] = Whole(m)
  BY DEF Handed
<1>2. PICK n \in p.started :
        p.delivered[d][k] = Whole(n) /\ All(Count[n]) \subseteq p.heard[n] /\ n \in Message
  BY <1>1 DEF Coherent
<1>3. n = m
  BY <1>1, <1>2, WholeOf
<1>. QED  BY <1>2, <1>3

-----------------------------------------------------------------------------
(* Every step keeps it. *)

\* A timeout says what its receive context collected.
LEMMA SlotTruthful ==
  ASSUME NEW p, Local(p), NEW d \in Device, NEW slot, SlotOf(d, slot), slot # None,
         rx[d] # None => rx[d].reliable \in BOOLEAN
  PROVE  Truthful(p, d, slot.to, slot)
<1>1. CASE slot = ack[d]
  BY <1>1 DEF Local
<1>2. CASE /\ rx[d] # None /\ rx[d].reliable /\ slot \in Ack
           /\ Says(slot, rx[d].src, rx[d].id, rx[d].count, DOMAIN rx[d].got, "TIMEOUT")
  <2>1. Collecting(p, d, rx[d])
    BY <1>2 DEF Local
  <2>2. PICK m \in Message :
          /\ Owns(p, m, rx[d].src, rx[d].dst, rx[d].id) /\ rx[d].dst \in {d, Broadcast}
          /\ rx[d].count = Count[m] /\ rx[d].reliable = Reliable[m]
          /\ DOMAIN rx[d].got \subseteq p.heard[m]
    BY <2>1 DEF Collecting
  <2>3. To[m] # Broadcast
    BY <1>2, <2>2, Bounds
  <2>4. Owns(p, m, rx[d].src, d, rx[d].id)
    BY <2>2, <2>3 DEF Owns
  <2>. QED  BY <1>2, <2>2, <2>4 DEF Says, Truthful, Done
<1>. QED  BY <1>1, <1>2 DEF SlotOf

LEMMA AckFrameHonest ==
  ASSUME NEW p, NEW d, NEW a, Truthful(p, d, a.to, a)
  PROVE  Honest(p, AckFrameOf(d, a))
<1> DEFINE f == AckFrameOf(d, a)
<1>1. /\ f.kind = "ACK" /\ f.src = d /\ f.dst = a.to /\ f.id = a.id /\ f.count = a.count
      /\ f.bitmap = a.bitmap /\ f.status = a.status
  BY DEF AckFrameOf
<1>. HIDE DEF f
<1>2. Truthful(p, d, a.to, f)
  BY <1>1 DEF Truthful
<1>3. Honest(p, f)
  BY <1>1, <1>2 DEF Honest
<1>. QED  BY <1>3 DEF f

LEMMA DataFrameHonest ==
  ASSUME NEW p, NEW d, NEW t \in TxContext, Sending(p, d, t), NEW i \in All(Count[t.msg]), NEW s
  PROVE  Honest(p, DataFrameOf(d, t, i, s))
<1> DEFINE f == DataFrameOf(d, t, i, s)
<1>1. /\ f.kind = "DATA" /\ f.src = d /\ f.dst = To[t.msg] /\ f.id = t.id /\ f.index = i
      /\ f.count = Count[t.msg] /\ f.reliable = Reliable[t.msg] /\ f.msg = t.msg
  BY DEF DataFrameOf
<1>2. t.msg \in Message
  BY DEF TxContext
<1>. HIDE DEF f
<1>3. Genuine(p, f)
  BY <1>1, <1>2 DEF Genuine, Owns, Sending
<1>4. Honest(p, f)
  BY <1>1, <1>3 DEF Honest
<1>. QED  BY <1>4 DEF f

LEMMA PollHonest ==
  ASSUME TypeInv, NEW d \in Device, NEW t \in TxContext \cup {None}, NEW expired \in BOOLEAN,
         PollWith(d, t, expired), Fits(t), t = None => tx[d] = None,
         t # None /\ tx[d] = None => t.acked = {} /\ t.pending # {},
         UNCHANGED <<completed, onAir, deferred>>,
         NEW p, Local(p), Told(p, outcome), t # None => Sending(p, d, t)
  PROVE  Local(p)' /\ Told(p, outcome')
<1>1. PICK slot, a, q, t2 :
        /\ slot \in Ack \cup {None} /\ SlotOf(d, slot)
        /\ AckMoves(slot, a) /\ ack' = [ack EXCEPT ![d] = a]
        /\ QueueMoves(d, t, slot, q) /\ queue' = [queue EXCEPT ![d] = q]
        /\ TxMoves(d, t, t2, outcome') /\ tx' = [tx EXCEPT ![d] = t2]
        /\ \/ rx' = rx
           \/ rx[d] # None /\ rx' = [rx EXCEPT ![d] = None]
  BY PollFacts DEF Fits, TypeInv
<1>2. /\ ack \in [Device -> Ack \cup {None}] /\ rx \in [Device -> RxContext \cup {None}]
      /\ queue \in [Device -> Frame \cup {None}] /\ tx \in [Device -> TxContext \cup {None}]
      /\ outcome \in Outcomes
  BY DEF TypeInv, TypeOK, Outcomes
<1>3. slot # None => Truthful(p, d, slot.to, slot)
  <2>1. rx[d] # None => rx[d].reliable \in BOOLEAN
    BY <1>2 DEF RxContext
  <2>. QED  BY <1>1, <2>1, SlotTruthful
<1>4. a # None => Truthful(p, d, a.to, a)
  <2>1. CASE slot # None /\ Says(a, slot.to, slot.id, slot.count, slot.bitmap, slot.status)
    <3>1. Truthful(p, d, slot.to, slot)
      BY <1>3, <2>1
    <3>. QED  BY <2>1, <3>1 DEF Says, Truthful
  <2>. QED  BY <1>1, <1>3, <2>1 DEF AckMoves
<1>5. Honest(p, q)
  <2>1. CASE q = queue[d]
    BY <2>1 DEF Local
  <2>2. CASE slot # None /\ q = AckFrameOf(d, slot)
    BY <1>3, <2>2, AckFrameHonest
  <2>3. CASE t # None /\ \E i \in All(Count[t.msg]), s \in Seq4Frame : q = DataFrameOf(d, t, i, s)
    BY <2>3, DataFrameHonest
  <2>. QED  BY <1>1, <2>1, <2>2, <2>3 DEF QueueMoves
<1>6. (t2 # None => Sending(p, d, t2)) /\ Told(p, outcome')
  <2>1. CASE t2 = t /\ outcome' = outcome
    BY <2>1
  <2>2. CASE t # None /\ t2 = None /\ outcome' = [outcome EXCEPT ![t.msg] = "failed"]
    BY <1>2, <2>2 DEF Told, Outcomes
  <2>3. CASE /\ t # None /\ t2 = None
             /\ Reliable[t.msg] => All(Count[t.msg]) \subseteq t.acked
             /\ outcome' = [outcome EXCEPT ![t.msg] = "ok"]
    <3>1. t.acked \subseteq p.heard[t.msg]
      BY <2>3 DEF Sending
    <3>. QED  BY <1>2, <2>3, <3>1 DEF Told, Outcomes
  <2>4. CASE /\ t # None /\ outcome' = outcome
             /\ \E b \in SUBSET All(Count[t.msg]), r \in 0..MaxRetryRounds :
                  t2 = [t EXCEPT !.pending = b, !.round = r]
    <3>1. t2.msg = t.msg /\ t2.id = t.id /\ t2.acked = t.acked
      BY <2>4 DEF TxContext
    <3>. QED  BY <2>4, <3>1 DEF Sending
  <2>. QED  BY <1>1, <2>1, <2>2, <2>3, <2>4 DEF TxMoves
<1>7. ASSUME NEW e \in Device
      PROVE  /\ tx'[e] # None => Sending(p, e, tx'[e])
             /\ rx'[e] # None => Collecting(p, e, rx'[e])
             /\ completed'[e] # None => Known(p, e, completed'[e])
             /\ ack'[e] # None => Truthful(p, e, ack'[e].to, ack'[e])
             /\ Honest(p, queue'[e]) /\ Honest(p, onAir'[e]) /\ Honest(p, deferred'[e])
  <2>1. /\ tx[e] # None => Sending(p, e, tx[e])
        /\ rx[e] # None => Collecting(p, e, rx[e])
        /\ completed[e] # None => Known(p, e, completed[e])
        /\ ack[e] # None => Truthful(p, e, ack[e].to, ack[e])
        /\ Honest(p, queue[e]) /\ Honest(p, onAir[e]) /\ Honest(p, deferred[e])
    BY DEF Local
  <2>2. rx'[e] = rx[e] \/ rx'[e] = None
    BY <1>1, <1>2
  <2>3. CASE e = d
    <3>1. tx'[e] = t2 /\ ack'[e] = a /\ queue'[e] = q
      BY <1>1, <1>2, <2>3
    <3>. QED  BY <1>4, <1>5, <1>6, <2>1, <2>2, <2>3, <3>1
  <2>4. CASE e # d
    <3>1. tx'[e] = tx[e] /\ ack'[e] = ack[e] /\ queue'[e] = queue[e]
      BY <1>1, <1>2, <2>4
    <3>. QED  BY <2>1, <2>2, <3>1
  <2>. QED  BY <2>3, <2>4
<1>8. Local(p)'
  BY <1>7 DEF Local
<1>. QED  BY <1>6, <1>8

LEMMA PollSafe == ASSUME IInv, NEW d \in Device, Poll(d) PROVE IInv'
<1>1. PICK p : p = Past
  OBVIOUS
<1>2. PICK expired \in BOOLEAN : PollWith(d, tx[d], expired)
  BY DEF Poll
<1>3. UNCHANGED <<nextId, completed, onAir, deferred, reboots, started, idOf, heard, delivered>>
  BY DEF Poll
<1>4. p = Past'
  BY <1>1, <1>3 DEF Past
<1>5. Coherent(p) /\ Local(p) /\ Told(p, outcome) /\ NewIds /\ TypeInv
  BY <1>1 DEF IInv
<1>6. tx[d] \in TxContext \cup {None} /\ Fits(tx[d]) /\ (tx[d] # None => Sending(p, d, tx[d]))
  BY <1>5 DEF TypeInv, TypeOK, Local
<1>7. Local(p)' /\ Told(p, outcome')
  BY <1>2, <1>3, <1>5, <1>6, PollHonest
<1>8. NewIds'
  BY <1>3, <1>5 DEF NewIds
<1>. QED  BY <1>4, <1>5, <1>7, <1>8, PollType DEF IInv

LEMMA StartSafe ==
  ASSUME IInv, NEW d \in Device, NEW m \in Message, Start(d, m) PROVE IInv'
<1> DEFINE t == [msg |-> m, id |-> nextId[d], acked |-> {}, pending |-> All(Count[m]),
                 round |-> 0]
<1>1. PICK p, p2 : p = Past /\ p2 = Past'
  OBVIOUS
<1>2. PICK expired \in BOOLEAN : PollWith(d, t, expired)
  BY DEF Start
<1>3. /\ t \in TxContext /\ Fits(t) /\ t.acked = {} /\ t.pending # {} /\ tx[d] = None
      /\ t.msg = m /\ t.id = nextId[d]
  BY StartContext DEF IInv, TypeInv, Start
<1>4. /\ From[m] = d /\ m \notin started
      /\ started' = started \cup {m} /\ idOf' = [idOf EXCEPT ![m] = nextId[d]]
      /\ nextId' = [nextId EXCEPT ![d] = @ + 1]
      /\ UNCHANGED <<completed, onAir, deferred, reboots, heard, delivered>>
  BY DEF Start
<1>5. Coherent(p) /\ Local(p) /\ Told(p, outcome) /\ NewIds /\ TypeInv
  BY <1>1 DEF IInv
<1>6. /\ nextId \in [Device -> MsgId] /\ idOf \in [Message -> Nat] /\ started \subseteq Message
      /\ From[m] \in Device /\ \A n \in Message : From[n] \in Device
  BY <1>5, Bounds DEF TypeInv, TypeOK
<1>7. /\ p.started = started /\ p.idOf = idOf /\ p.heard = heard /\ p.delivered = delivered
      /\ p2.started = started' /\ p2.idOf = idOf' /\ p2.heard = heard /\ p2.delivered = delivered
  BY <1>1, <1>4 DEF Past
<1>8. Grows(p, p2)
  BY <1>4, <1>6, <1>7 DEF Grows, Handed
<1>. HIDE DEF t
<1>9. Local(p2) /\ Told(p2, outcome)
  BY <1>5, <1>7, <1>8, LocalKept DEF Told, TypeInv
<1>10. Sending(p2, d, t)
  BY <1>3, <1>4, <1>6, <1>7 DEF Sending
<1>11. Local(p2)' /\ Told(p2, outcome')
  BY <1>2, <1>3, <1>4, <1>5, <1>9, <1>10, PollHonest
<1>12. Coherent(p2)
  <2>1. \A n \in started : idOf[n] < nextId[From[n]] /\ idOf'[n] = idOf[n] /\ n # m
    BY <1>4, <1>5, <1>6 DEF NewIds
  <2>2. idOf'[m] = nextId[d] /\ nextId[d] \in Nat /\ \A n \in Message : idOf[n] \in Nat
    BY <1>4, <1>6 DEF MsgId
  <2>3. ASSUME NEW n \in started, From[n] = d PROVE idOf'[n] # idOf'[m]
    <3>1. idOf[n] < nextId[d] /\ idOf'[n] = idOf[n] /\ idOf[n] \in Nat
      BY <1>6, <2>1, <2>2, <2>3
    <3>. QED  BY <2>2, <3>1
  <2>4. \A n, k \in started' : From[n] = From[k] /\ idOf'[n] = idOf'[k] => n = k
    <3>1. \A n, k \in started : From[n] = From[k] /\ idOf[n] = idOf[k] => n = k
      BY <1>5, <1>7 DEF Coherent
    <3>. QED  BY <1>4, <2>1, <2>3, <3>1
  <2>5. started' \subseteq Message
    BY <1>4, <1>6
  <2>6. \A n \in Message : p2.heard[n] \subseteq All(Count[n])
    BY <1>5, <1>7 DEF Coherent
  <2>7. \A e \in Device : \A k \in DOMAIN p2.delivered[e] :
          \E n \in p2.started :
            /\ p2.delivered[e][k] = Whole(n) /\ To[n] \in {e, Broadcast}
            /\ All(Count[n]) \subseteq p2.heard[n]
    <3>1. p.started \subseteq p2.started
      BY <1>4, <1>7
    <3>2. \A e \in Device : \A k \in DOMAIN p.delivered[e] :
            \E n \in p.started :
              /\ p.delivered[e][k] = Whole(n) /\ To[n] \in {e, Broadcast}
              /\ All(Count[n]) \subseteq p.heard[n]
      BY <1>5 DEF Coherent
    <3>3. p.heard = p2.heard /\ p.delivered = p2.delivered
      BY <1>7
    <3>. QED  BY <3>1, <3>2, <3>3
  <2>8. \A n, k \in p2.started : From[n] = From[k] /\ p2.idOf[n] = p2.idOf[k] => n = k
    BY <1>7, <2>4
  <2>. QED  BY <1>7, <2>5, <2>6, <2>7, <2>8 DEF Coherent
<1>13. NewIds'
  <2>1. \A n \in started : idOf[n] < nextId[From[n]] /\ idOf'[n] = idOf[n]
    BY <1>4, <1>5, <1>6 DEF NewIds
  <2>2. \A e \in Device : nextId[e] \in Nat /\ nextId'[e] \in Nat /\ nextId[e] <= nextId'[e]
    BY <1>4, <1>6 DEF MsgId
  <2>3. idOf'[m] < nextId'[d] /\ nextId'[d] = nextId[d] + 1
    BY <1>4, <1>6 DEF MsgId
  <2>4. ASSUME NEW n \in started PROVE idOf'[n] < nextId'[From[n]]
    <3>1. /\ idOf[n] < nextId[From[n]] /\ idOf'[n] = idOf[n] /\ From[n] \in Device
          /\ idOf[n] \in Nat
      BY <1>6, <2>1
    <3>2. nextId[From[n]] <= nextId'[From[n]] /\ nextId[From[n]] \in Nat /\ nextId'[From[n]] \in Nat
      BY <2>2, <3>1
    <3>. QED  BY <3>1, <3>2
  <2>. QED  BY <1>4, <2>3, <2>4 DEF NewIds
<1>14. TypeInv'
  BY <1>5, StartType
<1>. QED  BY <1>1, <1>11, <1>12, <1>13, <1>14 DEF IInv

LEMMA AdvSafe == ASSUME IInv, NEW d \in Device, AdvPoll(d), TypeInv' PROVE IInv'
<1>1. PICK p : p = Past
  OBVIOUS
<1>2. /\ onAir' = [onAir EXCEPT ![d] = queue[d]] /\ queue' = [queue EXCEPT ![d] = None]
      /\ UNCHANGED <<nextId, tx, rx, completed, ack, deferred, started, idOf, heard, delivered,
                     outcome>>
  BY DEF AdvPoll, upper
<1>3. p = Past'
  BY <1>1, <1>2 DEF Past
<1>4. Coherent(p) /\ Local(p) /\ Told(p, outcome) /\ NewIds
  BY <1>1 DEF IInv
<1>5. Honest(p, None)
  BY DEF Honest
<1>6. queue \in [Device -> Frame \cup {None}] /\ onAir \in [Device -> Frame \cup {None}]
  BY DEF IInv, TypeInv, TypeOK
<1>7. \A e \in Device : Honest(p, queue[e]) /\ Honest(p, onAir[e])
  BY <1>4 DEF Local
<1>8. \A e \in Device : Honest(p, queue'[e]) /\ Honest(p, onAir'[e])
  BY <1>2, <1>5, <1>6, <1>7
<1>9. Local(p)'
  BY <1>2, <1>4, <1>8 DEF Local
<1>10. NewIds' /\ Told(p, outcome')
  BY <1>2, <1>4 DEF NewIds
<1>. QED  BY <1>3, <1>4, <1>9, <1>10 DEF IInv

LEMMA ReportSafe ==
  ASSUME IInv, NEW d \in Device, NEW e \in Device, OnReport(d, e), TypeInv' PROVE IInv'
<1>1. PICK p : p = Past
  OBVIOUS
<1>2. /\ deferred' = [deferred EXCEPT ![d] = onAir[e]]
      /\ UNCHANGED <<nextId, tx, rx, completed, ack, queue, onAir, started, idOf, heard,
                     delivered, outcome>>
  BY DEF OnReport, upper
<1>3. p = Past'
  BY <1>1, <1>2 DEF Past
<1>4. Coherent(p) /\ Local(p) /\ Told(p, outcome) /\ NewIds
  BY <1>1 DEF IInv
<1>5. deferred \in [Device -> Frame \cup {None}]
  BY DEF IInv, TypeInv, TypeOK
<1>6. \A c \in Device : Honest(p, deferred'[c])
  BY <1>2, <1>4, <1>5 DEF Local
<1>7. Local(p)'
  BY <1>2, <1>4, <1>6 DEF Local
<1>8. NewIds' /\ Told(p, outcome')
  BY <1>2, <1>4 DEF NewIds
<1>. QED  BY <1>3, <1>4, <1>7, <1>8 DEF IInv

\* A pendant that sends nothing may reset at any time.
LEMMA RebootSafe ==
  ASSUME IInv, NEW d \in Device, Reboot(d), TypeInv', \A m \in Message : From[m] # d
  PROVE  IInv'
<1>1. PICK p : p = Past
  OBVIOUS
<1>2. /\ nextId' = [nextId EXCEPT ![d] = 1]
      /\ tx' = [tx EXCEPT ![d] = None] /\ rx' = [rx EXCEPT ![d] = None]
      /\ completed' = [completed EXCEPT ![d] = None] /\ ack' = [ack EXCEPT ![d] = None]
      /\ queue' = [queue EXCEPT ![d] = None] /\ onAir' = [onAir EXCEPT ![d] = None]
      /\ deferred' = [deferred EXCEPT ![d] = None]
      /\ UNCHANGED <<started, idOf, heard, delivered, outcome>>
  BY DEF Reboot, upper
<1>3. p = Past'
  BY <1>1, <1>2 DEF Past
<1>4. Coherent(p) /\ Local(p) /\ Told(p, outcome) /\ NewIds /\ TypeOK
  BY <1>1 DEF IInv, TypeInv
<1>5. Honest(p, None)
  BY DEF Honest
<1>6. ASSUME NEW e \in Device
      PROVE  /\ tx'[e] # None => Sending(p, e, tx'[e])
             /\ rx'[e] # None => Collecting(p, e, rx'[e])
             /\ completed'[e] # None => Known(p, e, completed'[e])
             /\ ack'[e] # None => Truthful(p, e, ack'[e].to, ack'[e])
             /\ Honest(p, queue'[e]) /\ Honest(p, onAir'[e]) /\ Honest(p, deferred'[e])
  <2>1. CASE e = d
    <3>1. /\ tx'[e] = None /\ rx'[e] = None /\ completed'[e] = None /\ ack'[e] = None
          /\ queue'[e] = None /\ onAir'[e] = None /\ deferred'[e] = None
      BY <1>2, <1>4, <2>1 DEF TypeOK
    <3>. QED  BY <1>5, <3>1
  <2>2. CASE e # d
    <3>1. /\ tx'[e] = tx[e] /\ rx'[e] = rx[e] /\ completed'[e] = completed[e] /\ ack'[e] = ack[e]
          /\ queue'[e] = queue[e] /\ onAir'[e] = onAir[e] /\ deferred'[e] = deferred[e]
      BY <1>2, <1>4, <2>2 DEF TypeOK
    <3>. QED  BY <1>4, <3>1 DEF Local
  <2>. QED  BY <2>1, <2>2
<1>7. Local(p)'
  BY <1>6 DEF Local
<1>8. NewIds'
  <2>1. \A m \in started : From[m] \in Device /\ From[m] # d /\ idOf[m] < nextId[From[m]]
    BY <1>4, Bounds DEF NewIds, TypeOK
  <2>2. nextId \in [Device -> MsgId]
    BY <1>4 DEF TypeOK
  <2>. QED  BY <1>2, <2>1, <2>2 DEF NewIds
<1>9. Told(p, outcome')
  BY <1>2, <1>4
<1>. QED  BY <1>3, <1>4, <1>7, <1>8, <1>9 DEF IInv

\* An acknowledgement that is heeded is about the message being sent.
LEMMA AckSafe ==
  ASSUME TypeOK, NEW d \in Device, NEW f \in AckFrame, f # None, HandleAck(d, f),
         NEW p, Coherent(p), Local(p), Told(p, outcome), Honest(p, f)
  PROVE  /\ UNCHANGED <<rx, completed, ack, heard, delivered>>
         /\ \A e \in Device : tx'[e] # None => Sending(p, e, tx'[e])
         /\ Told(p, outcome')
<1>1. /\ UNCHANGED <<rx, completed, ack, heard, delivered>>
      /\ \/ tx' = tx /\ outcome' = outcome
         \/ /\ Matches(d, f) /\ tx' = [tx EXCEPT ![d] = None]
            /\ \E result \in {"ok", "failed"} :
                 /\ result = "ok" => f.status \in Done
                 /\ outcome' = [outcome EXCEPT ![tx[d].msg] = result]
         \/ /\ Matches(d, f) /\ outcome' = outcome
            /\ \E b \in TxContext :
                 /\ tx' = [tx EXCEPT ![d] = b] /\ b.msg = tx[d].msg /\ b.id = tx[d].id
                 /\ b.acked \subseteq tx[d].acked \cup f.bitmap
                 /\ b.pending \subseteq tx[d].pending
  BY AckFacts
<1>2. tx \in [Device -> TxContext \cup {None}] /\ outcome \in Outcomes
  BY DEF TypeOK, Outcomes
<1>3. \A e \in Device : tx[e] # None => Sending(p, e, tx[e])
  BY DEF Local
<1>4. ASSUME Matches(d, f)
      PROVE  /\ tx[d].msg \in Message /\ f.bitmap \subseteq p.heard[tx[d].msg]
             /\ f.status \in Done => All(Count[tx[d].msg]) \subseteq p.heard[tx[d].msg]
  <2>1. f.kind = "ACK" /\ f.src \in Device /\ f # None
    BY DEF AckFrame
  <2>2. Truthful(p, f.src, f.dst, f)
    BY <2>1 DEF Honest
  <2>3. PICK m \in Message :
          /\ Owns(p, m, f.dst, f.src, f.id) /\ f.bitmap \subseteq p.heard[m]
          /\ f.status \in Done => Handed(p, f.src, m)
    BY <2>2 DEF Truthful
  <2>4. /\ f.dst = d /\ tx[d] # None /\ tx[d].id = f.id /\ tx[d] \in TxContext
        /\ Sending(p, d, tx[d])
    BY <1>2, <1>3, <1>4 DEF Matches
  <2>5. tx[d].msg = m
    BY <2>3, <2>4 DEF Coherent, Owns, Sending
  <2>6. f.status \in Done => All(Count[m]) \subseteq p.heard[m]
    BY <2>1, <2>3, HandedHeard
  <2>. QED  BY <2>3, <2>5, <2>6
<1>5. CASE tx' = tx /\ outcome' = outcome
  BY <1>1, <1>3, <1>5
<1>6. CASE /\ Matches(d, f) /\ tx' = [tx EXCEPT ![d] = None]
           /\ \E result \in {"ok", "failed"} :
                /\ result = "ok" => f.status \in Done
                /\ outcome' = [outcome EXCEPT ![tx[d].msg] = result]
  <2>1. \A e \in Device : tx'[e] # None => Sending(p, e, tx'[e])
    BY <1>2, <1>3, <1>6
  <2>2. Told(p, outcome')
    BY <1>2, <1>4, <1>6 DEF Told, Outcomes
  <2>. QED  BY <1>1, <2>1, <2>2
<1>7. CASE /\ Matches(d, f) /\ outcome' = outcome
           /\ \E b \in TxContext :
                /\ tx' = [tx EXCEPT ![d] = b] /\ b.msg = tx[d].msg /\ b.id = tx[d].id
                /\ b.acked \subseteq tx[d].acked \cup f.bitmap
                /\ b.pending \subseteq tx[d].pending
  <2>1. PICK b \in TxContext :
          /\ tx' = [tx EXCEPT ![d] = b] /\ b.msg = tx[d].msg /\ b.id = tx[d].id
          /\ b.acked \subseteq tx[d].acked \cup f.bitmap
    BY <1>7
  <2>2. tx[d] # None /\ Sending(p, d, tx[d])
    BY <1>3, <1>7 DEF Matches
  <2>3. Sending(p, d, b)
    BY <1>4, <1>7, <2>1, <2>2 DEF Sending
  <2>4. \A e \in Device : tx'[e] # None => Sending(p, e, tx'[e])
    BY <1>2, <1>3, <2>1, <2>3
  <2>. QED  BY <1>1, <1>7, <2>4
<1>. QED  BY <1>1, <1>5, <1>6, <1>7

\* A repeated or refused fragment is answered with what happened.
LEMMA AnswersSafe ==
  ASSUME TypeOK, NEW d \in Device, NEW f \in DataFrame, Answers(d, f),
         NEW p, Coherent(p), Local(p), Genuine(p, f)
  PROVE  /\ UNCHANGED <<rx, heard, delivered>>
         /\ \A e \in Device : completed'[e] # None => Known(p, e, completed'[e])
         /\ \A e \in Device : ack'[e] # None => Truthful(p, e, ack'[e].to, ack'[e])
<1>1. /\ f.reliable /\ f.dst \in {d, Broadcast} /\ UNCHANGED <<rx, heard, delivered>>
      /\ \E a \in Ack, bitmap \in SUBSET Index, status \in Status :
           /\ Says(a, f.src, f.id, f.count, bitmap, status) /\ ack' = [ack EXCEPT ![d] = a]
           /\ \/ /\ status = "DUP_COMPLETE" /\ bitmap = All(f.count)
                 /\ completed[d] # None /\ SameMessage(completed[d], f)
                 /\ completed' = [completed EXCEPT ![d].lastDup = f.seq]
              \/ /\ status \in {"BUSY", "REJECTED", "PARTIAL"} /\ completed' = completed
                 /\ \/ bitmap = {}
                    \/ rx[d] # None /\ SameMessage(rx[d], f) /\ bitmap = DOMAIN rx[d].got
  BY DEF Answers
<1>2. PICK a \in Ack, bitmap \in SUBSET Index, status \in Status :
        /\ Says(a, f.src, f.id, f.count, bitmap, status) /\ ack' = [ack EXCEPT ![d] = a]
        /\ \/ /\ status = "DUP_COMPLETE" /\ bitmap = All(f.count)
              /\ completed[d] # None /\ SameMessage(completed[d], f)
              /\ completed' = [completed EXCEPT ![d].lastDup = f.seq]
           \/ /\ status \in {"BUSY", "REJECTED", "PARTIAL"} /\ completed' = completed
              /\ \/ bitmap = {}
                 \/ rx[d] # None /\ SameMessage(rx[d], f) /\ bitmap = DOMAIN rx[d].got
  BY <1>1
<1>3. PICK m : m = f.msg
  OBVIOUS
<1>4. /\ m \in Message /\ m \in p.started /\ From[m] = f.src /\ To[m] = f.dst
      /\ p.idOf[m] = f.id /\ f.count = Count[m] /\ f.reliable = Reliable[m]
  BY <1>3 DEF Genuine, Owns
<1>5. To[m] = d /\ f.dst = d
  BY <1>1, <1>4, Bounds
<1>6. /\ completed \in [Device -> Completed \cup {None}] /\ ack \in [Device -> Ack \cup {None}]
      /\ f.seq \in Seq4Frame
  BY DEF TypeOK, DataFrame
<1>7. ASSUME NEW n \in Message, Owns(p, n, f.src, f.dst, f.id) PROVE n = m
  BY <1>4, <1>7 DEF Owns, Coherent
<1>8. CASE /\ status = "DUP_COMPLETE" /\ bitmap = All(f.count)
           /\ completed[d] # None /\ SameMessage(completed[d], f)
           /\ completed' = [completed EXCEPT ![d].lastDup = f.seq]
  <2>1. Known(p, d, completed[d])
    BY <1>8 DEF Local
  <2>2. PICK n \in Message : Owns(p, n, completed[d].src, completed[d].dst, completed[d].id) /\ Handed(p, d, n)
    BY <2>1 DEF Known
  <2>3. n = m /\ Handed(p, d, m) /\ Owns(p, m, completed[d].src, completed[d].dst, completed[d].id)
    BY <1>7, <1>8, <2>2 DEF SameMessage
  <2>4. bitmap \subseteq p.heard[m]
    BY <1>4, <1>8, <2>3, HandedHeard
  <2>5. Truthful(p, d, a.to, a)
    BY <1>2, <1>4, <1>5, <2>3, <2>4 DEF Truthful, Says, Owns
  <2>6. /\ completed[d] \in Completed
        /\ completed'[d] = [completed[d] EXCEPT !.lastDup = f.seq]
        /\ \A e \in Device : e # d => completed'[e] = completed[e]
    BY <1>6, <1>8
  <2>7. /\ completed'[d].src = completed[d].src /\ completed'[d].dst = completed[d].dst
        /\ completed'[d].id = completed[d].id
    BY <2>6 DEF Completed
  <2>8. Known(p, d, completed'[d])
    BY <2>3, <2>7 DEF Known
  <2>9. \A e \in Device : completed'[e] # None => Known(p, e, completed'[e])
    BY <2>6, <2>8 DEF Local
  <2>10. \A e \in Device : ack'[e] # None => Truthful(p, e, ack'[e].to, ack'[e])
    BY <1>2, <1>6, <2>5 DEF Local
  <2>. QED  BY <1>1, <2>9, <2>10
<1>9. CASE /\ status \in {"BUSY", "REJECTED", "PARTIAL"} /\ completed' = completed
           /\ \/ bitmap = {}
              \/ rx[d] # None /\ SameMessage(rx[d], f) /\ bitmap = DOMAIN rx[d].got
  <2>1. bitmap \subseteq p.heard[m]
    <3>1. CASE rx[d] # None /\ SameMessage(rx[d], f) /\ bitmap = DOMAIN rx[d].got
      <4>1. Collecting(p, d, rx[d])
        BY <3>1 DEF Local
      <4>2. PICK n \in Message :
              Owns(p, n, rx[d].src, rx[d].dst, rx[d].id) /\ DOMAIN rx[d].got \subseteq p.heard[n]
        BY <4>1 DEF Collecting
      <4>3. n = m
        BY <1>7, <3>1, <4>2 DEF SameMessage
      <4>. QED  BY <3>1, <4>2, <4>3
    <3>. QED  BY <1>9, <3>1
  <2>2. Truthful(p, d, a.to, a)
    BY <1>2, <1>4, <1>5, <1>9, <2>1 DEF Truthful, Says, Owns, Done
  <2>3. \A e \in Device : ack'[e] # None => Truthful(p, e, ack'[e].to, ack'[e])
    BY <1>2, <1>6, <2>2 DEF Local
  <2>. QED  BY <1>1, <1>9, <2>3 DEF Local
<1>. QED  BY <1>2, <1>8, <1>9

\* The context a fragment is accepted in collects that fragment's message.
LEMMA AcceptedOf ==
  ASSUME NEW d \in Device, NEW f \in DataFrame, NEW r, Accepts(d, f, r),
         NEW p, Coherent(p), Local(p), Genuine(p, f)
  PROVE  /\ f.msg \in Message /\ Owns(p, f.msg, r.src, r.dst, r.id) /\ r.dst \in {d, Broadcast}
         /\ r.count = Count[f.msg] /\ r.reliable = Reliable[f.msg]
         /\ DOMAIN r.got \subseteq p.heard[f.msg] /\ \A i \in DOMAIN r.got : r.got[i] = f.msg
<1>1. PICK m : m = f.msg
  OBVIOUS
<1>2. /\ m \in Message /\ m \in p.started /\ From[m] = f.src /\ To[m] = f.dst
      /\ p.idOf[m] = f.id /\ f.count = Count[m] /\ f.reliable = Reliable[m]
  BY <1>1 DEF Genuine, Owns
<1>3. /\ SameMessage(r, f) /\ r.count = f.count /\ r.reliable = f.reliable
      /\ f.dst \in {d, Broadcast}
      /\ (rx[d] = None /\ r = Fresh(f)) \/ (rx[d] # None /\ r = rx[d])
  BY DEF Accepts
<1>4. Owns(p, m, r.src, r.dst, r.id) /\ r.dst \in {d, Broadcast}
  BY <1>2, <1>3 DEF SameMessage, Owns
<1>5. CASE rx[d] = None /\ r = Fresh(f)
  <2>1. r.got = << >>
    BY <1>5 DEF Fresh
  <2>2. DOMAIN r.got = {}
    BY <2>1, NothingGot
  <2>3. \A i \in {} : r.got[i] = m
    OBVIOUS
  <2>4. \A i \in DOMAIN r.got : r.got[i] = m
    BY <2>2, <2>3
  <2>. QED  BY <1>1, <1>2, <1>3, <1>4, <2>2, <2>4
<1>6. CASE rx[d] # None /\ r = rx[d]
  <2>1. Collecting(p, d, r)
    BY <1>6 DEF Local
  <2>2. PICK n \in Message :
          /\ Owns(p, n, r.src, r.dst, r.id)
          /\ DOMAIN r.got \subseteq p.heard[n] /\ \A i \in DOMAIN r.got : r.got[i] = n
    BY <2>1 DEF Collecting
  <2>3. n = m
    BY <1>4, <2>2 DEF Owns, Coherent
  <2>. QED  BY <1>1, <1>2, <1>3, <1>4, <2>2, <2>3
<1>. QED  BY <1>3, <1>5, <1>6

\* A buffer that is handed up keeps those handed up before it.
LEMMA AppendFacts ==
  ASSUME NEW g \in Seq(Buffer), NEW b \in Buffer
  PROVE  /\ DOMAIN Append(g, b) = DOMAIN g \cup {Len(g) + 1}
         /\ \A k \in DOMAIN g : Append(g, b)[k] = g[k]
         /\ Append(g, b)[Len(g) + 1] = b /\ Len(g) + 1 \notin DOMAIN g
BY AppendProperties, LenProperties

LEMMA AcceptSafe ==
  ASSUME TypeOK, NEW d \in Device, NEW f \in DataFrame, NEW r \in RxContext, Accepts(d, f, r),
         UNCHANGED <<started, idOf>>,
         NEW p, NEW p2, p = Past, p2 = Past', Coherent(p), Local(p), Genuine(p, f)
  PROVE  /\ Grows(p, p2) /\ Coherent(p2)
         /\ \A e \in Device : rx'[e] # None => Collecting(p2, e, rx'[e])
         /\ \A e \in Device : completed'[e] # None => Known(p2, e, completed'[e])
         /\ \A e \in Device : ack'[e] # None => Truthful(p2, e, ack'[e].to, ack'[e])
<1> DEFINE got == Filled(r, f)
<1>1. PICK m \in Message : m = f.msg
  BY DEF DataFrame
<1>2. /\ Owns(p, m, r.src, r.dst, r.id) /\ r.dst \in {d, Broadcast}
      /\ r.count = Count[m] /\ r.reliable = Reliable[m]
      /\ DOMAIN r.got \subseteq p.heard[m] /\ \A i \in DOMAIN r.got : r.got[i] = m
  BY <1>1, AcceptedOf
<1>3. /\ got \in Buffer /\ DOMAIN got = DOMAIN r.got \cup {f.index} /\ got[f.index] = m
      /\ \A i \in DOMAIN r.got : i # f.index => got[i] = r.got[i]
  <2>1. r.got \in Buffer
    BY DEF RxContext
  <2>. QED  BY <1>1, <2>1, FilledType
<1>4. f.index \in All(Count[m]) /\ f.reliable = Reliable[m]
  BY <1>1 DEF Genuine
<1>5. /\ heard' = [heard EXCEPT ![m] = @ \cup {f.index}]
      /\ \/ ack' = ack
         \/ /\ f.reliable
            /\ \E a \in Ack, status \in {"COMPLETE", "PARTIAL"} :
                 /\ Says(a, r.src, r.id, r.count, DOMAIN got, status)
                 /\ ack' = [ack EXCEPT ![d] = a]
                 /\ status = "COMPLETE" => DOMAIN got = All(r.count)
      /\ \/ /\ DOMAIN got = All(r.count)
            /\ completed' = [completed EXCEPT ![d] =
                 [src |-> r.src, dst |-> r.dst, id |-> r.id, lastDup |-> None]]
            /\ delivered' = [delivered EXCEPT ![d] = Append(@, got)]
            /\ rx' = [rx EXCEPT ![d] = None]
         \/ /\ rx' = [rx EXCEPT ![d] = [r EXCEPT !.got = got]]
            /\ DOMAIN got # All(r.count)
            /\ UNCHANGED <<completed, delivered>>
  BY <1>1, AcceptFacts
<1>. HIDE DEF got
<1>6. \A i \in DOMAIN got : got[i] = m
  BY <1>2, <1>3
<1>7. /\ p.started = started /\ p.idOf = idOf /\ p.heard = heard /\ p.delivered = delivered
      /\ p2.started = started /\ p2.idOf = idOf /\ p2.heard = heard' /\ p2.delivered = delivered'
  BY DEF Past
<1>8. /\ heard \in [Message -> SUBSET Index] /\ delivered \in [Device -> Seq(Buffer)]
      /\ rx \in [Device -> RxContext \cup {None}]
      /\ completed \in [Device -> Completed \cup {None}]
      /\ ack \in [Device -> Ack \cup {None}]
  BY DEF TypeOK
<1>9. /\ \A n \in Message : p.heard[n] \subseteq p2.heard[n]
      /\ DOMAIN got \subseteq p2.heard[m]
  BY <1>2, <1>3, <1>5, <1>7, <1>8
<1>10. \A n \in Message : p2.heard[n] \subseteq All(Count[n])
  BY <1>4, <1>5, <1>7, <1>8 DEF Coherent
<1>11. DOMAIN got = All(r.count) => got = Whole(m)
  <2>1. PICK s \in SUBSET Index : got \in [s -> Message]
    BY <1>3 DEF Buffer
  <2>2. ASSUME DOMAIN got = All(r.count) PROVE got = [i \in All(Count[m]) |-> m]
    BY <1>2, <1>6, <2>1, <2>2
  <2>. QED  BY <2>2 DEF Whole
<1>12. /\ \A e \in Device : \A k \in DOMAIN p.delivered[e] :
            k \in DOMAIN p2.delivered[e] /\ p2.delivered[e][k] = p.delivered[e][k]
       /\ \A e \in Device : \A k \in DOMAIN p2.delivered[e] :
            \/ k \in DOMAIN p.delivered[e] /\ p2.delivered[e][k] = p.delivered[e][k]
            \/ e = d /\ p2.delivered[e][k] = got /\ DOMAIN got = All(r.count)
       /\ DOMAIN got = All(r.count) =>
            \E k \in DOMAIN p2.delivered[d] : p2.delivered[d][k] = got
  <2>1. CASE DOMAIN got = All(r.count) /\ delivered' = [delivered EXCEPT ![d] = Append(@, got)]
    <3>1. /\ delivered'[d] = Append(delivered[d], got)
          /\ \A e \in Device : e # d => delivered'[e] = delivered[e]
      BY <1>8, <2>1
    <3>2. /\ DOMAIN delivered'[d] = DOMAIN delivered[d] \cup {Len(delivered[d]) + 1}
          /\ \A k \in DOMAIN delivered[d] : delivered'[d][k] = delivered[d][k]
          /\ delivered'[d][Len(delivered[d]) + 1] = got
      BY <1>3, <1>8, <3>1, AppendFacts
    <3>. QED  BY <1>7, <2>1, <3>1, <3>2
  <2>2. CASE DOMAIN got # All(r.count) /\ delivered' = delivered
    BY <1>7, <2>2
  <2>. QED  BY <1>5, <2>1, <2>2
<1>13. Grows(p, p2)
  <2>1. \A n \in Message : \A e \in Device : Handed(p, e, n) => Handed(p2, e, n)
    BY <1>12 DEF Handed
  <2>. QED  BY <1>7, <1>9, <2>1 DEF Grows
<1>14. DOMAIN got = All(r.count) => Handed(p2, d, m) /\ All(Count[m]) \subseteq p2.heard[m]
  BY <1>2, <1>9, <1>11, <1>12 DEF Handed
<1>15. Coherent(p2)
  <2>1. ASSUME NEW e \in Device, NEW k \in DOMAIN p2.delivered[e]
        PROVE  \E n \in p2.started :
                 /\ p2.delivered[e][k] = Whole(n) /\ To[n] \in {e, Broadcast}
                 /\ All(Count[n]) \subseteq p2.heard[n]
    <3>1. CASE k \in DOMAIN p.delivered[e] /\ p2.delivered[e][k] = p.delivered[e][k]
      <4>1. PICK n \in p.started :
              /\ p.delivered[e][k] = Whole(n) /\ To[n] \in {e, Broadcast}
              /\ All(Count[n]) \subseteq p.heard[n] /\ n \in Message
        BY <3>1 DEF Coherent
      <4>. QED  BY <1>7, <1>9, <3>1, <4>1
    <3>2. CASE e = d /\ p2.delivered[e][k] = got /\ DOMAIN got = All(r.count)
      <4>1. To[m] \in {d, Broadcast} /\ m \in p2.started
        BY <1>2, <1>7 DEF Owns
      <4>. QED  BY <1>11, <1>14, <3>2, <4>1
    <3>. QED  BY <1>12, <3>1, <3>2
  <2>2. p2.started \subseteq Message
    BY <1>7 DEF Coherent
  <2>3. \A n, k \in p2.started : From[n] = From[k] /\ p2.idOf[n] = p2.idOf[k] => n = k
    BY <1>7 DEF Coherent
  <2>. QED  BY <1>10, <2>1, <2>2, <2>3 DEF Coherent
<1>16. Local(p2)
  BY <1>13, LocalKept
<1>17. Owns(p2, m, r.src, r.dst, r.id)
  BY <1>2, <1>7 DEF Owns
<1>18. \A e \in Device : rx'[e] # None => Collecting(p2, e, rx'[e])
  <2>1. CASE rx' = [rx EXCEPT ![d] = None]
    BY <1>8, <1>16, <2>1 DEF Local
  <2>2. CASE rx' = [rx EXCEPT ![d] = [r EXCEPT !.got = got]]
    <3> DEFINE r2 == [r EXCEPT !.got = got]
    <3>1. /\ r2.src = r.src /\ r2.dst = r.dst /\ r2.id = r.id /\ r2.count = r.count
          /\ r2.reliable = r.reliable /\ r2.got = got
      BY DEF RxContext
    <3>2. rx' = [rx EXCEPT ![d] = r2]
      BY <2>2
    <3>. HIDE DEF r2
    <3>3. Collecting(p2, d, r2)
      BY <1>2, <1>6, <1>9, <1>17, <3>1 DEF Collecting
    <3>. QED  BY <1>8, <1>16, <3>2, <3>3 DEF Local
  <2>. QED  BY <1>5, <2>1, <2>2
<1>19. \A e \in Device : completed'[e] # None => Known(p2, e, completed'[e])
  <2>1. CASE completed' = completed
    BY <1>16, <2>1 DEF Local
  <2>2. CASE DOMAIN got = All(r.count) /\ completed' = [completed EXCEPT ![d] =
               [src |-> r.src, dst |-> r.dst, id |-> r.id, lastDup |-> None]]
    <3> DEFINE c == [src |-> r.src, dst |-> r.dst, id |-> r.id, lastDup |-> None]
    <3>1. c.src = r.src /\ c.dst = r.dst /\ c.id = r.id /\ completed' = [completed EXCEPT ![d] = c]
      BY <2>2
    <3>. HIDE DEF c
    <3>2. Known(p2, d, c)
      BY <1>14, <1>17, <2>2, <3>1 DEF Known
    <3>. QED  BY <1>8, <1>16, <3>1, <3>2 DEF Local
  <2>. QED  BY <1>5, <2>1, <2>2
<1>20. \A e \in Device : ack'[e] # None => Truthful(p2, e, ack'[e].to, ack'[e])
  <2>1. CASE ack' = ack
    BY <1>16, <2>1 DEF Local
  <2>2. CASE /\ f.reliable
             /\ \E a \in Ack, status \in {"COMPLETE", "PARTIAL"} :
                  /\ Says(a, r.src, r.id, r.count, DOMAIN got, status)
                  /\ ack' = [ack EXCEPT ![d] = a]
                  /\ status = "COMPLETE" => DOMAIN got = All(r.count)
    <3>1. PICK a \in Ack, status \in {"COMPLETE", "PARTIAL"} :
            /\ Says(a, r.src, r.id, r.count, DOMAIN got, status)
            /\ ack' = [ack EXCEPT ![d] = a]
            /\ status = "COMPLETE" => DOMAIN got = All(r.count)
      BY <2>2
    <3>2. Owns(p2, m, r.src, d, r.id)
      <4>1. To[m] # Broadcast
        BY <1>4, <2>2, Bounds
      <4>. QED  BY <1>2, <1>17, <4>1 DEF Owns
    <3>3. Truthful(p2, d, a.to, a)
      BY <1>2, <1>9, <1>14, <3>1, <3>2 DEF Truthful, Says, Done
    <3>. QED  BY <1>8, <1>16, <3>1, <3>3 DEF Local
  <2>. QED  BY <1>5, <2>1, <2>2
<1>. QED  BY <1>13, <1>15, <1>18, <1>19, <1>20

LEMMA ScanSafe == ASSUME IInv, NEW d \in Device, ScanPoll(d) PROVE IInv'
<1>1. PICK p, p2, f : p = Past /\ p2 = Past' /\ f = deferred[d]
  OBVIOUS
<1>2. /\ f \in Frame /\ f # None
      /\ \/ f.kind = "ACK" /\ HandleAck(d, f)
         \/ f.kind = "DATA" /\ HandleData(d, f)
      /\ deferred' = [deferred EXCEPT ![d] = None]
      /\ UNCHANGED <<nextId, queue, onAir, reboots, started, idOf>>
  BY <1>1 DEF ScanPoll, IInv, TypeInv, TypeOK
<1>3. Coherent(p) /\ Local(p) /\ Told(p, outcome) /\ NewIds /\ TypeInv /\ TypeOK
  BY <1>1 DEF IInv, TypeInv
<1>4. Honest(p, f)
  BY <1>1, <1>3 DEF Local
<1>5. NewIds' /\ TypeInv'
  BY <1>2, <1>3, ScanType DEF NewIds
<1>6. \A e \in Device : deferred'[e] = deferred[e] \/ deferred'[e] = None
  BY <1>2, <1>3 DEF TypeOK
<1>7. ASSUME UNCHANGED <<heard, delivered>> PROVE p2 = p
  BY <1>1, <1>2, <1>7 DEF Past
<1>8. ASSUME Local(p2),
             \A e \in Device : tx'[e] # None => Sending(p2, e, tx'[e]),
             \A e \in Device : rx'[e] # None => Collecting(p2, e, rx'[e]),
             \A e \in Device : completed'[e] # None => Known(p2, e, completed'[e]),
             \A e \in Device : ack'[e] # None => Truthful(p2, e, ack'[e].to, ack'[e])
      PROVE  Local(p2)'
  <2>1. \A e \in Device : Honest(p2, deferred'[e])
    BY <1>6, <1>8 DEF Local, Honest
  <2>. QED  BY <1>2, <1>8, <2>1 DEF Local
<1>9. CASE f.kind = "ACK" /\ HandleAck(d, f)
  <2>1. f \in AckFrame
    BY <1>2, <1>9 DEF Frame, DataFrame
  <2>2. /\ UNCHANGED <<rx, completed, ack, heard, delivered>>
        /\ \A e \in Device : tx'[e] # None => Sending(p, e, tx'[e])
        /\ Told(p, outcome')
    BY <1>2, <1>3, <1>4, <1>9, <2>1, AckSafe
  <2>3. p2 = p
    BY <1>7, <2>2
  <2>4. Local(p2)'
    BY <1>3, <1>8, <2>2, <2>3 DEF Local
  <2>. QED  BY <1>1, <1>3, <1>5, <2>2, <2>3, <2>4 DEF IInv
<1>10. CASE f.kind = "DATA" /\ HandleData(d, f)
  <2>1. f \in DataFrame /\ Genuine(p, f)
    BY <1>2, <1>4, <1>10 DEF Frame, AckFrame, Honest
  <2>2. /\ UNCHANGED <<tx, outcome>>
        /\ \/ UNCHANGED <<rx, completed, ack, heard, delivered>>
           \/ Answers(d, f)
           \/ \E r \in RxContext : Accepts(d, f, r)
    BY <1>3, <1>10, <2>1, DataFacts
  <2>3. CASE UNCHANGED <<rx, completed, ack, heard, delivered>>
    <3>1. p2 = p
      BY <1>7, <2>3
    <3>2. Local(p2)'
      BY <1>3, <1>8, <2>2, <2>3, <3>1 DEF Local
    <3>. QED  BY <1>1, <1>3, <1>5, <2>2, <3>1, <3>2 DEF IInv
  <2>4. CASE Answers(d, f)
    <3>1. /\ UNCHANGED <<rx, heard, delivered>>
          /\ \A e \in Device : completed'[e] # None => Known(p, e, completed'[e])
          /\ \A e \in Device : ack'[e] # None => Truthful(p, e, ack'[e].to, ack'[e])
      BY <1>3, <2>1, <2>4, AnswersSafe
    <3>2. p2 = p
      BY <1>7, <3>1
    <3>3. \A e \in Device : /\ tx'[e] # None => Sending(p, e, tx'[e])
                            /\ rx'[e] # None => Collecting(p, e, rx'[e])
      BY <1>3, <2>2, <3>1 DEF Local
    <3>4. Local(p2)'
      BY <1>3, <1>8, <3>1, <3>2, <3>3
    <3>. QED  BY <1>1, <1>3, <1>5, <2>2, <3>2, <3>4 DEF IInv
  <2>5. CASE \E r \in RxContext : Accepts(d, f, r)
    <3>1. PICK r \in RxContext : Accepts(d, f, r)
      BY <2>5
    <3>2. /\ Grows(p, p2) /\ Coherent(p2)
          /\ \A e \in Device : rx'[e] # None => Collecting(p2, e, rx'[e])
          /\ \A e \in Device : completed'[e] # None => Known(p2, e, completed'[e])
          /\ \A e \in Device : ack'[e] # None => Truthful(p2, e, ack'[e].to, ack'[e])
      BY <1>1, <1>2, <1>3, <2>1, <3>1, AcceptSafe
    <3>3. Local(p2)
      BY <1>3, <3>2, LocalKept
    <3>4. \A e \in Device : tx'[e] # None => Sending(p2, e, tx'[e])
      BY <2>2, <3>3 DEF Local
    <3>5. Local(p2)'
      BY <1>8, <3>2, <3>3, <3>4
    <3>6. Told(p2, outcome')
      <4>1. f.msg \in Message
        BY <2>1 DEF DataFrame
      <4>2. heard' = [heard EXCEPT ![f.msg] = @ \cup {f.index}]
        BY <1>3, <2>1, <3>1, AcceptFacts
      <4>3. heard \in [Message -> SUBSET Index] /\ p.heard = heard /\ p2.heard = heard'
        BY <1>1, <1>3 DEF TypeOK, Past
      <4>4. \A m \in Message : p.heard[m] \subseteq p2.heard[m]
        BY <4>1, <4>2, <4>3
      <4>. QED  BY <1>3, <2>2, <4>4 DEF Told
    <3>. QED  BY <1>1, <1>5, <3>2, <3>5, <3>6 DEF IInv
  <2>. QED  BY <2>2, <2>3, <2>4, <2>5
<1>. QED  BY <1>2, <1>9, <1>10

LEMMA InitSafe == Init => IInv
<1>. SUFFICES ASSUME Init PROVE IInv
  OBVIOUS
<1>1. PICK p : p = Past
  OBVIOUS
<1>2. /\ p.started = {} /\ p.heard = [m \in Message |-> {}]
      /\ p.delivered = [d \in Device |-> <<>>]
  BY <1>1 DEF Init, Past
<1>3. \A d \in Device : p.delivered[d] = << >> /\ DOMAIN p.delivered[d] = {}
  BY <1>2, NothingGot
<1>4. Coherent(p)
  <2>1. \A d \in Device : \A k \in {} :
          \E m \in p.started :
            /\ p.delivered[d][k] = Whole(m) /\ To[m] \in {d, Broadcast}
            /\ All(Count[m]) \subseteq p.heard[m]
    OBVIOUS
  <2>. QED  BY <1>2, <1>3, <2>1 DEF Coherent
<1>5. Local(p) /\ Told(p, outcome) /\ NewIds
  BY DEF Init, Local, Told, NewIds, Honest
<1>. QED  BY <1>1, <1>4, <1>5, InitType DEF IInv

\* The pendants that may reset send nothing.
SendersStay == \A m \in Message : From[m] \notin Rebooting

LEMMA SafeStep == SendersStay /\ IInv /\ [Next]_vars => IInv'
<1>. SUFFICES ASSUME SendersStay, IInv, [Next]_vars PROVE IInv'
  OBVIOUS
<1>0. TypeInv'
  BY TypeStep DEF IInv
<1>1. CASE UNCHANGED vars
  <2>1. PICK p : p = Past
    OBVIOUS
  <2>2. p = Past' /\ Coherent(p) /\ Local(p) /\ Told(p, outcome) /\ NewIds
    BY <1>1, <2>1 DEF vars, upper, Past, IInv
  <2>3. Local(p)' /\ NewIds' /\ Told(p, outcome')
    BY <1>1, <2>2 DEF vars, upper, radio, Local, NewIds
  <2>. QED  BY <1>0, <2>2, <2>3 DEF IInv
<1>2. ASSUME NEW d \in Device, Reboot(d) PROVE IInv'
  <2>1. \A m \in Message : From[m] # d
    BY <1>2 DEF Reboot, SendersStay
  <2>. QED  BY <1>0, <1>2, <2>1, RebootSafe
<1>. QED  BY <1>0, <1>1, <1>2, PollSafe, StartSafe, AdvSafe, ReportSafe, ScanSafe DEF Next

-----------------------------------------------------------------------------
(* The theorems, when no sender resets. *)

\* The inductive invariant: whatever is lost, repeated, overheard or answered
\* twice, and whichever receiver resets, every frame, acknowledgement and
\* context anywhere says only what happened (app_peer_transport.c:265-323).
THEOREM Invariance ==
  ASSUME SendersStay
  PROVE  Spec => []IInv
BY SendersStay, InitSafe, SafeStep, PTL DEF Spec

\* What is handed up is one whole message, never fragments of two, while no
\* sender resets and uses an id again
\* (the context keys, app_peer_transport.c:308-323).
THEOREM HandedUpIntact ==
  ASSUME SendersStay
  PROVE  Spec => []HandedUpWhole
<1>1. ASSUME IInv PROVE HandedUpWhole
  <2>. SUFFICES ASSUME NEW d \in Device, NEW b \in DeliveredTo(d)
                PROVE  \E m \in started : b = Whole(m) /\ To[m] \in {d, Broadcast}
    BY DEF HandedUpWhole
  <2>1. Coherent(Past)
    BY <1>1 DEF IInv
  <2>2. PICK k \in DOMAIN delivered[d] : b = delivered[d][k]
    BY DEF DeliveredTo
  <2>. QED  BY <2>1, <2>2 DEF Coherent, Past
<1>. QED  BY <1>1, Invariance, PTL

\* A COMPLETE or DUP_COMPLETE acknowledgement, pending, queued, on air or in a
\* scanner, is about a message that the pendant it comes from has handed up
\* (app_peer_transport.c:609-639, 859-869).
THEOREM CompleteIsTrue ==
  ASSUME SendersStay
  PROVE  Spec => []CompleteMeansDelivered
<1>1. ASSUME IInv PROVE CompleteMeansDelivered
  <2>. SUFFICES ASSUME NEW m \in started, To[m] # Broadcast,
                       Completes(To[m], From[m], idOf[m])
                PROVE  Whole(m) \in DeliveredTo(To[m])
    BY DEF CompleteMeansDelivered
  <2>1. PICK p : p = Past
    OBVIOUS
  <2>2. Coherent(p) /\ Local(p) /\ m \in Message /\ m \in p.started /\ p.idOf[m] = idOf[m]
        /\ p.delivered = delivered
    BY <1>1, <2>1 DEF IInv, TypeInv, TypeOK, Past
  <2>3. PICK d \in Device, e \in Device : d = To[m] /\ e = From[m]
    BY <2>2, Bounds
  <2>4. ASSUME NEW a, Truthful(p, d, e, a), a.id = idOf[m], a.status \in Done
        PROVE  Whole(m) \in DeliveredTo(d)
    <3>1. PICK n \in Message : Owns(p, n, e, d, a.id) /\ Handed(p, d, n)
      BY <2>4 DEF Truthful
    <3>2. n = m
      BY <2>2, <2>3, <2>4, <3>1 DEF Owns, Coherent
    <3>. QED  BY <2>2, <3>1, <3>2 DEF Handed, DeliveredTo
  <2>5. CASE ack[d] # None /\ ack[d].to = e /\ ack[d].id = idOf[m] /\ ack[d].status \in Done
    <3>1. Truthful(p, d, e, ack[d])
      BY <2>2, <2>5 DEF Local
    <3>. QED  BY <2>3, <2>4, <2>5, <3>1
  <2>6. CASE \E f \in AcksOf(d) : f.dst = e /\ f.id = idOf[m] /\ f.status \in Done
    <3>1. PICK f \in AcksOf(d) : f.dst = e /\ f.id = idOf[m] /\ f.status \in Done
      BY <2>6
    <3>2. /\ f = queue[d] \/ f = onAir[d] \/ \E c \in Device : f = deferred[c]
          /\ f # None /\ f.kind = "ACK" /\ f.src = d
      BY <3>1 DEF AcksOf
    <3>3. Honest(p, f)
      BY <2>2, <3>2 DEF Local
    <3>4. Truthful(p, d, e, f)
      BY <3>1, <3>2, <3>3 DEF Honest
    <3>. QED  BY <2>3, <2>4, <3>1, <3>4
  <2>. QED  BY <2>3, <2>5, <2>6 DEF Completes, Done
<1>. QED  BY <1>1, Invariance, PTL

\* Success of a reliable message is only reported when its destination has put
\* every fragment of it in a buffer (app_peer_transport.c:564-567, 717-751).
THEOREM SuccessWasHeard ==
  ASSUME SendersStay
  PROVE  Spec => []SuccessMeansHeard
<1>1. ASSUME IInv PROVE SuccessMeansHeard
  <2>. SUFFICES ASSUME NEW m \in started, Reliable[m], outcome[m] = "ok"
                PROVE  heard[m] = All(Count[m])
    BY DEF SuccessMeansHeard
  <2>1. PICK p : p = Past
    OBVIOUS
  <2>2. Coherent(p) /\ Told(p, outcome) /\ p.heard = heard /\ m \in Message
    BY <1>1, <2>1 DEF IInv, TypeInv, TypeOK, Past
  <2>3. heard[m] \subseteq All(Count[m]) /\ All(Count[m]) \subseteq heard[m]
    BY <2>2 DEF Coherent, Told
  <2>. QED  BY <2>3
<1>. QED  BY <1>1, Invariance, PTL

-----------------------------------------------------------------------------
(* What is handed up is of one name, resets or not: a frame, a context and a *)
(* buffer carry messages of the sender, the destination and the id they show, *)
(* which after a reset several messages may share.                            *)

Carries(p, f) == f # None /\ f.kind = "DATA" => Genuine(p, f)

\* A receive context collects fragments of its name.
Gathering(p, d, r) ==
  /\ r.dst \in {d, Broadcast} /\ DOMAIN r.got \subseteq All(r.count)
  /\ \A i \in DOMAIN r.got :
       Owns(p, r.got[i], r.src, r.dst, r.id) /\ Count[r.got[i]] = r.count

Traced(p) ==
  \A d \in Device :
    /\ tx[d] # None => Owns(p, tx[d].msg, d, To[tx[d].msg], tx[d].id)
    /\ rx[d] # None => Gathering(p, d, rx[d])
    /\ Carries(p, queue[d]) /\ Carries(p, onAir[d]) /\ Carries(p, deferred[d])

OfOneName(p, d, b) ==
  \E m \in p.started :
    /\ To[m] \in {d, Broadcast} /\ DOMAIN b = All(Count[m])
    /\ \A i \in DOMAIN b :
         From[b[i]] = From[m] /\ To[b[i]] = To[m] /\ p.idOf[b[i]] = p.idOf[m]

\* ... and a buffer handed up holds messages that were started.
Given(p) ==
  \A d \in Device : \A k \in DOMAIN p.delivered[d] :
    /\ OfOneName(p, d, p.delivered[d][k])
    /\ \A i \in DOMAIN p.delivered[d][k] : p.delivered[d][k][i] \in p.started

NameInv == TypeInv /\ Traced(Past) /\ Given(Past)

\* Messages that were started keep their ids.
Lasts(p, p2) ==
  \A m \in Message : m \in p.started => m \in p2.started /\ p2.idOf[m] = p.idOf[m]

LEMMA TracedKept ==
  ASSUME TypeOK, NEW p, NEW p2, Lasts(p, p2), Traced(p)
  PROVE  Traced(p2)
<1>1. ASSUME NEW m, NEW s, NEW e, NEW i, Owns(p, m, s, e, i) PROVE Owns(p2, m, s, e, i)
  BY <1>1 DEF Owns, Lasts
<1>2. ASSUME NEW f, Carries(p, f) PROVE Carries(p2, f)
  BY <1>1, <1>2 DEF Carries, Genuine
<1>3. ASSUME NEW d, NEW r, Gathering(p, d, r) PROVE Gathering(p2, d, r)
  BY <1>1, <1>3 DEF Gathering
<1>. QED  BY <1>1, <1>2, <1>3 DEF Traced

LEMMA GivenKept ==
  ASSUME NEW p, NEW p2, Lasts(p, p2), Given(p), p.started \subseteq Message,
         p2.delivered = p.delivered
  PROVE  Given(p2)
<1>. SUFFICES ASSUME NEW d \in Device, NEW k \in DOMAIN p.delivered[d], NEW b,
                     b = p.delivered[d][k]
     PROVE  OfOneName(p2, d, b) /\ \A i \in DOMAIN b : b[i] \in p2.started
  BY DEF Given
<1>1. OfOneName(p, d, b) /\ \A i \in DOMAIN b : b[i] \in p.started
  BY DEF Given
<1>2. PICK m \in p.started :
        /\ To[m] \in {d, Broadcast} /\ DOMAIN b = All(Count[m])
        /\ \A i \in DOMAIN b :
             From[b[i]] = From[m] /\ To[b[i]] = To[m] /\ p.idOf[b[i]] = p.idOf[m]
  BY <1>1 DEF OfOneName
<1>3. m \in p2.started /\ p2.idOf[m] = p.idOf[m]
  BY <1>2 DEF Lasts
<1>4. \A i \in DOMAIN b : b[i] \in p2.started /\ p2.idOf[b[i]] = p.idOf[b[i]]
  BY <1>1 DEF Lasts
<1>. QED  BY <1>2, <1>3, <1>4 DEF OfOneName

LEMMA PollTraced ==
  ASSUME TypeInv, NEW d \in Device, NEW t \in TxContext \cup {None}, NEW expired \in BOOLEAN,
         PollWith(d, t, expired), Fits(t), t = None => tx[d] = None,
         t # None /\ tx[d] = None => t.acked = {} /\ t.pending # {},
         UNCHANGED <<onAir, deferred>>,
         NEW p, Traced(p), t # None => Owns(p, t.msg, d, To[t.msg], t.id)
  PROVE  Traced(p)'
<1>1. PICK slot, a, q, t2 :
        /\ QueueMoves(d, t, slot, q) /\ queue' = [queue EXCEPT ![d] = q]
        /\ TxMoves(d, t, t2, outcome') /\ tx' = [tx EXCEPT ![d] = t2]
        /\ \/ rx' = rx
           \/ rx[d] # None /\ rx' = [rx EXCEPT ![d] = None]
  BY PollFacts DEF Fits, TypeInv
<1>2. /\ rx \in [Device -> RxContext \cup {None}]
      /\ queue \in [Device -> Frame \cup {None}] /\ tx \in [Device -> TxContext \cup {None}]
  BY DEF TypeInv, TypeOK
<1>3. Carries(p, q)
  <2>1. CASE q = queue[d]
    BY <2>1 DEF Traced
  <2>2. CASE q = AckFrameOf(d, slot)
    BY <2>2 DEF AckFrameOf, Carries
  <2>3. CASE t # None /\ \E i \in All(Count[t.msg]), s \in Seq4Frame : q = DataFrameOf(d, t, i, s)
    BY <2>3 DEF DataFrameOf, Carries, Genuine
  <2>. QED  BY <1>1, <2>1, <2>2, <2>3 DEF QueueMoves
<1>4. t2 # None => Owns(p, t2.msg, d, To[t2.msg], t2.id)
  <2>1. CASE t # None /\ \E b \in SUBSET All(Count[t.msg]), r \in 0..MaxRetryRounds :
               t2 = [t EXCEPT !.pending = b, !.round = r]
    <3>1. t2.msg = t.msg /\ t2.id = t.id
      BY <2>1 DEF TxContext
    <3>. QED  BY <2>1, <3>1
  <2>2. CASE t2 = t \/ t2 = None
    BY <2>2
  <2>. QED  BY <1>1, <2>1, <2>2 DEF TxMoves
<1>5. ASSUME NEW e \in Device
      PROVE  /\ tx'[e] # None => Owns(p, tx'[e].msg, e, To[tx'[e].msg], tx'[e].id)
             /\ rx'[e] # None => Gathering(p, e, rx'[e])
             /\ Carries(p, queue'[e]) /\ Carries(p, onAir'[e]) /\ Carries(p, deferred'[e])
  <2>1. /\ tx[e] # None => Owns(p, tx[e].msg, e, To[tx[e].msg], tx[e].id)
        /\ rx[e] # None => Gathering(p, e, rx[e])
        /\ Carries(p, queue[e]) /\ Carries(p, onAir[e]) /\ Carries(p, deferred[e])
    BY DEF Traced
  <2>2. rx'[e] = rx[e] \/ rx'[e] = None
    BY <1>1, <1>2
  <2>3. CASE e = d
    <3>1. tx'[e] = t2 /\ queue'[e] = q
      BY <1>1, <1>2, <2>3
    <3>. QED  BY <1>3, <1>4, <2>1, <2>2, <2>3, <3>1
  <2>4. CASE e # d
    <3>1. tx'[e] = tx[e] /\ queue'[e] = queue[e]
      BY <1>1, <1>2, <2>4
    <3>. QED  BY <2>1, <2>2, <3>1
  <2>. QED  BY <2>3, <2>4
<1>. QED  BY <1>5 DEF Traced

LEMMA PollNames == ASSUME NameInv, NEW d \in Device, Poll(d) PROVE NameInv'
<1>1. PICK p : p = Past
  OBVIOUS
<1>2. PICK expired \in BOOLEAN : PollWith(d, tx[d], expired)
  BY DEF Poll
<1>3. UNCHANGED <<onAir, deferred, started, idOf, heard, delivered>>
  BY DEF Poll
<1>4. p = Past' /\ Traced(p) /\ Given(p) /\ TypeInv
  BY <1>1, <1>3 DEF Past, NameInv
<1>5. /\ tx[d] \in TxContext \cup {None} /\ Fits(tx[d])
      /\ tx[d] # None => Owns(p, tx[d].msg, d, To[tx[d].msg], tx[d].id)
  BY <1>4 DEF TypeInv, TypeOK, Traced
<1>6. Traced(p)'
  BY <1>2, <1>3, <1>4, <1>5, PollTraced
<1>. QED  BY <1>4, <1>6, PollType DEF NameInv

LEMMA StartNames ==
  ASSUME NameInv, NEW d \in Device, NEW m \in Message, Start(d, m) PROVE NameInv'
<1> DEFINE t == [msg |-> m, id |-> nextId[d], acked |-> {}, pending |-> All(Count[m]),
                 round |-> 0]
<1>1. PICK p, p2 : p = Past /\ p2 = Past'
  OBVIOUS
<1>2. PICK expired \in BOOLEAN : PollWith(d, t, expired)
  BY DEF Start
<1>3. /\ t \in TxContext /\ Fits(t) /\ t.acked = {} /\ t.pending # {} /\ tx[d] = None
      /\ t.msg = m /\ t.id = nextId[d]
  BY StartContext DEF NameInv, TypeInv, Start
<1>4. /\ From[m] = d /\ m \notin started
      /\ started' = started \cup {m} /\ idOf' = [idOf EXCEPT ![m] = nextId[d]]
      /\ UNCHANGED <<onAir, deferred, heard, delivered>>
  BY DEF Start
<1>5. Traced(p) /\ Given(p) /\ TypeInv /\ TypeOK
  BY <1>1 DEF NameInv, TypeInv
<1>6. idOf \in [Message -> Nat] /\ started \subseteq Message
  BY <1>5 DEF TypeOK
<1>7. /\ p.started = started /\ p.idOf = idOf /\ p.delivered = delivered
      /\ p2.started = started' /\ p2.idOf = idOf' /\ p2.delivered = delivered
  BY <1>1, <1>4 DEF Past
<1>8. Lasts(p, p2)
  BY <1>4, <1>6, <1>7 DEF Lasts
<1>. HIDE DEF t
<1>9. Traced(p2) /\ Given(p2)
  BY <1>5, <1>6, <1>7, <1>8, TracedKept, GivenKept
<1>10. Owns(p2, t.msg, d, To[t.msg], t.id)
  BY <1>3, <1>4, <1>6, <1>7 DEF Owns
<1>11. Traced(p2)'
  BY <1>2, <1>3, <1>4, <1>5, <1>9, <1>10, PollTraced
<1>. QED  BY <1>1, <1>5, <1>9, <1>11, StartType DEF NameInv

\* Frames that move, and pendants that forget.
LEMMA QuietNames ==
  ASSUME NameInv, TypeInv', NEW d \in Device,
         Reboot(d) \/ AdvPoll(d) \/ \E e \in Device : OnReport(d, e)
  PROVE  NameInv'
<1>1. PICK p : p = Past
  OBVIOUS
<1>2. UNCHANGED <<started, idOf, heard, delivered>>
  BY DEF Reboot, AdvPoll, OnReport, upper
<1>3. p = Past' /\ Traced(p) /\ Given(p) /\ TypeOK
  BY <1>1, <1>2 DEF Past, NameInv, TypeInv
<1>4. /\ tx \in [Device -> TxContext \cup {None}] /\ rx \in [Device -> RxContext \cup {None}]
      /\ queue \in [Device -> Frame \cup {None}] /\ onAir \in [Device -> Frame \cup {None}]
      /\ deferred \in [Device -> Frame \cup {None}]
  BY <1>3 DEF TypeOK
<1>5. Carries(p, None) /\ \A e \in Device : Carries(p, queue[e]) /\ Carries(p, onAir[e])
  BY <1>3 DEF Carries, Traced
<1>6. ASSUME NEW e \in Device
      PROVE  /\ tx'[e] # None => Owns(p, tx'[e].msg, e, To[tx'[e].msg], tx'[e].id)
             /\ rx'[e] # None => Gathering(p, e, rx'[e])
             /\ Carries(p, queue'[e]) /\ Carries(p, onAir'[e]) /\ Carries(p, deferred'[e])
  <2>1. /\ tx[e] # None => Owns(p, tx[e].msg, e, To[tx[e].msg], tx[e].id)
        /\ rx[e] # None => Gathering(p, e, rx[e])
        /\ Carries(p, queue[e]) /\ Carries(p, onAir[e]) /\ Carries(p, deferred[e])
    BY <1>3 DEF Traced
  <2>2. (tx'[e] = tx[e] \/ tx'[e] = None) /\ (rx'[e] = rx[e] \/ rx'[e] = None)
    BY <1>4 DEF Reboot, AdvPoll, OnReport
  <2>3. Carries(p, queue'[e]) /\ Carries(p, onAir'[e])
    BY <1>4, <1>5, <2>1 DEF Reboot, AdvPoll, OnReport
  <2>4. Carries(p, deferred'[e])
    BY <1>4, <1>5, <2>1 DEF Reboot, AdvPoll, OnReport
  <2>. QED  BY <2>1, <2>2, <2>3, <2>4
<1>7. Traced(p)'
  BY <1>6 DEF Traced
<1>. QED  BY <1>3, <1>7 DEF NameInv

\* A fragment that is accepted has the name of its context.
LEMMA AcceptNames ==
  ASSUME TypeOK, NEW d \in Device, NEW f \in DataFrame, NEW r \in RxContext, Accepts(d, f, r),
         UNCHANGED <<started, idOf>>,
         NEW p, NEW p2, p = Past, p2 = Past', Traced(p), Given(p), Genuine(p, f)
  PROVE  /\ Lasts(p, p2) /\ Given(p2)
         /\ \A e \in Device : rx'[e] # None => Gathering(p2, e, rx'[e])
<1> DEFINE got == Filled(r, f)
<1>1. PICK m \in Message : m = f.msg
  BY DEF DataFrame
<1>2. Owns(p, m, f.src, f.dst, f.id) /\ f.index \in All(Count[m]) /\ f.count = Count[m]
  BY <1>1 DEF Genuine
<1>3. /\ r.src = f.src /\ r.dst = f.dst /\ r.id = f.id /\ r.count = f.count
      /\ r.dst \in {d, Broadcast}
  BY DEF Accepts, SameMessage
<1>4. Gathering(p, d, r)
  <2>1. CASE r = rx[d] /\ rx[d] # None
    BY <2>1 DEF Traced
  <2>2. CASE r = Fresh(f)
    <3>1. DOMAIN r.got = {}
      BY <2>2, NothingGot DEF Fresh
    <3>. QED  BY <1>3, <3>1 DEF Gathering
  <2>. QED  BY <2>1, <2>2 DEF Accepts
<1>5. /\ got \in Buffer /\ DOMAIN got = DOMAIN r.got \cup {f.index} /\ got[f.index] = m
      /\ \A i \in DOMAIN r.got : i # f.index => got[i] = r.got[i]
  <2>1. r.got \in Buffer
    BY DEF RxContext
  <2>. QED  BY <1>1, <2>1, FilledType
<1>6. /\ \/ /\ DOMAIN got = All(r.count)
            /\ delivered' = [delivered EXCEPT ![d] = Append(@, got)]
            /\ rx' = [rx EXCEPT ![d] = None]
         \/ /\ rx' = [rx EXCEPT ![d] = [r EXCEPT !.got = got]]
            /\ delivered' = delivered
  BY <1>1, AcceptFacts
<1>. HIDE DEF got
<1>7. /\ p.started = started /\ p.idOf = idOf /\ p.delivered = delivered
      /\ p2.started = started /\ p2.idOf = idOf /\ p2.delivered = delivered'
  BY DEF Past
<1>8. delivered \in [Device -> Seq(Buffer)] /\ rx \in [Device -> RxContext \cup {None}]
      /\ started \subseteq Message
  BY DEF TypeOK
<1>9. Lasts(p, p2)
  BY <1>7 DEF Lasts
<1>10. /\ DOMAIN got \subseteq All(r.count)
       /\ \A i \in DOMAIN got :
            Owns(p2, got[i], r.src, r.dst, r.id) /\ Count[got[i]] = r.count
  <2>1. ASSUME NEW i \in DOMAIN got
        PROVE  Owns(p, got[i], r.src, r.dst, r.id) /\ Count[got[i]] = r.count
    <3>1. CASE i = f.index
      BY <1>2, <1>3, <1>5, <3>1
    <3>2. CASE i # f.index
      BY <1>4, <1>5, <3>2 DEF Gathering
    <3>. QED  BY <3>1, <3>2
  <2>. QED  BY <1>2, <1>3, <1>4, <1>5, <1>7, <2>1 DEF Gathering, Owns
<1>11. \A e \in Device : rx'[e] # None => Gathering(p2, e, rx'[e])
  <2>1. Traced(p2)
    BY <1>9, TracedKept
  <2>2. CASE rx' = [rx EXCEPT ![d] = None]
    BY <1>8, <2>1, <2>2 DEF Traced
  <2>3. CASE rx' = [rx EXCEPT ![d] = [r EXCEPT !.got = got]]
    <3> DEFINE r2 == [r EXCEPT !.got = got]
    <3>1. /\ r2.src = r.src /\ r2.dst = r.dst /\ r2.id = r.id /\ r2.count = r.count
          /\ r2.got = got /\ rx' = [rx EXCEPT ![d] = r2]
      BY <2>3 DEF RxContext
    <3>. HIDE DEF r2
    <3>2. Gathering(p2, d, r2)
      BY <1>3, <1>10, <3>1 DEF Gathering
    <3>. QED  BY <1>8, <2>1, <3>1, <3>2 DEF Traced
  <2>. QED  BY <1>6, <2>2, <2>3
<1>12. Given(p2)
  <2>1. CASE delivered' = delivered
    BY <1>7, <1>8, <1>9, <2>1, GivenKept
  <2>2. CASE DOMAIN got = All(r.count) /\ delivered' = [delivered EXCEPT ![d] = Append(@, got)]
    <3>1. OfOneName(p2, d, got) /\ \A i \in DOMAIN got : got[i] \in p2.started
      <4>1. m \in p2.started /\ To[m] \in {d, Broadcast} /\ DOMAIN got = All(Count[m])
        BY <1>2, <1>3, <1>7, <2>2 DEF Owns
      <4>2. \A i \in DOMAIN got :
              /\ From[got[i]] = From[m] /\ To[got[i]] = To[m] /\ p2.idOf[got[i]] = p2.idOf[m]
              /\ got[i] \in p2.started
        BY <1>2, <1>3, <1>7, <1>10 DEF Owns
      <4>. QED  BY <4>1, <4>2 DEF OfOneName
    <3>2. /\ delivered'[d] = Append(delivered[d], got)
          /\ \A e \in Device : e # d => delivered'[e] = delivered[e]
      BY <1>8, <2>2
    <3>3. /\ DOMAIN delivered'[d] = DOMAIN delivered[d] \cup {Len(delivered[d]) + 1}
          /\ \A k \in DOMAIN delivered[d] : delivered'[d][k] = delivered[d][k]
          /\ delivered'[d][Len(delivered[d]) + 1] = got
      BY <1>5, <1>8, <3>2, AppendFacts
    <3>4. ASSUME NEW e \in Device, NEW k \in DOMAIN delivered[e], NEW b, b = delivered[e][k]
          PROVE  OfOneName(p2, e, b) /\ \A i \in DOMAIN b : b[i] \in p2.started
      BY <1>7, <3>4 DEF Given, OfOneName
    <3>5. ASSUME NEW e \in Device, NEW k \in DOMAIN delivered'[e], NEW b, b = delivered'[e][k]
          PROVE  OfOneName(p2, e, b) /\ \A i \in DOMAIN b : b[i] \in p2.started
      <4>1. CASE k \in DOMAIN delivered[e]
        <5>1. delivered'[e][k] = delivered[e][k]
          BY <3>2, <3>3, <4>1
        <5>. QED  BY <3>4, <3>5, <4>1, <5>1
      <4>2. CASE k \notin DOMAIN delivered[e]
        <5>1. e = d /\ b = got
          BY <3>2, <3>3, <3>5, <4>2
        <5>. QED  BY <3>1, <5>1
      <4>. QED  BY <4>1, <4>2
    <3>. QED  BY <1>7, <3>5 DEF Given
  <2>. QED  BY <1>6, <2>1, <2>2
<1>. QED  BY <1>9, <1>11, <1>12

LEMMA ScanNames == ASSUME NameInv, NEW d \in Device, ScanPoll(d) PROVE NameInv'
<1>1. PICK p, p2, f : p = Past /\ p2 = Past' /\ f = deferred[d]
  OBVIOUS
<1>2. /\ f \in Frame /\ f # None
      /\ \/ f.kind = "ACK" /\ HandleAck(d, f)
         \/ f.kind = "DATA" /\ HandleData(d, f)
      /\ deferred' = [deferred EXCEPT ![d] = None]
      /\ UNCHANGED <<queue, onAir, started, idOf>>
  BY <1>1 DEF ScanPoll, NameInv, TypeInv, TypeOK
<1>3. Traced(p) /\ Given(p) /\ TypeInv /\ TypeOK
  BY <1>1 DEF NameInv, TypeInv
<1>4. \A e \in Device : deferred'[e] = deferred[e] \/ deferred'[e] = None
  BY <1>2, <1>3 DEF TypeOK
<1>5. ASSUME UNCHANGED <<heard, delivered>> PROVE p2 = p
  BY <1>1, <1>2, <1>5 DEF Past
<1>6. ASSUME Traced(p2), Given(p2),
             \A e \in Device : tx'[e] # None => Owns(p2, tx'[e].msg, e, To[tx'[e].msg], tx'[e].id),
             \A e \in Device : rx'[e] # None => Gathering(p2, e, rx'[e])
      PROVE  NameInv'
  <2>1. \A e \in Device : Carries(p2, deferred'[e])
    BY <1>4, <1>6 DEF Traced, Carries
  <2>2. Traced(p2)'
    BY <1>2, <1>6, <2>1 DEF Traced
  <2>. QED  BY <1>1, <1>3, <1>6, <2>2, ScanType DEF NameInv
<1>7. CASE f.kind = "ACK" /\ HandleAck(d, f)
  <2>1. f \in AckFrame
    BY <1>2, <1>7 DEF Frame, DataFrame
  <2>2. /\ UNCHANGED <<rx, heard, delivered>>
        /\ \/ tx' = tx
           \/ tx' = [tx EXCEPT ![d] = None]
           \/ /\ tx[d] # None
              /\ \E b \in TxContext :
                   tx' = [tx EXCEPT ![d] = b] /\ b.msg = tx[d].msg /\ b.id = tx[d].id
    BY <1>3, <1>7, <2>1, AckFacts DEF Matches
  <2>3. tx \in [Device -> TxContext \cup {None}] /\ p2 = p
    BY <1>3, <1>5, <2>2 DEF TypeOK
  <2>4. \A e \in Device : tx[e] # None => Owns(p, tx[e].msg, e, To[tx[e].msg], tx[e].id)
    BY <1>3 DEF Traced
  <2>5. \A e \in Device : tx'[e] # None => Owns(p, tx'[e].msg, e, To[tx'[e].msg], tx'[e].id)
    BY <2>2, <2>3, <2>4
  <2>. QED  BY <1>3, <1>6, <2>2, <2>3, <2>5 DEF Traced
<1>8. CASE f.kind = "DATA" /\ HandleData(d, f)
  <2>1. f \in DataFrame /\ Genuine(p, f)
    <3>1. Carries(p, f)
      BY <1>1, <1>3 DEF Traced
    <3>. QED  BY <1>2, <1>8, <3>1 DEF Frame, AckFrame, Carries
  <2>2. /\ tx' = tx
        /\ \/ UNCHANGED <<rx, heard, delivered>>
           \/ \E r \in RxContext : Accepts(d, f, r)
    BY <1>3, <1>8, <2>1, DataFacts DEF Answers
  <2>3. CASE UNCHANGED <<rx, heard, delivered>>
    BY <1>3, <1>5, <1>6, <2>2, <2>3 DEF Traced
  <2>4. CASE \E r \in RxContext : Accepts(d, f, r)
    <3>1. PICK r \in RxContext : Accepts(d, f, r)
      BY <2>4
    <3>2. /\ Lasts(p, p2) /\ Given(p2)
          /\ \A e \in Device : rx'[e] # None => Gathering(p2, e, rx'[e])
      BY <1>1, <1>2, <1>3, <2>1, <3>1, AcceptNames
    <3>3. Traced(p2)
      BY <1>3, <3>2, TracedKept
    <3>. QED  BY <1>6, <2>2, <3>2, <3>3 DEF Traced
  <2>. QED  BY <2>2, <2>3, <2>4
<1>. QED  BY <1>2, <1>7, <1>8

LEMMA InitNames == Init => NameInv
<1>. SUFFICES ASSUME Init PROVE NameInv
  OBVIOUS
<1>1. \A d \in Device : delivered[d] = << >> /\ DOMAIN delivered[d] = {}
  BY NothingGot DEF Init
<1>2. Given(Past)
  BY <1>1 DEF Given, Past
<1>3. Traced(Past)
  BY DEF Init, Traced, Carries
<1>. QED  BY <1>2, <1>3, InitType DEF NameInv

LEMMA NameStep == NameInv /\ [Next]_vars => NameInv'
<1>. SUFFICES ASSUME NameInv, [Next]_vars PROVE NameInv'
  OBVIOUS
<1>1. TypeInv'
  BY TypeStep DEF NameInv
<1>2. CASE UNCHANGED vars
  <2>1. PICK p : p = Past
    OBVIOUS
  <2>2. p = Past' /\ Traced(p) /\ Given(p)
    BY <1>2, <2>1 DEF vars, upper, Past, NameInv
  <2>3. Traced(p)'
    BY <1>2, <2>2 DEF vars, radio, Traced
  <2>. QED  BY <1>1, <2>2, <2>3 DEF NameInv
<1>. QED  BY <1>1, <1>2, PollNames, StartNames, QuietNames, ScanNames DEF Next

\* What is handed up has all its fragments, and they carry one sender,
\* destination and id, whichever pendants reset (the context keys,
\* app_peer_transport.c:308-323).
THEOREM NeverSpliced == Spec => []Unspliced
<1>1. ASSUME NameInv PROVE Unspliced
  <2>1. \A d \in Device : \A k \in DOMAIN delivered[d] : OfOneName(Past, d, delivered[d][k])
    BY <1>1 DEF NameInv, Given, Past
  <2>2. \A d \in Device : \A b \in DeliveredTo(d) : OfOneName(Past, d, b)
    BY <2>1 DEF DeliveredTo
  <2>3. Past.started = started /\ Past.idOf = idOf
    BY DEF Past
  <2>. QED  BY <2>2, <2>3 DEF Unspliced, OfOneName
<1>. QED  BY <1>1, InitNames, NameStep, PTL DEF Spec

-----------------------------------------------------------------------------
(* Messages reach a pendant in the order they were sent, resets or not: the *)
(* frames between a sender and a pendant wait in line.                      *)

\* m is another pendant's message, and meant for d.
For(m, d) == From[m] # d /\ To[m] \in {d, Broadcast}

Held(f) == IF f # None /\ f.kind = "DATA" THEN {f.msg} ELSE {}
Sent(t) == IF t # None THEN {t.msg} ELSE {}

\* Where a message of e waits before d hears it: d's scanner, the air, e's
\* queue and e's transmit context.
Waiting(d, e) == {m \in Held(deferred[d]) : From[m] = e}
Airing(e)     == Held(onAir[e])
Queued(e)     == Held(queue[e])
InHand(e)   == Sent(tx[e])

\* The messages d has a fragment of, and those it handed up a fragment of.
Gave(d) == {m \in Message : \E k \in DOMAIN delivered[d] :
                              \E i \in DOMAIN delivered[d][k] : delivered[d][k][i] = m}
Seen(d) == {m \in Message : rx[d] # None /\ \E i \in DOMAIN rx[d].got : rx[d].got[i] = m}
             \cup Gave(d)

Between(b, c, h) == \A m \in b \cap h : c \subseteq {m}

\* A message seen at two places of the line leaves no other between them.
InLine(s, w, x, y, z) ==
  /\ Between(s, w, x) /\ Between(s, w, y) /\ Between(s, w, z)
  /\ Between(s, x, y) /\ Between(s, x, z) /\ Between(s, y, z)
  /\ Between(w, x, y) /\ Between(w, x, z) /\ Between(w, y, z)
  /\ Between(x, y, z)

\* A frame names the message it carries a fragment of.
Named(f) ==
  f # None /\ f.kind = "DATA" =>
    f.msg \in started /\ f.src = From[f.msg] /\ f.dst = To[f.msg] /\ f.id = idOf[f.msg]

Origins ==
  \A d \in Device :
    /\ \A m \in Seen(d) : m \in started /\ For(m, d)
    /\ Named(queue[d]) /\ Named(onAir[d]) /\ Named(deferred[d])
    /\ \A m \in Queued(d) \cup Airing(d) : From[m] = d
    /\ \A m \in Held(deferred[d]) : From[m] # d
    /\ tx[d] # None =>
         tx[d].msg \in started /\ From[tx[d].msg] = d /\ idOf[tx[d].msg] = tx[d].id

Lines ==
  \A d, e \in Device : InLine(Seen(d), Waiting(d, e), Airing(e), Queued(e), InHand(e))

\* A message that was handed up and may still be heard is the cached one.
Cached ==
  \A d, e \in Device :
    \A m \in Gave(d) \cap (Waiting(d, e) \cup Airing(e) \cup Queued(e) \cup InHand(e)) :
      From[m] = e =>
        /\ completed[d] # None /\ completed[d].src = From[m] /\ completed[d].dst = To[m]
        /\ completed[d].id = idOf[m]

OrderInv == TypeInv /\ Origins /\ Lines /\ Cached /\ AtMostOnce

LEMMA Single ==
  ASSUME NEW f
  PROVE  /\ \A m, n \in Held(f) : m = n
         /\ \A m, n \in Sent(f) : m = n
BY DEF Held, Sent

LEMMA InLineKept ==
  ASSUME NEW s, NEW w, NEW x, NEW y, NEW z, InLine(s, w, x, y, z),
         NEW s2, NEW w2, NEW x2, NEW y2, NEW z2,
         s2 \subseteq s, w2 \subseteq w, x2 \subseteq x, y2 \subseteq y, z2 \subseteq z
  PROVE  InLine(s2, w2, x2, y2, z2)
<1>1. ASSUME NEW b, NEW c, NEW h, Between(b, c, h), NEW b2, NEW c2, NEW h2,
             b2 \subseteq b, c2 \subseteq c, h2 \subseteq h
      PROVE  Between(b2, c2, h2)
  BY <1>1 DEF Between
<1>2. Between(s2, w2, x2) /\ Between(s2, w2, y2) /\ Between(s2, w2, z2)
  BY <1>1 DEF InLine
<1>3. Between(s2, x2, y2) /\ Between(s2, x2, z2) /\ Between(s2, y2, z2)
  BY <1>1 DEF InLine
<1>4. Between(w2, x2, y2) /\ Between(w2, x2, z2) /\ Between(w2, y2, z2) /\ Between(x2, y2, z2)
  BY <1>1 DEF InLine
<1>. QED  BY <1>2, <1>3, <1>4 DEF InLine

\* The queue goes on air.
LEMMA InLineAired ==
  ASSUME NEW s, NEW w, NEW x, NEW y, NEW z, InLine(s, w, x, y, z)
  PROVE  InLine(s, w, y, {}, z)
<1>1. \A b, c : Between(b, {}, c) /\ Between(b, c, {})
  BY DEF Between
<1>. QED  BY <1>1 DEF InLine

\* What is on air is heard.
LEMMA InLineHeard ==
  ASSUME NEW s, NEW w, NEW x, NEW y, NEW z, InLine(s, w, x, y, z), \A m, n \in x : m = n,
         NEW w2, w2 \subseteq x
  PROVE  InLine(s, w2, x, y, z)
<1>1. Between(s, w2, x) /\ Between(s, w2, y) /\ Between(s, w2, z)
  BY DEF InLine, Between
<1>2. Between(w2, x, y) /\ Between(w2, x, z) /\ Between(w2, y, z)
  BY DEF InLine, Between
<1>. QED  BY <1>1, <1>2 DEF InLine

\* The message in hand is queued.
LEMMA InLineQueued ==
  ASSUME NEW s, NEW w, NEW x, NEW y, NEW z, InLine(s, w, x, y, z), \A m, n \in z : m = n,
         NEW z2, z2 \subseteq z
  PROVE  InLine(s, w, x, z, z2)
<1>1. Between(s, w, x) /\ Between(s, w, z) /\ Between(s, w, z2)
  BY DEF InLine, Between
<1>2. Between(s, x, z) /\ Between(s, x, z2) /\ Between(s, z, z2)
  BY DEF InLine, Between
<1>3. Between(w, x, z) /\ Between(w, x, z2) /\ Between(w, z, z2) /\ Between(x, z, z2)
  BY DEF InLine, Between
<1>. QED  BY <1>1, <1>2, <1>3 DEF InLine

\* What waited is taken.
LEMMA InLineTaken ==
  ASSUME NEW s, NEW w, NEW x, NEW y, NEW z, InLine(s, w, x, y, z),
         NEW s2, s2 \subseteq s \cup w
  PROVE  InLine(s2, {}, x, y, z)
<1>1. \A b, c : Between(b, {}, c) /\ Between({}, b, c)
  BY DEF Between
<1>2. Between(s2, x, y) /\ Between(s2, x, z) /\ Between(s2, y, z)
  BY DEF InLine, Between
<1>. QED  BY <1>1, <1>2 DEF InLine

\* A new message enters behind all others.
LEMMA InLineStarted ==
  ASSUME NEW s, NEW w, NEW x, NEW y, InLine(s, w, x, y, {}),
         NEW m, m \notin s, m \notin w, m \notin x, m \notin y
  PROVE  InLine(s, w, x, y, {m})
<1>1. /\ Between(s, w, {m}) /\ Between(s, x, {m}) /\ Between(s, y, {m})
      /\ Between(w, x, {m}) /\ Between(w, y, {m}) /\ Between(x, y, {m})
  BY DEF Between
<1>. QED  BY <1>1 DEF InLine

LEMMA PollMoves ==
  ASSUME TypeInv, NEW d \in Device, NEW t \in TxContext \cup {None}, NEW expired \in BOOLEAN,
         PollWith(d, t, expired), Fits(t), t = None => tx[d] = None,
         t # None /\ tx[d] = None => t.acked = {} /\ t.pending # {}
  PROVE  /\ \A e \in Device : e # d => tx'[e] = tx[e] /\ queue'[e] = queue[e]
         /\ \A e \in Device : rx'[e] = rx[e] \/ rx'[e] = None
         /\ tx'[d] # None => t # None /\ tx'[d].msg = t.msg /\ tx'[d].id = t.id
         /\ \/ queue'[d] = queue[d]
            \/ queue'[d].kind = "ACK"
            \/ /\ t # None /\ queue'[d].kind = "DATA" /\ queue'[d].msg = t.msg
               /\ queue'[d].src = d /\ queue'[d].dst = To[t.msg] /\ queue'[d].id = t.id
<1>1. PICK slot, a, q, t2 :
        /\ QueueMoves(d, t, slot, q) /\ queue' = [queue EXCEPT ![d] = q]
        /\ TxMoves(d, t, t2, outcome') /\ tx' = [tx EXCEPT ![d] = t2]
        /\ \/ rx' = rx
           \/ rx[d] # None /\ rx' = [rx EXCEPT ![d] = None]
  BY PollFacts DEF Fits, TypeInv
<1>2. /\ rx \in [Device -> RxContext \cup {None}] /\ tx \in [Device -> TxContext \cup {None}]
      /\ queue \in [Device -> Frame \cup {None}]
  BY DEF TypeInv, TypeOK
<1>3. tx'[d] = t2 /\ queue'[d] = q
  BY <1>1, <1>2
<1>4. t2 # None => t # None /\ t2.msg = t.msg /\ t2.id = t.id
  <2>1. CASE t # None /\ \E b \in SUBSET All(Count[t.msg]), r \in 0..MaxRetryRounds :
               t2 = [t EXCEPT !.pending = b, !.round = r]
    BY <2>1 DEF TxContext
  <2>2. CASE t2 = t \/ t2 = None
    BY <2>2
  <2>. QED  BY <1>1, <2>1, <2>2 DEF TxMoves
<1>5. \/ q = queue[d]
      \/ q.kind = "ACK"
      \/ /\ t # None /\ q.kind = "DATA" /\ q.msg = t.msg
         /\ q.src = d /\ q.dst = To[t.msg] /\ q.id = t.id
  <2>1. CASE slot # None /\ q = AckFrameOf(d, slot)
    BY <2>1 DEF AckFrameOf
  <2>2. CASE t # None /\ \E i \in All(Count[t.msg]), s \in Seq4Frame : q = DataFrameOf(d, t, i, s)
    BY <2>2 DEF DataFrameOf
  <2>. QED  BY <1>1, <2>1, <2>2 DEF QueueMoves
<1>6. /\ \A e \in Device : e # d => tx'[e] = tx[e] /\ queue'[e] = queue[e]
      /\ \A e \in Device : rx'[e] = rx[e] \/ rx'[e] = None
  BY <1>1, <1>2
<1>. QED  BY <1>3, <1>4, <1>5, <1>6

LEMMA GaveSeen ==
  ASSUME NEW e, delivered' = delivered, rx'[e] = rx[e] \/ rx'[e] = None
  PROVE  Gave(e)' = Gave(e) /\ Seen(e)' \subseteq Seen(e)
<1>1. Gave(e)' = Gave(e)
  BY DEF Gave
<1>. QED  BY <1>1 DEF Seen

\* A poll with the context t of d, which holds d's message or a new one.
LEMMA SendOrder ==
  ASSUME TypeOK, NEW d \in Device, NEW t \in TxContext \cup {None},
         \A e \in Device : e # d => tx'[e] = tx[e] /\ queue'[e] = queue[e],
         \A e \in Device : rx'[e] = rx[e] \/ rx'[e] = None,
         tx'[d] # None => t # None /\ tx'[d].msg = t.msg /\ tx'[d].id = t.id,
         \/ queue'[d] = queue[d]
         \/ queue'[d].kind = "ACK"
         \/ /\ t # None /\ queue'[d].kind = "DATA" /\ queue'[d].msg = t.msg
            /\ queue'[d].src = d /\ queue'[d].dst = To[t.msg] /\ queue'[d].id = t.id,
         UNCHANGED <<completed, onAir, deferred, delivered>>,
         started \subseteq started', \A m \in started : idOf'[m] = idOf[m],
         t # None => t.msg \in started' /\ From[t.msg] = d /\ idOf'[t.msg] = t.id,
         Origins, Lines, Cached, AtMostOnce,
         \A e \in Device : InLine(Seen(e), Waiting(e, d), Airing(d), Queued(d), Sent(t)),
         \A e \in Device : Sent(t) \cap Gave(e) \subseteq InHand(d)
  PROVE  Origins' /\ Lines' /\ Cached' /\ AtMostOnce'
<1>1. \A e \in Device : Gave(e)' = Gave(e) /\ Seen(e)' \subseteq Seen(e)
  BY GaveSeen
<1>2. \A e, c \in Device : Waiting(e, c)' = Waiting(e, c) /\ Airing(c)' = Airing(c)
  BY DEF Waiting, Airing
<1>3. \A c \in Device : c # d => Queued(c)' = Queued(c) /\ InHand(c)' = InHand(c)
  BY DEF Queued, InHand
<1>4. InHand(d)' \subseteq Sent(t)
  BY DEF InHand, Sent
<1>5. \/ Queued(d)' \subseteq Queued(d)
      \/ Queued(d)' = Sent(t)
      \/ Queued(d)' = {}
  <2>1. CASE queue'[d] = queue[d]
    BY <2>1 DEF Queued
  <2>2. CASE queue'[d].kind = "ACK"
    BY <2>2 DEF Queued, Held
  <2>3. CASE t # None /\ queue'[d].kind = "DATA" /\ queue'[d].msg = t.msg
    <3>1. CASE queue'[d] = None
      BY <3>1 DEF Queued, Held
    <3>2. CASE queue'[d] # None
      BY <2>3, <3>2 DEF Queued, Held, Sent
    <3>. QED  BY <3>1, <3>2
  <2>. QED  BY <2>1, <2>2, <2>3
<1>6. ASSUME NEW f, Named(f), f # None, f.kind = "DATA"
      PROVE  f.msg \in started' /\ f.src = From[f.msg] /\ f.dst = To[f.msg] /\ f.id = idOf'[f.msg]
  BY <1>6 DEF Named
<1>7. Lines'
  <2>. SUFFICES ASSUME NEW e \in Device, NEW c \in Device
                PROVE  InLine(Seen(e)', Waiting(e, c)', Airing(c)', Queued(c)', InHand(c)')
    BY DEF Lines
  <2>1. CASE c # d
    <3>1. InLine(Seen(e), Waiting(e, c), Airing(c), Queued(c), InHand(c))
      BY DEF Lines
    <3>. QED  BY <1>1, <1>2, <1>3, <2>1, <3>1, InLineKept
  <2>2. CASE c = d
    <3>1. InLine(Seen(e), Waiting(e, d), Airing(d), Queued(d), Sent(t))
      OBVIOUS
    <3>2. \A m, n \in Sent(t) : m = n
      BY Single
    <3>3. InLine(Seen(e), Waiting(e, d), Airing(d), Sent(t), InHand(d)')
      BY <1>4, <3>1, <3>2, InLineQueued
    <3>4. Seen(e)' \subseteq Seen(e) /\ Waiting(e, d)' = Waiting(e, d) /\ Airing(d)' = Airing(d)
      BY <1>1, <1>2
    <3>5. CASE Queued(d)' \subseteq Queued(d)
      BY <1>4, <2>2, <3>1, <3>4, <3>5, InLineKept
    <3>6. CASE Queued(d)' \subseteq Sent(t)
      BY <2>2, <3>3, <3>4, <3>6, InLineKept
    <3>. QED  BY <1>5, <3>5, <3>6
  <2>. QED  BY <2>1, <2>2
<1>8. Origins'
  <2>. SUFFICES ASSUME NEW e \in Device
                PROVE  /\ \A m \in Seen(e)' : m \in started' /\ For(m, e)
                       /\ Named(queue[e])' /\ Named(onAir[e])' /\ Named(deferred[e])'
                       /\ \A m \in Queued(e)' \cup Airing(e)' : From[m] = e
                       /\ \A m \in Held(deferred[e])' : From[m] # e
                       /\ tx'[e] # None =>
                            tx'[e].msg \in started' /\ From[tx'[e].msg] = e
                            /\ idOf'[tx'[e].msg] = tx'[e].id
    BY DEF Origins
  <2>1. /\ \A m \in Seen(e) : m \in started /\ For(m, e)
        /\ Named(queue[e]) /\ Named(onAir[e]) /\ Named(deferred[e])
        /\ \A m \in Queued(e) \cup Airing(e) : From[m] = e
        /\ \A m \in Held(deferred[e]) : From[m] # e
        /\ tx[e] # None =>
             tx[e].msg \in started /\ From[tx[e].msg] = e /\ idOf[tx[e].msg] = tx[e].id
    BY DEF Origins
  <2>2. \A m \in Seen(e)' : m \in started' /\ For(m, e)
    BY <1>1, <2>1
  <2>3. Named(onAir[e])' /\ Named(deferred[e])'
    BY <1>6, <2>1 DEF Named
  <2>4. \A m \in Held(deferred[e])' : From[m] # e
    BY <2>1
  <2>5. CASE e # d
    <3>1. Named(queue[e])'
      BY <1>6, <2>1, <2>5 DEF Named
    <3>2. \A m \in Queued(e)' \cup Airing(e)' : From[m] = e
      BY <1>2, <1>3, <2>1, <2>5
    <3>3. tx'[e] # None =>
            tx'[e].msg \in started' /\ From[tx'[e].msg] = e /\ idOf'[tx'[e].msg] = tx'[e].id
      BY <2>1, <2>5
    <3>. QED  BY <2>2, <2>3, <2>4, <3>1, <3>2, <3>3
  <2>6. CASE e = d
    <3>1. Named(queue[e])'
      <4>1. CASE queue'[d] = queue[d]
        BY <1>6, <2>1, <2>6, <4>1 DEF Named
      <4>2. CASE queue'[d].kind = "ACK"
        BY <2>6, <4>2 DEF Named
      <4>3. CASE /\ t # None /\ queue'[d].kind = "DATA" /\ queue'[d].msg = t.msg
                 /\ queue'[d].src = d /\ queue'[d].dst = To[t.msg] /\ queue'[d].id = t.id
        BY <2>6, <4>3 DEF Named
      <4>. QED  BY <4>1, <4>2, <4>3
    <3>2. \A m \in Sent(t) : From[m] = d
      BY DEF Sent
    <3>3. \A m \in Queued(e)' \cup Airing(e)' : From[m] = e
      BY <1>2, <1>5, <2>1, <2>6, <3>2
    <3>4. tx'[e] # None =>
            tx'[e].msg \in started' /\ From[tx'[e].msg] = e /\ idOf'[tx'[e].msg] = tx'[e].id
      BY <2>6
    <3>. QED  BY <2>2, <2>3, <2>4, <3>1, <3>3, <3>4
  <2>. QED  BY <2>5, <2>6
<1>9. Cached'
  <2>. SUFFICES ASSUME NEW e \in Device, NEW c \in Device,
                       NEW m \in Gave(e)' \cap (Waiting(e, c)' \cup Airing(c)' \cup Queued(c)' \cup InHand(c)'),
                       From[m] = c
                PROVE  /\ completed'[e] # None /\ completed'[e].src = From[m]
                       /\ completed'[e].dst = To[m] /\ completed'[e].id = idOf'[m]
    BY DEF Cached
  <2>1. m \in Gave(e) /\ m \in started
    BY <1>1 DEF Origins, Seen
  <2>2. m \in Waiting(e, c) \cup Airing(c) \cup Queued(c) \cup InHand(c)
    <3>1. CASE c # d
      BY <1>2, <1>3, <3>1
    <3>2. CASE c = d
      <4>1. Sent(t) \cap Gave(e) \subseteq InHand(d)
        OBVIOUS
      <4>. QED  BY <1>2, <1>4, <1>5, <2>1, <3>2, <4>1
    <3>. QED  BY <3>1, <3>2
  <2>3. /\ completed[e] # None /\ completed[e].src = From[m] /\ completed[e].dst = To[m]
        /\ completed[e].id = idOf[m]
    BY <2>1, <2>2 DEF Cached
  <2>. QED  BY <2>1, <2>3
<1>10. AtMostOnce'
  BY DEF AtMostOnce
<1>. QED  BY <1>7, <1>8, <1>9, <1>10

LEMMA PollOrder == ASSUME OrderInv, NEW d \in Device, Poll(d) PROVE OrderInv'
<1>1. PICK expired \in BOOLEAN : PollWith(d, tx[d], expired)
  BY DEF Poll
<1>2. UNCHANGED <<nextId, completed, onAir, deferred, reboots, started, idOf, heard, delivered>>
  BY DEF Poll
<1>3. TypeInv /\ TypeOK /\ Origins /\ Lines /\ Cached /\ AtMostOnce
  BY DEF OrderInv, TypeInv
<1>4. tx[d] \in TxContext \cup {None} /\ Fits(tx[d])
  BY <1>3 DEF TypeInv, TypeOK
<1>5. PICK t \in TxContext \cup {None} : t = tx[d]
  BY <1>4
<1>6. /\ \A e \in Device : e # d => tx'[e] = tx[e] /\ queue'[e] = queue[e]
      /\ \A e \in Device : rx'[e] = rx[e] \/ rx'[e] = None
      /\ tx'[d] # None => t # None /\ tx'[d].msg = t.msg /\ tx'[d].id = t.id
      /\ \/ queue'[d] = queue[d]
         \/ queue'[d].kind = "ACK"
         \/ /\ t # None /\ queue'[d].kind = "DATA" /\ queue'[d].msg = t.msg
            /\ queue'[d].src = d /\ queue'[d].dst = To[t.msg] /\ queue'[d].id = t.id
  BY <1>1, <1>3, <1>4, <1>5, PollMoves
<1>7. t # None => t.msg \in started' /\ From[t.msg] = d /\ idOf'[t.msg] = t.id
  BY <1>2, <1>3, <1>5 DEF Origins
<1>8. /\ \A e \in Device : InLine(Seen(e), Waiting(e, d), Airing(d), Queued(d), Sent(t))
      /\ \A e \in Device : Sent(t) \cap Gave(e) \subseteq InHand(d)
  BY <1>3, <1>5 DEF Lines, InHand
<1>9. Origins' /\ Lines' /\ Cached' /\ AtMostOnce'
  BY <1>2, <1>3, <1>6, <1>7, <1>8, SendOrder
<1>. QED  BY <1>3, <1>9, PollType DEF OrderInv

\* A message that was not started is nowhere.
LEMMA StartOrder ==
  ASSUME OrderInv, NEW d \in Device, NEW m \in Message, Start(d, m) PROVE OrderInv'
<1> DEFINE u == [msg |-> m, id |-> nextId[d], acked |-> {}, pending |-> All(Count[m]),
                 round |-> 0]
<1>1. PICK expired \in BOOLEAN : PollWith(d, u, expired)
  BY DEF Start
<1>2. /\ From[m] = d /\ m \notin started /\ tx[d] = None
      /\ started' = started \cup {m} /\ idOf' = [idOf EXCEPT ![m] = nextId[d]]
      /\ UNCHANGED <<completed, onAir, deferred, delivered>>
  BY DEF Start
<1>3. TypeInv /\ TypeOK /\ Origins /\ Lines /\ Cached /\ AtMostOnce
  BY DEF OrderInv, TypeInv
<1>4. /\ u \in TxContext /\ Fits(u) /\ u.acked = {} /\ u.pending # {} /\ u.msg = m
      /\ u.id = nextId[d]
  BY <1>3, StartContext
<1>. HIDE DEF u
<1>5. PICK t \in TxContext : t = u
  BY <1>4
<1>6. /\ \A e \in Device : e # d => tx'[e] = tx[e] /\ queue'[e] = queue[e]
      /\ \A e \in Device : rx'[e] = rx[e] \/ rx'[e] = None
      /\ tx'[d] # None => t # None /\ tx'[d].msg = t.msg /\ tx'[d].id = t.id
      /\ \/ queue'[d] = queue[d]
         \/ queue'[d].kind = "ACK"
         \/ /\ t # None /\ queue'[d].kind = "DATA" /\ queue'[d].msg = t.msg
            /\ queue'[d].src = d /\ queue'[d].dst = To[t.msg] /\ queue'[d].id = t.id
  BY <1>1, <1>2, <1>3, <1>4, <1>5, PollMoves
<1>7. idOf \in [Message -> Nat] /\ started \subseteq Message
  BY <1>3 DEF TypeOK
<1>8. /\ started \subseteq started' /\ \A n \in started : idOf'[n] = idOf[n]
      /\ t.msg \in started' /\ From[t.msg] = d /\ idOf'[t.msg] = t.id
  BY <1>2, <1>4, <1>5, <1>7
<1>9. ASSUME NEW e \in Device
      PROVE  /\ InLine(Seen(e), Waiting(e, d), Airing(d), Queued(d), Sent(t))
             /\ Sent(t) \cap Gave(e) \subseteq InHand(d)
  <2>1. m \notin Seen(e) /\ m \notin Gave(e)
    <3>1. m \notin Seen(e)
      BY <1>2, <1>3 DEF Origins
    <3>. QED  BY <3>1 DEF Seen
  <2>2. Named(deferred[e]) /\ Named(onAir[d]) /\ Named(queue[d])
    BY <1>3 DEF Origins
  <2>3. m \notin Waiting(e, d) /\ m \notin Airing(d) /\ m \notin Queued(d)
    BY <1>2, <2>2 DEF Waiting, Airing, Queued, Held, Named
  <2>4. InHand(d) = {}
    BY <1>2 DEF InHand, Sent
  <2>5. InLine(Seen(e), Waiting(e, d), Airing(d), Queued(d), {})
    BY <1>3, <2>4 DEF Lines
  <2>6. Sent(t) \subseteq {m}
    BY <1>4, <1>5 DEF Sent
  <2>7. InLine(Seen(e), Waiting(e, d), Airing(d), Queued(d), {m})
    BY <2>1, <2>3, <2>5, InLineStarted
  <2>8. InLine(Seen(e), Waiting(e, d), Airing(d), Queued(d), Sent(t))
    BY <2>6, <2>7, InLineKept
  <2>. QED  BY <2>1, <2>6, <2>8
<1>10. Origins' /\ Lines' /\ Cached' /\ AtMostOnce'
  BY <1>2, <1>3, <1>6, <1>8, <1>9, SendOrder
<1>. QED  BY <1>3, <1>10, StartType DEF OrderInv

LEMMA AdvOrder == ASSUME OrderInv, NEW d \in Device, AdvPoll(d), TypeInv' PROVE OrderInv'
<1>1. /\ onAir' = [onAir EXCEPT ![d] = queue[d]] /\ queue' = [queue EXCEPT ![d] = None]
      /\ UNCHANGED <<tx, rx, completed, deferred, started, idOf, delivered>>
  BY DEF AdvPoll, upper
<1>2. /\ onAir \in [Device -> Frame \cup {None}] /\ queue \in [Device -> Frame \cup {None}]
      /\ Origins /\ Lines /\ Cached /\ AtMostOnce
  BY DEF OrderInv, TypeInv, TypeOK
<1>3. /\ onAir'[d] = queue[d] /\ queue'[d] = None
      /\ \A e \in Device : e # d => onAir'[e] = onAir[e] /\ queue'[e] = queue[e]
  BY <1>1, <1>2
<1>4. /\ Airing(d)' = Queued(d) /\ Queued(d)' = {}
      /\ \A e \in Device : e # d => Airing(e)' = Airing(e) /\ Queued(e)' = Queued(e)
  BY <1>3 DEF Airing, Queued, Held
<1>5. \A e \in Device : Seen(e)' = Seen(e) /\ Gave(e)' = Gave(e) /\ InHand(e)' = InHand(e)
  BY <1>1 DEF Seen, Gave, InHand
<1>6. \A e, c \in Device : Waiting(e, c)' = Waiting(e, c)
  BY <1>1 DEF Waiting
<1>7. Lines'
  <2>. SUFFICES ASSUME NEW e \in Device, NEW c \in Device
                PROVE  InLine(Seen(e)', Waiting(e, c)', Airing(c)', Queued(c)', InHand(c)')
    BY DEF Lines
  <2>1. InLine(Seen(e), Waiting(e, c), Airing(c), Queued(c), InHand(c))
    BY <1>2 DEF Lines
  <2>2. CASE c = d
    <3>1. InLine(Seen(e), Waiting(e, d), Queued(d), {}, InHand(d))
      BY <2>1, <2>2, InLineAired
    <3>. QED  BY <1>4, <1>5, <1>6, <2>2, <3>1
  <2>3. CASE c # d
    BY <1>4, <1>5, <1>6, <2>1, <2>3
  <2>. QED  BY <2>2, <2>3
<1>8. Origins'
  <2>. SUFFICES ASSUME NEW e \in Device
                PROVE  /\ \A m \in Seen(e)' : m \in started' /\ For(m, e)
                       /\ Named(queue[e])' /\ Named(onAir[e])' /\ Named(deferred[e])'
                       /\ \A m \in Queued(e)' \cup Airing(e)' : From[m] = e
                       /\ \A m \in Held(deferred[e])' : From[m] # e
                       /\ tx'[e] # None =>
                            tx'[e].msg \in started' /\ From[tx'[e].msg] = e
                            /\ idOf'[tx'[e].msg] = tx'[e].id
    BY DEF Origins
  <2>1. /\ \A m \in Seen(e) : m \in started /\ For(m, e)
        /\ Named(queue[e]) /\ Named(onAir[e]) /\ Named(deferred[e])
        /\ \A m \in Queued(e) \cup Airing(e) : From[m] = e
        /\ \A m \in Held(deferred[e]) : From[m] # e
        /\ tx[e] # None =>
             tx[e].msg \in started /\ From[tx[e].msg] = e /\ idOf[tx[e].msg] = tx[e].id
    BY <1>2 DEF Origins
  <2>2. Named(queue[e])' /\ Named(onAir[e])' /\ Named(deferred[e])'
    BY <1>1, <1>3, <2>1 DEF Named
  <2>3. \A m \in Queued(e)' \cup Airing(e)' : From[m] = e
    BY <1>4, <2>1
  <2>. QED  BY <1>1, <1>5, <2>1, <2>2, <2>3
<1>9. Cached'
  <2>1. \A e, c \in Device :
          Waiting(e, c)' \cup Airing(c)' \cup Queued(c)' \cup InHand(c)'
            \subseteq Waiting(e, c) \cup Airing(c) \cup Queued(c) \cup InHand(c)
    BY <1>4, <1>5, <1>6
  <2>. QED  BY <1>1, <1>2, <1>5, <2>1 DEF Cached
<1>10. AtMostOnce'
  BY <1>1, <1>2 DEF AtMostOnce
<1>. QED  BY <1>7, <1>8, <1>9, <1>10 DEF OrderInv

LEMMA ReportOrder ==
  ASSUME OrderInv, NEW d \in Device, NEW e \in Device, OnReport(d, e), TypeInv' PROVE OrderInv'
<1>1. /\ d # e /\ deferred' = [deferred EXCEPT ![d] = onAir[e]]
      /\ UNCHANGED <<tx, rx, completed, queue, onAir, started, idOf, delivered>>
  BY DEF OnReport, upper
<1>2. /\ deferred \in [Device -> Frame \cup {None}]
      /\ Origins /\ Lines /\ Cached /\ AtMostOnce
  BY DEF OrderInv, TypeInv, TypeOK
<1>3. /\ deferred'[d] = onAir[e] /\ \A c \in Device : c # d => deferred'[c] = deferred[c]
  BY <1>1, <1>2
<1>4. \A c \in Device : /\ Seen(c)' = Seen(c) /\ Gave(c)' = Gave(c) /\ InHand(c)' = InHand(c)
                        /\ Airing(c)' = Airing(c) /\ Queued(c)' = Queued(c)
  BY <1>1 DEF Seen, Gave, InHand, Airing, Queued
<1>5. \A m \in Airing(e) : From[m] = e
  BY <1>2 DEF Origins
<1>6. \A c \in Device : /\ Waiting(d, c)' \subseteq Airing(c)
                        /\ \A h \in Device : h # d => Waiting(h, c)' = Waiting(h, c)
  <2>1. ASSUME NEW c \in Device, NEW m \in Waiting(d, c)' PROVE m \in Airing(c)
    <3>1. m \in Held(onAir[e]) /\ From[m] = c
      BY <1>3 DEF Waiting
    <3>2. c = e
      BY <1>5, <3>1 DEF Airing
    <3>. QED  BY <3>1, <3>2 DEF Airing
  <2>. QED  BY <1>3, <2>1 DEF Waiting
<1>7. Lines'
  <2>. SUFFICES ASSUME NEW h \in Device, NEW c \in Device
                PROVE  InLine(Seen(h)', Waiting(h, c)', Airing(c)', Queued(c)', InHand(c)')
    BY DEF Lines
  <2>1. InLine(Seen(h), Waiting(h, c), Airing(c), Queued(c), InHand(c))
    BY <1>2 DEF Lines
  <2>2. CASE h = d
    <3>1. \A m, n \in Airing(c) : m = n
      BY Single DEF Airing
    <3>2. Waiting(h, c)' \subseteq Airing(c)
      BY <1>6, <2>2
    <3>3. InLine(Seen(h), Waiting(h, c)', Airing(c), Queued(c), InHand(c))
      BY <2>1, <3>1, <3>2, InLineHeard
    <3>. QED  BY <1>4, <3>3
  <2>3. CASE h # d
    BY <1>4, <1>6, <2>1, <2>3
  <2>. QED  BY <2>2, <2>3
<1>8. Origins'
  <2>. SUFFICES ASSUME NEW c \in Device
                PROVE  /\ \A m \in Seen(c)' : m \in started' /\ For(m, c)
                       /\ Named(queue[c])' /\ Named(onAir[c])' /\ Named(deferred[c])'
                       /\ \A m \in Queued(c)' \cup Airing(c)' : From[m] = c
                       /\ \A m \in Held(deferred[c])' : From[m] # c
                       /\ tx'[c] # None =>
                            tx'[c].msg \in started' /\ From[tx'[c].msg] = c
                            /\ idOf'[tx'[c].msg] = tx'[c].id
    BY DEF Origins
  <2>1. /\ \A m \in Seen(c) : m \in started /\ For(m, c)
        /\ Named(queue[c]) /\ Named(onAir[c]) /\ Named(deferred[c])
        /\ \A m \in Queued(c) \cup Airing(c) : From[m] = c
        /\ \A m \in Held(deferred[c]) : From[m] # c
        /\ tx[c] # None =>
             tx[c].msg \in started /\ From[tx[c].msg] = c /\ idOf[tx[c].msg] = tx[c].id
        /\ Named(onAir[e])
    BY <1>2 DEF Origins
  <2>2. Named(queue[c])' /\ Named(onAir[c])' /\ Named(deferred[c])'
    BY <1>1, <1>3, <2>1 DEF Named
  <2>3. \A m \in Held(deferred[c])' : From[m] # c
    BY <1>1, <1>3, <1>5, <2>1 DEF Airing, Held
  <2>. QED  BY <1>1, <1>4, <2>1, <2>2, <2>3
<1>9. Cached'
  <2>1. \A h, c \in Device :
          Waiting(h, c)' \cup Airing(c)' \cup Queued(c)' \cup InHand(c)'
            \subseteq Waiting(h, c) \cup Airing(c) \cup Queued(c) \cup InHand(c)
    <3>. SUFFICES ASSUME NEW h \in Device, NEW c \in Device
         PROVE Waiting(h, c)' \cup Airing(c)' \cup Queued(c)' \cup InHand(c)'
                 \subseteq Waiting(h, c) \cup Airing(c) \cup Queued(c) \cup InHand(c)
      OBVIOUS
    <3>1. Waiting(h, c)' \subseteq Waiting(h, c) \cup Airing(c)
      BY <1>6
    <3>. QED  BY <1>4, <3>1
  <2>. QED  BY <1>1, <1>2, <1>4, <2>1 DEF Cached
<1>10. AtMostOnce'
  BY <1>1, <1>2 DEF AtMostOnce
<1>. QED  BY <1>7, <1>8, <1>9, <1>10 DEF OrderInv

\* The pendants that messages are meant for do not reset.
ReceiversStay == \A m \in Message, d \in Device : For(m, d) => d \notin Rebooting

LEMMA RebootOrder ==
  ASSUME OrderInv, ReceiversStay, NEW d \in Device, Reboot(d), TypeInv' PROVE OrderInv'
<1>1. /\ d \in Rebooting
      /\ tx' = [tx EXCEPT ![d] = None] /\ rx' = [rx EXCEPT ![d] = None]
      /\ completed' = [completed EXCEPT ![d] = None]
      /\ queue' = [queue EXCEPT ![d] = None] /\ onAir' = [onAir EXCEPT ![d] = None]
      /\ deferred' = [deferred EXCEPT ![d] = None]
      /\ UNCHANGED <<started, idOf, delivered>>
  BY DEF Reboot, upper
<1>2. TypeOK /\ Origins /\ Lines /\ Cached /\ AtMostOnce
  BY DEF OrderInv, TypeInv
<1>3. /\ tx'[d] = None /\ rx'[d] = None /\ queue'[d] = None /\ onAir'[d] = None
      /\ deferred'[d] = None
      /\ \A e \in Device : e # d =>
           /\ tx'[e] = tx[e] /\ rx'[e] = rx[e] /\ queue'[e] = queue[e] /\ onAir'[e] = onAir[e]
           /\ deferred'[e] = deferred[e] /\ completed'[e] = completed[e]
  BY <1>1, <1>2 DEF TypeOK
<1>4. \A e \in Device : Seen(e)' \subseteq Seen(e) /\ Gave(e)' = Gave(e)
  <2>1. \A e \in Device : rx'[e] = rx[e] \/ rx'[e] = None
    BY <1>3
  <2>. QED  BY <1>1, <2>1, GaveSeen
<1>5. Gave(d) = {}
  <2>1. \A m \in Gave(d) : m \in Message /\ For(m, d)
    BY <1>2 DEF Origins, Seen, Gave
  <2>. QED  BY <1>1, <2>1 DEF ReceiversStay
<1>6. \A e \in Device : /\ Airing(e)' \subseteq Airing(e) /\ Queued(e)' \subseteq Queued(e)
                        /\ InHand(e)' \subseteq InHand(e)
  BY <1>3 DEF Airing, Queued, InHand, Held, Sent
<1>7. \A e, c \in Device : Waiting(e, c)' \subseteq Waiting(e, c)
  BY <1>3 DEF Waiting, Held
<1>8. Lines'
  <2>. SUFFICES ASSUME NEW e \in Device, NEW c \in Device
                PROVE  InLine(Seen(e)', Waiting(e, c)', Airing(c)', Queued(c)', InHand(c)')
    BY DEF Lines
  <2>1. InLine(Seen(e), Waiting(e, c), Airing(c), Queued(c), InHand(c))
    BY <1>2 DEF Lines
  <2>2. /\ Seen(e)' \subseteq Seen(e) /\ Waiting(e, c)' \subseteq Waiting(e, c)
        /\ Airing(c)' \subseteq Airing(c) /\ Queued(c)' \subseteq Queued(c)
        /\ InHand(c)' \subseteq InHand(c)
    BY <1>4, <1>6, <1>7
  <2>. QED  BY <2>1, <2>2, InLineKept
<1>9. Origins'
  <2>. SUFFICES ASSUME NEW e \in Device
                PROVE  /\ \A m \in Seen(e)' : m \in started' /\ For(m, e)
                       /\ Named(queue[e])' /\ Named(onAir[e])' /\ Named(deferred[e])'
                       /\ \A m \in Queued(e)' \cup Airing(e)' : From[m] = e
                       /\ \A m \in Held(deferred[e])' : From[m] # e
                       /\ tx'[e] # None =>
                            tx'[e].msg \in started' /\ From[tx'[e].msg] = e
                            /\ idOf'[tx'[e].msg] = tx'[e].id
    BY DEF Origins
  <2>1. /\ \A m \in Seen(e) : m \in started /\ For(m, e)
        /\ Named(queue[e]) /\ Named(onAir[e]) /\ Named(deferred[e])
        /\ \A m \in Queued(e) \cup Airing(e) : From[m] = e
        /\ \A m \in Held(deferred[e]) : From[m] # e
        /\ tx[e] # None =>
             tx[e].msg \in started /\ From[tx[e].msg] = e /\ idOf[tx[e].msg] = tx[e].id
    BY <1>2 DEF Origins
  <2>2. Named(queue[e])' /\ Named(onAir[e])' /\ Named(deferred[e])'
    BY <1>1, <1>3, <2>1 DEF Named
  <2>3. \A m \in Held(deferred[e])' : From[m] # e
    BY <1>3, <2>1 DEF Held
  <2>. QED  BY <1>1, <1>3, <1>4, <1>6, <2>1, <2>2, <2>3
<1>10. Cached'
  <2>. SUFFICES ASSUME NEW e \in Device, NEW c \in Device,
                       NEW m \in Gave(e)' \cap (Waiting(e, c)' \cup Airing(c)' \cup Queued(c)' \cup InHand(c)'),
                       From[m] = c
                PROVE  /\ completed'[e] # None /\ completed'[e].src = From[m]
                       /\ completed'[e].dst = To[m] /\ completed'[e].id = idOf'[m]
    BY DEF Cached
  <2>1. e # d /\ m \in Gave(e) /\ m \in Waiting(e, c) \cup Airing(c) \cup Queued(c) \cup InHand(c)
    BY <1>4, <1>5, <1>6, <1>7
  <2>. QED  BY <1>1, <1>2, <1>3, <2>1 DEF Cached
<1>11. AtMostOnce'
  BY <1>1, <1>2 DEF AtMostOnce
<1>. QED  BY <1>8, <1>9, <1>10, <1>11 DEF OrderInv

\* A frame leaves the scanner; what else moves in the line, if anything, is
\* that a context closes or that a message is seen.
LEMMA HearOrder ==
  ASSUME TypeOK, NEW d \in Device, deferred' = [deferred EXCEPT ![d] = None],
         UNCHANGED <<queue, onAir, started, idOf>>,
         \A e \in Device :
           tx'[e] = None \/ (tx[e] # None /\ tx'[e].msg = tx[e].msg /\ tx'[e].id = tx[e].id),
         Origins, Lines,
         \A e \in Device : e # d => Seen(e)' \subseteq Seen(e),
         Seen(d)' \subseteq Seen(d) \cup {m \in Held(deferred[d]) : For(m, d)}
  PROVE  /\ Origins' /\ Lines'
         /\ \A e \in Device : /\ Airing(e)' = Airing(e) /\ Queued(e)' = Queued(e)
                              /\ InHand(e)' \subseteq InHand(e)
         /\ \A e, c \in Device : Waiting(e, c)' \subseteq Waiting(e, c)
         /\ \A c \in Device : Waiting(d, c)' = {}
<1>1. /\ deferred'[d] = None /\ \A e \in Device : e # d => deferred'[e] = deferred[e]
  BY DEF TypeOK
<1>2. /\ \A e, c \in Device : Waiting(e, c)' \subseteq Waiting(e, c)
      /\ \A c \in Device : Waiting(d, c)' = {}
  BY <1>1 DEF Waiting, Held
<1>3. \A e \in Device : /\ Airing(e)' = Airing(e) /\ Queued(e)' = Queued(e)
                        /\ InHand(e)' \subseteq InHand(e)
  BY DEF Airing, Queued, InHand, Sent
<1>4. Lines'
  <2>. SUFFICES ASSUME NEW e \in Device, NEW c \in Device
                PROVE  InLine(Seen(e)', Waiting(e, c)', Airing(c)', Queued(c)', InHand(c)')
    BY DEF Lines
  <2>1. InLine(Seen(e), Waiting(e, c), Airing(c), Queued(c), InHand(c))
    BY DEF Lines
  <2>2. CASE e # d
    BY <1>2, <1>3, <2>1, <2>2, InLineKept
  <2>3. CASE e = d
    <3>1. \A a \in Device : \A m \in Airing(a) \cup Queued(a) \cup InHand(a) : From[m] = a
      BY DEF Origins, InHand, Sent
    <3> DEFINE s2 == {m \in Seen(d)' : From[m] = c}
    <3>2. s2 \subseteq Seen(d) \cup Waiting(d, c)
      BY DEF Waiting
    <3>3. InLine(s2, {}, Airing(c), Queued(c), InHand(c))
      <4>. HIDE DEF s2
      <4>. QED  BY <2>1, <2>3, <3>2, InLineTaken
    <3>4. InLine(Seen(d)', {}, Airing(c), Queued(c), InHand(c))
      <4> DEFINE s == Seen(d)'
      <4>0. \A m \in s : From[m] = c => m \in s2
        OBVIOUS
      <4>1. \A m \in Airing(c) \cup Queued(c) \cup InHand(c) : From[m] = c
        BY <3>1
      <4>. HIDE DEF s, s2
      <4>2. /\ Between(s, Airing(c), Queued(c)) /\ Between(s, Airing(c), InHand(c))
            /\ Between(s, Queued(c), InHand(c))
        BY <3>3, <4>0, <4>1 DEF InLine, Between
      <4>3. \A a, b : Between(a, {}, b) /\ Between({}, a, b)
        BY DEF Between
      <4>4. Between(Airing(c), Queued(c), InHand(c))
        BY <3>3 DEF InLine
      <4>5. InLine(s, {}, Airing(c), Queued(c), InHand(c))
        BY <4>2, <4>3, <4>4 DEF InLine
      <4>. QED  BY <4>5 DEF s
    <3>. QED  BY <1>2, <1>3, <2>3, <3>4, InLineKept
  <2>. QED  BY <2>2, <2>3
<1>5. Origins'
  <2>. SUFFICES ASSUME NEW e \in Device
                PROVE  /\ \A m \in Seen(e)' : m \in started' /\ For(m, e)
                       /\ Named(queue[e])' /\ Named(onAir[e])' /\ Named(deferred[e])'
                       /\ \A m \in Queued(e)' \cup Airing(e)' : From[m] = e
                       /\ \A m \in Held(deferred[e])' : From[m] # e
                       /\ tx'[e] # None =>
                            tx'[e].msg \in started' /\ From[tx'[e].msg] = e
                            /\ idOf'[tx'[e].msg] = tx'[e].id
    BY DEF Origins
  <2>1. /\ \A m \in Seen(e) : m \in started /\ For(m, e)
        /\ Named(queue[e]) /\ Named(onAir[e]) /\ Named(deferred[e])
        /\ \A m \in Queued(e) \cup Airing(e) : From[m] = e
        /\ \A m \in Held(deferred[e]) : From[m] # e
        /\ tx[e] # None =>
             tx[e].msg \in started /\ From[tx[e].msg] = e /\ idOf[tx[e].msg] = tx[e].id
        /\ Named(deferred[d])
    BY DEF Origins
  <2>2. Named(queue[e])' /\ Named(onAir[e])' /\ Named(deferred[e])'
    BY <1>1, <2>1 DEF Named
  <2>3. \A m \in Held(deferred[e])' : From[m] # e
    BY <1>1, <2>1 DEF Held
  <2>4. \A m \in Held(deferred[d]) : m \in started
    BY <2>1 DEF Held, Named
  <2>5. \A m \in Seen(e)' : m \in started' /\ For(m, e)
    BY <2>1, <2>4
  <2>6. tx'[e] # None =>
          tx'[e].msg \in started' /\ From[tx'[e].msg] = e /\ idOf'[tx'[e].msg] = tx'[e].id
    BY <2>1
  <2>. QED  BY <1>3, <2>1, <2>2, <2>3, <2>5, <2>6
<1>. QED  BY <1>2, <1>3, <1>4, <1>5

\* Each pendant is meant to hear the messages of one other pendant.
OneSource == \A d \in Device, m, n \in Message : For(m, d) /\ For(n, d) => From[m] = From[n]

\* What taking the data frame f in the context r shows and hands up.
LEMMA AcceptSeen ==
  ASSUME TypeOK, NEW d \in Device, NEW f \in DataFrame, NEW r \in RxContext, Accepts(d, f, r)
  PROVE  /\ Seen(d)' \subseteq Seen(d) \cup {f.msg}
         /\ \A e \in Device : e # d => Seen(e)' = Seen(e) /\ Gave(e)' = Gave(e)
                                       /\ completed'[e] = completed[e]
         /\ \A e \in Device : e # d => delivered'[e] = delivered[e]
         /\ \/ delivered'[d] = delivered[d] /\ completed'[d] = completed[d] /\ Gave(d)' = Gave(d)
            \/ /\ completed'[d] \in Completed /\ SameMessage(completed'[d], f)
               /\ \E b \in Buffer : /\ delivered'[d] = Append(delivered[d], b)
                                    /\ \E i \in DOMAIN b : b[i] = f.msg
<1> DEFINE got == Filled(r, f)
<1>1. /\ rx \in [Device -> RxContext \cup {None}] /\ delivered \in [Device -> Seq(Buffer)]
      /\ completed \in [Device -> Completed \cup {None}]
  BY DEF TypeOK
<1>2. /\ \/ rx[d] = None /\ r = Fresh(f)
         \/ rx[d] # None /\ r = rx[d]
      /\ SameMessage(r, f)
  BY DEF Accepts
<1>3. \/ /\ completed' = [completed EXCEPT ![d] =
              [src |-> r.src, dst |-> r.dst, id |-> r.id, lastDup |-> None]]
         /\ delivered' = [delivered EXCEPT ![d] = Append(@, got)]
         /\ rx' = [rx EXCEPT ![d] = None]
      \/ /\ rx' = [rx EXCEPT ![d] = [r EXCEPT !.got = got]]
         /\ UNCHANGED <<completed, delivered>>
  BY AcceptFacts
<1>4. /\ got \in Buffer /\ DOMAIN got = DOMAIN r.got \cup {f.index} /\ got[f.index] = f.msg
      /\ \A i \in DOMAIN r.got : i # f.index => got[i] = r.got[i]
  <2>1. r.got \in Buffer
    BY DEF RxContext
  <2>. QED  BY <2>1, FilledType
<1>. HIDE DEF got
<1>5. ASSUME NEW m \in Message, NEW i \in DOMAIN got, got[i] = m
      PROVE  m \in Seen(d) \cup {f.msg}
  <2>1. CASE i = f.index
    BY <1>4, <1>5, <2>1
  <2>2. CASE i # f.index
    <3>1. i \in DOMAIN r.got /\ r.got[i] = m
      BY <1>4, <1>5, <2>2
    <3>2. r # Fresh(f)
      BY <3>1, NothingGot DEF Fresh
    <3>. QED  BY <1>2, <3>1, <3>2 DEF Seen
  <2>. QED  BY <2>1, <2>2
<1>6. \A e \in Device : e # d => Seen(e)' = Seen(e) /\ Gave(e)' = Gave(e)
                                 /\ completed'[e] = completed[e] /\ delivered'[e] = delivered[e]
  <2>. SUFFICES ASSUME NEW e \in Device, e # d
                PROVE  /\ Seen(e)' = Seen(e) /\ Gave(e)' = Gave(e)
                       /\ completed'[e] = completed[e] /\ delivered'[e] = delivered[e]
    OBVIOUS
  <2>1. completed'[e] = completed[e] /\ delivered'[e] = delivered[e] /\ rx'[e] = rx[e]
    BY <1>1, <1>3
  <2>. QED  BY <2>1 DEF Seen, Gave
<1>7. CASE /\ rx' = [rx EXCEPT ![d] = [r EXCEPT !.got = got]]
           /\ UNCHANGED <<completed, delivered>>
  <2>1. Gave(d)' = Gave(d)
    BY <1>7 DEF Gave
  <2>2. rx'[d].got = got
    <3>1. rx'[d] = [r EXCEPT !.got = got]
      BY <1>1, <1>7
    <3>. QED  BY <3>1 DEF RxContext
  <2>3. Seen(d)' \subseteq Seen(d) \cup {f.msg}
    BY <1>5, <2>1, <2>2 DEF Seen
  <2>. QED  BY <1>6, <1>7, <2>1, <2>3
<1>8. CASE /\ completed' = [completed EXCEPT ![d] =
                [src |-> r.src, dst |-> r.dst, id |-> r.id, lastDup |-> None]]
           /\ delivered' = [delivered EXCEPT ![d] = Append(@, got)]
           /\ rx' = [rx EXCEPT ![d] = None]
  <2>1. /\ completed'[d] = [src |-> r.src, dst |-> r.dst, id |-> r.id, lastDup |-> None]
        /\ delivered'[d] = Append(delivered[d], got) /\ rx'[d] = None
        /\ delivered[d] \in Seq(Buffer)
    BY <1>1, <1>8
  <2>2. completed'[d] \in Completed /\ SameMessage(completed'[d], f)
    BY <1>2, <2>1 DEF Completed, RxContext, SameMessage
  <2>3. /\ DOMAIN delivered'[d] = DOMAIN delivered[d] \cup {Len(delivered[d]) + 1}
        /\ \A k \in DOMAIN delivered[d] : delivered'[d][k] = delivered[d][k]
        /\ delivered'[d][Len(delivered[d]) + 1] = got
    BY <1>4, <2>1, AppendFacts
  <2>4. ASSUME NEW m \in Seen(d)' PROVE m \in Seen(d) \cup {f.msg}
    <3>1. \E k \in DOMAIN delivered'[d] : \E i \in DOMAIN delivered'[d][k] :
            m \in Message /\ delivered'[d][k][i] = m
      BY <2>1 DEF Seen, Gave
    <3>. PICK k \in DOMAIN delivered'[d] :
           \E i \in DOMAIN delivered'[d][k] : m \in Message /\ delivered'[d][k][i] = m
      BY <3>1
    <3>2. CASE k \in DOMAIN delivered[d]
      BY <2>3, <3>1, <3>2 DEF Seen, Gave
    <3>3. CASE k = Len(delivered[d]) + 1
      BY <1>5, <2>3, <3>1, <3>3
    <3>. QED  BY <2>3, <3>2, <3>3
  <2>5. \E b \in Buffer : /\ delivered'[d] = Append(delivered[d], b)
                          /\ \E i \in DOMAIN b : b[i] = f.msg
    BY <1>4, <2>1
  <2>. QED  BY <1>6, <2>2, <2>4, <2>5
<1>. QED  BY <1>3, <1>7, <1>8

\* The cached message is the only one that can be both handed up and to come.
LEMMA AcceptOrder ==
  ASSUME OrderInv, OneSource, NEW d \in Device, NEW f \in DataFrame, NEW r \in RxContext,
         Accepts(d, f, r), f # None, f = deferred[d],
         deferred' = [deferred EXCEPT ![d] = None],
         UNCHANGED <<queue, onAir, started, idOf, tx>>, TypeInv'
  PROVE  OrderInv'
<1>1. TypeOK /\ Origins /\ Lines /\ Cached /\ AtMostOnce
  BY DEF OrderInv, TypeInv
<1>2. PICK m \in Message : m = f.msg
  BY DEF DataFrame
<1>3. /\ f.dst \in {d, Broadcast} /\ ~(completed[d] # None /\ SameMessage(completed[d], f))
  BY DEF Accepts
<1>4. /\ Held(deferred[d]) = {m} /\ f.src = From[m] /\ f.dst = To[m] /\ f.id = idOf[m]
      /\ From[m] # d
  <2>1. f.kind = "DATA"
    BY DEF DataFrame
  <2>2. Held(deferred[d]) = {m}
    BY <1>2, <2>1 DEF Held
  <2>3. Named(deferred[d]) /\ From[m] # d
    BY <1>1, <2>2 DEF Origins
  <2>. QED  BY <1>2, <2>1, <2>2, <2>3 DEF Named
<1>5. For(m, d)
  BY <1>3, <1>4 DEF For
<1>6. PICK c \in Device : c = From[m]
  BY Bounds
<1>7. /\ Seen(d)' \subseteq Seen(d) \cup {m}
      /\ \A e \in Device : e # d => /\ Seen(e)' = Seen(e) /\ Gave(e)' = Gave(e)
                                    /\ completed'[e] = completed[e]
      /\ \A e \in Device : e # d => delivered'[e] = delivered[e]
      /\ \/ delivered'[d] = delivered[d] /\ completed'[d] = completed[d] /\ Gave(d)' = Gave(d)
         \/ /\ completed'[d] \in Completed /\ SameMessage(completed'[d], f)
            /\ \E b \in Buffer : /\ delivered'[d] = Append(delivered[d], b)
                                 /\ \E i \in DOMAIN b : b[i] = m
  BY <1>1, <1>2, AcceptSeen
<1>8. \A e \in Device :
        tx'[e] = None \/ (tx[e] # None /\ tx'[e].msg = tx[e].msg /\ tx'[e].id = tx[e].id)
  OBVIOUS
<1>9. /\ Origins' /\ Lines'
      /\ \A e \in Device : /\ Airing(e)' = Airing(e) /\ Queued(e)' = Queued(e)
                           /\ InHand(e)' \subseteq InHand(e)
      /\ \A e, h \in Device : Waiting(e, h)' \subseteq Waiting(e, h)
      /\ \A h \in Device : Waiting(d, h)' = {}
  <2>1. /\ \A e \in Device : e # d => Seen(e)' \subseteq Seen(e)
        /\ Seen(d)' \subseteq Seen(d) \cup {n \in Held(deferred[d]) : For(n, d)}
    BY <1>4, <1>5, <1>7
  <2>. QED  BY <1>1, <1>8, <2>1, HearOrder
<1>10. m \in Waiting(d, c)
  BY <1>4, <1>6 DEF Waiting
<1>11. m \notin Gave(d)
  <2>. SUFFICES ASSUME m \in Gave(d) PROVE FALSE
    OBVIOUS
  <2>1. /\ completed[d] # None /\ completed[d].src = From[m] /\ completed[d].dst = To[m]
        /\ completed[d].id = idOf[m]
    BY <1>1, <1>6, <1>10 DEF Cached
  <2>. QED  BY <1>3, <1>4, <2>1 DEF SameMessage
<1>12. Cached'
  <2>. SUFFICES ASSUME NEW e \in Device, NEW h \in Device,
                       NEW n \in Gave(e)' \cap (Waiting(e, h)' \cup Airing(h)' \cup Queued(h)' \cup InHand(h)'),
                       From[n] = h
                PROVE  /\ completed'[e] # None /\ completed'[e].src = From[n]
                       /\ completed'[e].dst = To[n] /\ completed'[e].id = idOf'[n]
    BY DEF Cached
  <2>1. n \in Waiting(e, h) \cup Airing(h) \cup Queued(h) \cup InHand(h)
    BY <1>9
  <2>2. CASE n \in Gave(e) /\ completed'[e] = completed[e]
    BY <1>1, <2>1, <2>2 DEF Cached
  <2>3. CASE e = d /\ completed'[d] \in Completed /\ SameMessage(completed'[d], f)
    <3>1. n = m
      <4>. SUFFICES ASSUME n # m PROVE FALSE
        OBVIOUS
      <4>1. n \in Message /\ n \in Seen(d)
        BY <1>7, <2>3 DEF Gave, Seen
      <4>2. For(n, d)
        BY <1>1, <4>1 DEF Origins
      <4>3. h = c
        BY <1>5, <1>6, <4>1, <4>2 DEF OneSource
      <4>4. n \in Airing(c) \cup Queued(c) \cup InHand(c)
        BY <1>9, <2>3, <4>3
      <4>5. InLine(Seen(d), Waiting(d, c), Airing(c), Queued(c), InHand(c))
        BY <1>1 DEF Lines
      <4>6. Waiting(d, c) \subseteq {n}
        BY <4>1, <4>4, <4>5 DEF InLine, Between
      <4>. QED  BY <1>10, <4>6
    <3>2. completed'[d] # None
      BY <2>3, NoneAssumption
    <3>. QED  BY <1>4, <2>3, <3>1, <3>2 DEF SameMessage
  <2>. QED  BY <1>7, <2>2, <2>3
<1>13. AtMostOnce'
  <2>. SUFFICES ASSUME NEW e \in Device, NEW j \in DOMAIN delivered'[e],
                       NEW k \in DOMAIN delivered'[e], j # k
                PROVE  delivered'[e][j] # delivered'[e][k]
    BY DEF AtMostOnce
  <2>1. CASE delivered'[e] = delivered[e]
    BY <1>1, <2>1 DEF AtMostOnce
  <2>2. CASE e = d /\ \E b \in Buffer : /\ delivered'[d] = Append(delivered[d], b)
                                        /\ \E i \in DOMAIN b : b[i] = m
    <3>1. PICK b \in Buffer :
            delivered'[d] = Append(delivered[d], b) /\ \E i \in DOMAIN b : b[i] = m
      BY <2>2
    <3>2. delivered[d] \in Seq(Buffer)
      BY <1>1 DEF TypeOK
    <3>3. PICK new : /\ DOMAIN delivered'[d] = DOMAIN delivered[d] \cup {new}
                     /\ \A q \in DOMAIN delivered[d] : delivered'[d][q] = delivered[d][q]
                     /\ delivered'[d][new] = b
      BY <3>1, <3>2, AppendFacts
    <3>4. \A q \in DOMAIN delivered[d] : delivered[d][q] # b
      BY <1>11, <3>1 DEF Gave
    <3>5. CASE j \in DOMAIN delivered[d] /\ k \in DOMAIN delivered[d]
      BY <1>1, <2>2, <3>3, <3>5 DEF AtMostOnce
    <3>6. CASE ~(j \in DOMAIN delivered[d] /\ k \in DOMAIN delivered[d])
      BY <2>2, <3>3, <3>4, <3>6
    <3>. QED  BY <3>5, <3>6
  <2>. QED  BY <1>7, <2>1, <2>2
<1>. QED  BY <1>9, <1>12, <1>13 DEF OrderInv

LEMMA ScanOrder ==
  ASSUME OrderInv, OneSource, NEW d \in Device, ScanPoll(d), TypeInv' PROVE OrderInv'
<1>1. PICK f : f = deferred[d]
  OBVIOUS
<1>2. /\ f \in Frame /\ f # None
      /\ \/ f.kind = "ACK" /\ HandleAck(d, f)
         \/ f.kind = "DATA" /\ HandleData(d, f)
      /\ deferred' = [deferred EXCEPT ![d] = None]
      /\ UNCHANGED <<queue, onAir, started, idOf>>
  BY <1>1 DEF ScanPoll, OrderInv, TypeInv, TypeOK
<1>3. TypeOK /\ Origins /\ Lines /\ Cached /\ AtMostOnce
  BY DEF OrderInv, TypeInv
<1>4. ASSUME UNCHANGED <<rx, delivered>>,
             \A e \in Device :
               tx'[e] = None \/ (tx[e] # None /\ tx'[e].msg = tx[e].msg /\ tx'[e].id = tx[e].id),
             \A e \in Device : completed[e] # None =>
               completed'[e] # None /\ SameMessage(completed'[e], completed[e])
      PROVE  OrderInv'
  <2>1. \A e \in Device : Seen(e)' = Seen(e) /\ Gave(e)' = Gave(e)
    BY <1>4 DEF Seen, Gave
  <2>2. /\ Origins' /\ Lines'
        /\ \A e \in Device : /\ Airing(e)' = Airing(e) /\ Queued(e)' = Queued(e)
                             /\ InHand(e)' \subseteq InHand(e)
        /\ \A e, h \in Device : Waiting(e, h)' \subseteq Waiting(e, h)
    <3>1. /\ \A e \in Device : e # d => Seen(e)' \subseteq Seen(e)
          /\ Seen(d)' \subseteq Seen(d) \cup {n \in Held(deferred[d]) : For(n, d)}
      BY <2>1
    <3>. QED  BY <1>2, <1>3, <1>4, <3>1, HearOrder
  <2>3. Cached'
    <3>. SUFFICES ASSUME NEW e \in Device, NEW h \in Device,
                         NEW n \in Gave(e)' \cap (Waiting(e, h)' \cup Airing(h)' \cup Queued(h)' \cup InHand(h)'),
                         From[n] = h
                  PROVE  /\ completed'[e] # None /\ completed'[e].src = From[n]
                         /\ completed'[e].dst = To[n] /\ completed'[e].id = idOf'[n]
      BY DEF Cached
    <3>1. n \in Gave(e) /\ n \in Waiting(e, h) \cup Airing(h) \cup Queued(h) \cup InHand(h)
      BY <2>1, <2>2
    <3>2. /\ completed[e] # None /\ completed[e].src = From[n] /\ completed[e].dst = To[n]
          /\ completed[e].id = idOf[n]
      BY <1>3, <3>1 DEF Cached
    <3>3. completed'[e] # None /\ SameMessage(completed'[e], completed[e])
      BY <1>4, <3>2
    <3>. QED  BY <1>2, <3>2, <3>3 DEF SameMessage
  <2>4. AtMostOnce'
    BY <1>3, <1>4 DEF AtMostOnce
  <2>. QED  BY <2>2, <2>3, <2>4 DEF OrderInv
<1>5. CASE f.kind = "ACK" /\ HandleAck(d, f)
  <2>1. f \in AckFrame
    BY <1>2, <1>5 DEF Frame, DataFrame
  <2>2. /\ UNCHANGED <<rx, completed, ack, heard, delivered>>
        /\ \/ tx' = tx
           \/ tx' = [tx EXCEPT ![d] = None]
           \/ /\ tx[d] # None
              /\ \E b \in TxContext :
                   tx' = [tx EXCEPT ![d] = b] /\ b.msg = tx[d].msg /\ b.id = tx[d].id
    BY <1>3, <1>5, <2>1, AckFacts DEF Matches
  <2>3. tx \in [Device -> TxContext \cup {None}]
    BY <1>3 DEF TypeOK
  <2>4. \A e \in Device :
          tx'[e] = None \/ (tx[e] # None /\ tx'[e].msg = tx[e].msg /\ tx'[e].id = tx[e].id)
    BY <2>2, <2>3
  <2>. QED  BY <1>4, <2>2, <2>4 DEF SameMessage
<1>6. CASE f.kind = "DATA" /\ HandleData(d, f)
  <2>1. f \in DataFrame
    BY <1>2, <1>6 DEF Frame, AckFrame
  <2>2. /\ UNCHANGED tx
        /\ \/ UNCHANGED <<rx, completed, delivered>>
           \/ Answers(d, f)
           \/ \E r \in RxContext : Accepts(d, f, r)
    BY <1>3, <1>6, <2>1, DataFacts
  <2>3. \A e \in Device :
          tx'[e] = None \/ (tx[e] # None /\ tx'[e].msg = tx[e].msg /\ tx'[e].id = tx[e].id)
    BY <2>2
  <2>4. CASE UNCHANGED <<rx, completed, delivered>>
    BY <1>4, <2>3, <2>4 DEF SameMessage
  <2>5. CASE Answers(d, f)
    <3>1. /\ UNCHANGED <<rx, delivered>>
          /\ \/ completed' = completed
             \/ completed[d] # None /\ completed' = [completed EXCEPT ![d].lastDup = f.seq]
      BY <2>5 DEF Answers
    <3>2. completed' \in [Device -> Completed \cup {None}]
          /\ completed \in [Device -> Completed \cup {None}] /\ f.seq \in Seq4Frame
      BY <1>3, <2>1 DEF TypeInv, TypeOK, DataFrame
    <3>3. ASSUME NEW e \in Device, completed[e] # None
          PROVE  completed'[e] # None /\ SameMessage(completed'[e], completed[e])
      <4>1. CASE completed'[e] = completed[e]
        BY <3>3, <4>1 DEF SameMessage
      <4>2. CASE e = d /\ completed' = [completed EXCEPT ![d].lastDup = f.seq]
        <5>1. completed'[d] = [completed[d] EXCEPT !.lastDup = f.seq] /\ completed[d] \in Completed
          BY <3>2, <3>3, <4>2
        <5>2. completed'[d] \in Completed /\ SameMessage(completed'[d], completed[d])
          BY <3>2, <5>1 DEF Completed, SameMessage
        <5>. QED  BY <4>2, <5>2, NoneAssumption
      <4>. QED  BY <3>1, <3>2, <4>1, <4>2
    <3>. QED  BY <1>4, <2>3, <3>1, <3>3
  <2>6. CASE \E r \in RxContext : Accepts(d, f, r)
    BY <1>1, <1>2, <2>1, <2>2, <2>6, AcceptOrder
  <2>. QED  BY <2>2, <2>4, <2>5, <2>6
<1>. QED  BY <1>2, <1>5, <1>6

LEMMA InitOrder == Init => OrderInv
<1>. SUFFICES ASSUME Init PROVE OrderInv
  OBVIOUS
<1>1. \A d \in Device : /\ tx[d] = None /\ rx[d] = None /\ queue[d] = None /\ onAir[d] = None
                        /\ deferred[d] = None /\ delivered[d] = << >>
  BY DEF Init
<1>2. \A d \in Device : DOMAIN delivered[d] = {}
  BY <1>1, NothingGot
<1>3. \A d \in Device : Gave(d) = {} /\ Seen(d) = {}
  <2>1. \A d \in Device : Gave(d) = {}
    BY <1>2 DEF Gave
  <2>. QED  BY <1>1, <2>1 DEF Seen
<1>4. \A d, e \in Device : /\ Waiting(d, e) = {} /\ Airing(e) = {} /\ Queued(e) = {}
                           /\ InHand(e) = {}
  BY <1>1 DEF Waiting, Airing, Queued, InHand, Held, Sent
<1>5. Lines
  <2>1. InLine({}, {}, {}, {}, {})
    BY DEF InLine, Between
  <2>. QED  BY <1>3, <1>4, <2>1 DEF Lines
<1>6. Origins
  BY <1>1, <1>3, <1>4 DEF Origins, Named, Held
<1>7. Cached
  BY <1>3 DEF Cached
<1>8. AtMostOnce
  BY <1>2 DEF AtMostOnce
<1>. QED  BY <1>5, <1>6, <1>7, <1>8, InitType DEF OrderInv

LEMMA OrderStep == ReceiversStay /\ OneSource /\ OrderInv /\ [Next]_vars => OrderInv'
<1>. SUFFICES ASSUME ReceiversStay, OneSource, OrderInv, [Next]_vars PROVE OrderInv'
  OBVIOUS
<1>0. TypeInv'
  BY TypeStep DEF OrderInv
<1>1. CASE UNCHANGED vars
  <2>1. UNCHANGED <<tx, rx, completed, queue, onAir, deferred, started, idOf, delivered>>
    BY <1>1 DEF vars, radio, upper
  <2>2. \A d \in Device : Seen(d)' = Seen(d) /\ Gave(d)' = Gave(d)
    BY <2>1 DEF Seen, Gave
  <2>3. \A d, e \in Device : /\ Waiting(d, e)' = Waiting(d, e) /\ Airing(e)' = Airing(e)
                             /\ Queued(e)' = Queued(e) /\ InHand(e)' = InHand(e)
    BY <2>1 DEF Waiting, Airing, Queued, InHand
  <2>4. Lines' /\ Cached' /\ AtMostOnce'
    BY <2>1, <2>2, <2>3 DEF OrderInv, Lines, Cached, AtMostOnce
  <2>5. Origins'
    BY <2>1, <2>2, <2>3 DEF OrderInv, Origins, Named
  <2>. QED  BY <1>0, <2>4, <2>5 DEF OrderInv
<1>. QED  BY <1>0, <1>1, PollOrder, StartOrder, AdvOrder, ReportOrder, ScanOrder, RebootOrder
          DEF Next

\* The inductive invariant: between a sender and a pendant, the messages wait
\* in the order they were started, none is heard again once a later one was,
\* and one that was handed up and may come again is the cached one.
THEOREM OrderInvariance ==
  ASSUME ReceiversStay, OneSource
  PROVE  Spec => []OrderInv
BY ReceiversStay, OneSource, InitOrder, OrderStep, PTL DEF Spec

\* No message is handed up twice, even if its sender resets and reuses ids:
\* one entry is enough of a completed cache for one sender
\* (app_peer_transport.c:265-306).
THEOREM HandedUpOnce ==
  ASSUME ReceiversStay, OneSource
  PROVE  Spec => []AtMostOnce
<1>1. OrderInv => AtMostOnce
  BY DEF OrderInv
<1>. QED  BY <1>1, OrderInvariance, PTL

-----------------------------------------------------------------------------
(* The promise, while no pendant resets.                                    *)

\* A reliable message has one fragment: what is heard of it is handed up.
OneFragment == \A m \in Message : Reliable[m] => Count[m] = 1

NotAfter(i, b, c) == \A m \in b, n \in c : From[m] = From[n] => m = n \/ i[m] < i[n]

\* The ids i of a sender's messages increase along the line.
InOrder(i, s, w, x, y, z) ==
  /\ NotAfter(i, s, w \cup x \cup y \cup z) /\ NotAfter(i, w, x \cup y \cup z)
  /\ NotAfter(i, x, y \cup z) /\ NotAfter(i, y, z)

Sorted ==
  \A d, e \in Device :
    InOrder(idOf, Seen(d), Waiting(d, e), Airing(e), Queued(e), InHand(e))

StartedBy(d) == {m \in started : From[m] = d}

Counted == \A d \in Device : nextId[d] = Cardinality(StartedBy(d)) + 1

\* A message in hand, or not yet started, has had no report.
Untold ==
  /\ \A m \in Message : m \notin started => outcome[m] = "none"
  /\ \A d \in Device : tx[d] # None => outcome[tx[d].msg] = "none"

HandedAtOnce == \A m \in Message : Reliable[m] /\ heard[m] # {} => Handed(Past, To[m], m)

PromiseInv == Sorted /\ Counted /\ Untold /\ HandedAtOnce

LEMMA InOrderKept ==
  ASSUME NEW i, NEW s, NEW w, NEW x, NEW y, NEW z, InOrder(i, s, w, x, y, z),
         NEW s2, NEW w2, NEW x2, NEW y2, NEW z2,
         s2 \subseteq s, w2 \subseteq w, x2 \subseteq x, y2 \subseteq y, z2 \subseteq z
  PROVE  InOrder(i, s2, w2, x2, y2, z2)
<1>1. ASSUME NEW b, NEW c, NotAfter(i, b, c), NEW b2, NEW c2, b2 \subseteq b, c2 \subseteq c
      PROVE  NotAfter(i, b2, c2)
  BY <1>1 DEF NotAfter
<1>2. /\ NotAfter(i, s2, w2 \cup x2 \cup y2 \cup z2) /\ NotAfter(i, w2, x2 \cup y2 \cup z2)
      /\ NotAfter(i, x2, y2 \cup z2) /\ NotAfter(i, y2, z2)
  <2>1. NotAfter(i, s2, w2 \cup x2 \cup y2 \cup z2)
    BY <1>1 DEF InOrder
  <2>2. NotAfter(i, w2, x2 \cup y2 \cup z2)
    BY <1>1 DEF InOrder
  <2>3. NotAfter(i, x2, y2 \cup z2) /\ NotAfter(i, y2, z2)
    BY <1>1 DEF InOrder
  <2>. QED  BY <2>1, <2>2, <2>3
<1>. QED  BY <1>2 DEF InOrder

LEMMA InOrderAired ==
  ASSUME NEW i, NEW s, NEW w, NEW x, NEW y, NEW z, InOrder(i, s, w, x, y, z)
  PROVE  InOrder(i, s, w, y, {}, z)
BY DEF InOrder, NotAfter

LEMMA InOrderHeard ==
  ASSUME NEW i, NEW s, NEW w, NEW x, NEW y, NEW z, InOrder(i, s, w, x, y, z),
         \A m, n \in x : m = n, NEW w2, w2 \subseteq x
  PROVE  InOrder(i, s, w2, x, y, z)
BY DEF InOrder, NotAfter

LEMMA InOrderQueued ==
  ASSUME NEW i, NEW s, NEW w, NEW x, NEW y, NEW z, InOrder(i, s, w, x, y, z),
         \A m, n \in z : m = n, NEW z2, z2 \subseteq z
  PROVE  InOrder(i, s, w, x, z, z2)
BY DEF InOrder, NotAfter

LEMMA InOrderTaken ==
  ASSUME NEW i, NEW s, NEW w, NEW x, NEW y, NEW z, InOrder(i, s, w, x, y, z),
         NEW e, \A n \in x \cup y \cup z : From[n] = e,
         NEW s2, \A m \in s2 : m \in s \/ m \in w \/ From[m] # e
  PROVE  InOrder(i, s2, {}, x, y, z)
<1>1. NotAfter(i, s2, {} \cup x \cup y \cup z)
  BY DEF InOrder, NotAfter
<1>. QED  BY <1>1 DEF InOrder, NotAfter

LEMMA InOrderStarted ==
  ASSUME NEW i, NEW s, NEW w, NEW x, NEW y, InOrder(i, s, w, x, y, {}), NEW i2,
         \A n \in s \cup w \cup x \cup y : i2[n] = i[n],
         NEW m, \A n \in s \cup w \cup x \cup y : From[n] = From[m] => i2[n] < i2[m]
  PROVE  InOrder(i2, s, w, x, y, {m})
<1>1. /\ \A n \in s, k \in w \cup x \cup y : From[n] = From[k] => n = k \/ i2[n] < i2[k]
      /\ \A n \in w, k \in x \cup y : From[n] = From[k] => n = k \/ i2[n] < i2[k]
      /\ \A n \in x, k \in y : From[n] = From[k] => n = k \/ i2[n] < i2[k]
  BY DEF InOrder, NotAfter
<1>2. /\ \A n \in s, k \in w \cup x \cup y \cup {m} : From[n] = From[k] => n = k \/ i2[n] < i2[k]
      /\ \A n \in w, k \in x \cup y \cup {m} : From[n] = From[k] => n = k \/ i2[n] < i2[k]
      /\ \A n \in x, k \in y \cup {m} : From[n] = From[k] => n = k \/ i2[n] < i2[k]
      /\ \A n \in y, k \in {m} : From[n] = From[k] => n = k \/ i2[n] < i2[k]
  BY <1>1
<1>. QED  BY <1>2 DEF InOrder, NotAfter

\* A poll with the context t of d, which holds d's message or a new one.
LEMMA SendSorted ==
  ASSUME NEW d \in Device, NEW t \in TxContext \cup {None},
         \A e \in Device : e # d => tx'[e] = tx[e] /\ queue'[e] = queue[e],
         \A e \in Device : rx'[e] = rx[e] \/ rx'[e] = None,
         tx'[d] # None => t # None /\ tx'[d].msg = t.msg /\ tx'[d].id = t.id,
         \/ queue'[d] = queue[d]
         \/ queue'[d].kind = "ACK"
         \/ /\ t # None /\ queue'[d].kind = "DATA" /\ queue'[d].msg = t.msg
            /\ queue'[d].src = d /\ queue'[d].dst = To[t.msg] /\ queue'[d].id = t.id,
         UNCHANGED <<onAir, deferred, delivered>>,
         \A e, c \in Device :
           InOrder(idOf', Seen(e), Waiting(e, c), Airing(c), Queued(c),
                   IF c = d THEN Sent(t) ELSE InHand(c))
  PROVE  Sorted'
<1>1. \A e \in Device : Gave(e)' = Gave(e) /\ Seen(e)' \subseteq Seen(e)
  BY GaveSeen
<1>2. \A e, c \in Device : Waiting(e, c)' = Waiting(e, c) /\ Airing(c)' = Airing(c)
  BY DEF Waiting, Airing
<1>3. \A c \in Device : c # d => Queued(c)' = Queued(c) /\ InHand(c)' = InHand(c)
  BY DEF Queued, InHand
<1>4. InHand(d)' \subseteq Sent(t)
  BY DEF InHand, Sent
<1>5. \/ Queued(d)' \subseteq Queued(d)
      \/ Queued(d)' \subseteq Sent(t)
  <2>1. CASE queue'[d] = queue[d]
    BY <2>1 DEF Queued
  <2>2. CASE queue'[d].kind = "ACK"
    BY <2>2 DEF Queued, Held
  <2>3. CASE t # None /\ queue'[d].kind = "DATA" /\ queue'[d].msg = t.msg
    BY <2>3 DEF Queued, Held, Sent
  <2>. QED  BY <2>1, <2>2, <2>3
<1>. SUFFICES ASSUME NEW e \in Device, NEW c \in Device
              PROVE  InOrder(idOf', Seen(e)', Waiting(e, c)', Airing(c)', Queued(c)', InHand(c)')
  BY DEF Sorted
<1>6. PICK i : i = idOf'
  OBVIOUS
<1>7. CASE c # d
  <2>1. InOrder(i, Seen(e), Waiting(e, c), Airing(c), Queued(c), InHand(c))
    BY <1>6, <1>7
  <2>. QED  BY <1>1, <1>2, <1>3, <1>6, <1>7, <2>1, InOrderKept
<1>8. CASE c = d
  <2>1. InOrder(i, Seen(e), Waiting(e, d), Airing(d), Queued(d), Sent(t))
    BY <1>6
  <2>2. \A m, n \in Sent(t) : m = n
    BY Single
  <2>3. InOrder(i, Seen(e), Waiting(e, d), Airing(d), Sent(t), InHand(d)')
    BY <1>4, <2>1, <2>2, InOrderQueued
  <2>4. Seen(e)' \subseteq Seen(e) /\ Waiting(e, d)' = Waiting(e, d) /\ Airing(d)' = Airing(d)
    BY <1>1, <1>2
  <2>5. CASE Queued(d)' \subseteq Queued(d)
    <3>1. InOrder(i, Seen(e)', Waiting(e, d)', Airing(d)', Queued(d)', InHand(d)')
      BY <1>4, <2>1, <2>4, <2>5, InOrderKept
    <3>. QED  BY <1>6, <1>8, <3>1
  <2>6. CASE Queued(d)' \subseteq Sent(t)
    <3>1. InOrder(i, Seen(e)', Waiting(e, d)', Airing(d)', Queued(d)', InHand(d)')
      BY <2>3, <2>4, <2>6, InOrderKept
    <3>. QED  BY <1>6, <1>8, <3>1
  <2>. QED  BY <1>5, <2>5, <2>6
<1>. QED  BY <1>7, <1>8

LEMMA AdvSorted == ASSUME TypeOK, Sorted, NEW d \in Device, AdvPoll(d) PROVE Sorted'
<1>1. /\ onAir' = [onAir EXCEPT ![d] = queue[d]] /\ queue' = [queue EXCEPT ![d] = None]
      /\ UNCHANGED <<tx, rx, deferred, idOf, delivered>>
  BY DEF AdvPoll, upper
<1>2. /\ onAir'[d] = queue[d] /\ queue'[d] = None
      /\ \A e \in Device : e # d => onAir'[e] = onAir[e] /\ queue'[e] = queue[e]
  BY <1>1 DEF TypeOK
<1>3. /\ Airing(d)' = Queued(d) /\ Queued(d)' = {}
      /\ \A e \in Device : e # d => Airing(e)' = Airing(e) /\ Queued(e)' = Queued(e)
  BY <1>2 DEF Airing, Queued, Held
<1>4. \A e \in Device : Seen(e)' = Seen(e) /\ InHand(e)' = InHand(e)
  BY <1>1 DEF Seen, Gave, InHand
<1>5. \A e, c \in Device : Waiting(e, c)' = Waiting(e, c)
  BY <1>1 DEF Waiting
<1>. SUFFICES ASSUME NEW e \in Device, NEW c \in Device
              PROVE  InOrder(idOf', Seen(e)', Waiting(e, c)', Airing(c)', Queued(c)', InHand(c)')
  BY DEF Sorted
<1>6. PICK i : i = idOf
  OBVIOUS
<1>7. InOrder(i, Seen(e), Waiting(e, c), Airing(c), Queued(c), InHand(c))
  BY <1>6 DEF Sorted
<1>8. CASE c = d
  <2>1. InOrder(i, Seen(e), Waiting(e, d), Queued(d), {}, InHand(d))
    BY <1>7, <1>8, InOrderAired
  <2>. QED  BY <1>1, <1>3, <1>4, <1>5, <1>6, <1>8, <2>1
<1>9. CASE c # d
  BY <1>1, <1>3, <1>4, <1>5, <1>6, <1>7, <1>9
<1>. QED  BY <1>8, <1>9

LEMMA ReportSorted ==
  ASSUME TypeOK, Origins, Sorted, NEW d \in Device, NEW e \in Device, OnReport(d, e)
  PROVE  Sorted'
<1>1. /\ deferred' = [deferred EXCEPT ![d] = onAir[e]]
      /\ UNCHANGED <<tx, rx, queue, onAir, idOf, delivered>>
  BY DEF OnReport, upper
<1>2. /\ deferred'[d] = onAir[e] /\ \A c \in Device : c # d => deferred'[c] = deferred[c]
  BY <1>1 DEF TypeOK
<1>3. \A c \in Device : /\ Seen(c)' = Seen(c) /\ InHand(c)' = InHand(c)
                        /\ Airing(c)' = Airing(c) /\ Queued(c)' = Queued(c)
  BY <1>1 DEF Seen, Gave, InHand, Airing, Queued
<1>4. \A m \in Airing(e) : From[m] = e
  BY DEF Origins
<1>5. ASSUME NEW c \in Device, NEW m \in Waiting(d, c)' PROVE m \in Airing(c)
  <2>1. m \in Held(onAir[e]) /\ From[m] = c
    BY <1>2 DEF Waiting
  <2>2. c = e
    BY <1>4, <2>1 DEF Airing
  <2>. QED  BY <2>1, <2>2 DEF Airing
<1>6. \A h, c \in Device : h # d => Waiting(h, c)' = Waiting(h, c)
  BY <1>2 DEF Waiting
<1>. SUFFICES ASSUME NEW h \in Device, NEW c \in Device
              PROVE  InOrder(idOf', Seen(h)', Waiting(h, c)', Airing(c)', Queued(c)', InHand(c)')
  BY DEF Sorted
<1>7. PICK i : i = idOf
  OBVIOUS
<1>8. InOrder(i, Seen(h), Waiting(h, c), Airing(c), Queued(c), InHand(c))
  BY <1>7 DEF Sorted
<1>9. CASE h = d
  <2>1. \A m, n \in Airing(c) : m = n
    BY Single DEF Airing
  <2>2. Waiting(h, c)' \subseteq Airing(c)
    BY <1>5, <1>9
  <2>3. InOrder(i, Seen(h), Waiting(h, c)', Airing(c), Queued(c), InHand(c))
    BY <1>8, <2>1, <2>2, InOrderHeard
  <2>. QED  BY <1>1, <1>3, <1>7, <2>3
<1>10. CASE h # d
  BY <1>1, <1>3, <1>6, <1>7, <1>8, <1>10
<1>. QED  BY <1>9, <1>10

LEMMA HearSorted ==
  ASSUME TypeOK, Origins, Sorted, NEW d \in Device, deferred' = [deferred EXCEPT ![d] = None],
         UNCHANGED <<queue, onAir, idOf>>,
         \A e \in Device : tx'[e] = None \/ (tx[e] # None /\ tx'[e].msg = tx[e].msg),
         \A e \in Device : e # d => Seen(e)' \subseteq Seen(e),
         Seen(d)' \subseteq Seen(d) \cup Held(deferred[d])
  PROVE  Sorted'
<1>1. /\ deferred'[d] = None /\ \A e \in Device : e # d => deferred'[e] = deferred[e]
  BY DEF TypeOK
<1>2. /\ \A e, c \in Device : Waiting(e, c)' \subseteq Waiting(e, c)
      /\ \A c \in Device : Waiting(d, c)' = {}
  BY <1>1 DEF Waiting, Held
<1>3. \A e \in Device : /\ Airing(e)' = Airing(e) /\ Queued(e)' = Queued(e)
                        /\ InHand(e)' \subseteq InHand(e)
  BY DEF Airing, Queued, InHand, Sent
<1>. SUFFICES ASSUME NEW e \in Device, NEW c \in Device
              PROVE  InOrder(idOf', Seen(e)', Waiting(e, c)', Airing(c)', Queued(c)', InHand(c)')
  BY DEF Sorted
<1>4. PICK i : i = idOf /\ i = idOf'
  OBVIOUS
<1>5. InOrder(i, Seen(e), Waiting(e, c), Airing(c), Queued(c), InHand(c))
  BY <1>4 DEF Sorted
<1>6. CASE e # d
  <2>1. InOrder(i, Seen(e)', Waiting(e, c)', Airing(c)', Queued(c)', InHand(c)')
    BY <1>2, <1>3, <1>5, <1>6, InOrderKept
  <2>. QED  BY <1>4, <2>1
<1>7. CASE e = d
  <2>1. \A n \in Airing(c) \cup Queued(c) \cup InHand(c) : From[n] = c
    BY DEF Origins, InHand, Sent
  <2>2. \A m \in Seen(d)' : m \in Seen(d) \/ m \in Waiting(d, c) \/ From[m] # c
    BY DEF Waiting
  <2>3. InOrder(i, Seen(d)', {}, Airing(c), Queued(c), InHand(c))
    BY <1>5, <1>7, <2>1, <2>2, InOrderTaken
  <2>4. InOrder(i, Seen(d)', {}, Airing(c)', Queued(c)', InHand(c)')
    BY <1>3, <2>3, InOrderKept
  <2>. QED  BY <1>2, <1>4, <1>7, <2>4
<1>. QED  BY <1>6, <1>7

LEMMA HandedHas ==
  ASSUME NEW d \in Device, NEW m \in Message, Handed(Past, d, m)
  PROVE  Promise!Has(d, m)
<1>1. PICK k \in DOMAIN delivered[d] : delivered[d][k] = Whole(m)
  BY DEF Handed, Past
<1>2. delivered[d][k][0] = m
  BY <1>1, WholeOf
<1>. QED  BY <1>1, <1>2 DEF Promise!Has

LEMMA HasGave ==
  ASSUME Coherent(Past), NEW d \in Device, NEW m \in Message, Promise!Has(d, m)
  PROVE  m \in started /\ m \in Gave(d) /\ Handed(Past, d, m)
<1>1. PICK k \in DOMAIN delivered[d] : delivered[d][k][0] = m
  BY DEF Promise!Has
<1>2. PICK n \in started : delivered[d][k] = Whole(n) /\ n \in Message
  BY DEF Coherent, Past
<1>3. n = m /\ 0 \in DOMAIN delivered[d][k]
  BY <1>1, <1>2, WholeOf
<1>. QED  BY <1>1, <1>2, <1>3 DEF Gave, Handed, Past

LEMMA ReportStep ==
  ASSUME NEW m \in Message, m \in started, outcome[m] = "none", NEW result \in {"ok", "failed"},
         Reliable[m] /\ result = "ok" => Handed(Past, To[m], m),
         outcome' = [outcome EXCEPT ![m] = result], UNCHANGED <<started, idOf, delivered>>
  PROVE  Promise!Next
<1>1. Reliable[m] /\ result = "ok" => Promise!Has(To[m], m)
  <2>1. Reliable[m] => To[m] \in Device
    BY Bounds
  <2>. QED  BY <2>1, HandedHas
<1>2. Promise!Report(m, result)
  BY <1>1 DEF Promise!Report
<1>. QED  BY <1>2 DEF Promise!Next

\* What is told of a reliable message was handed up.
LEMMA HeardHanded ==
  ASSUME OneFragment, HandedAtOnce, NEW m \in Message, Reliable[m], NEW s \in SUBSET heard[m],
         All(Count[m]) \subseteq s
  PROVE  Handed(Past, To[m], m)
<1>1. 0 \in All(Count[m])
  BY AllOf
<1>. QED  BY <1>1 DEF HandedAtOnce

LEMMA PollPromise ==
  ASSUME OneFragment, IInv, OrderInv, PromiseInv, NEW d \in Device, Poll(d)
  PROVE  PromiseInv' /\ [Promise!Next]_(Promise!vars)
<1>1. PICK expired \in BOOLEAN : PollWith(d, tx[d], expired)
  BY DEF Poll
<1>2. UNCHANGED <<nextId, completed, onAir, deferred, reboots, started, idOf, heard, delivered>>
  BY DEF Poll
<1>3. /\ TypeInv /\ TypeOK /\ Sorted /\ Counted /\ Untold /\ HandedAtOnce
      /\ tx[d] \in TxContext \cup {None} /\ Fits(tx[d])
      /\ tx \in [Device -> TxContext \cup {None}] /\ outcome \in Outcomes
      /\ Local(Past)
  BY DEF IInv, PromiseInv, TypeInv, TypeOK, Outcomes
<1>4. PICK t \in TxContext \cup {None} : t = tx[d]
  BY <1>3
<1>5. Sorted'
  <2>1. /\ \A e \in Device : e # d => tx'[e] = tx[e] /\ queue'[e] = queue[e]
        /\ \A e \in Device : rx'[e] = rx[e] \/ rx'[e] = None
        /\ tx'[d] # None => t # None /\ tx'[d].msg = t.msg /\ tx'[d].id = t.id
        /\ \/ queue'[d] = queue[d]
           \/ queue'[d].kind = "ACK"
           \/ /\ t # None /\ queue'[d].kind = "DATA" /\ queue'[d].msg = t.msg
              /\ queue'[d].src = d /\ queue'[d].dst = To[t.msg] /\ queue'[d].id = t.id
    BY <1>1, <1>3, <1>4, PollMoves
  <2>2. \A e, c \in Device :
          InOrder(idOf', Seen(e), Waiting(e, c), Airing(c), Queued(c),
                  IF c = d THEN Sent(t) ELSE InHand(c))
    BY <1>2, <1>3, <1>4 DEF Sorted, InHand
  <2>. QED  BY <1>2, <2>1, <2>2, SendSorted
<1>6. Counted' /\ HandedAtOnce'
  <2>1. Counted'
    BY <1>2, <1>3 DEF Counted, StartedBy
  <2>2. Past' = Past
    BY <1>2 DEF Past
  <2>. QED  BY <1>2, <1>3, <2>1, <2>2 DEF HandedAtOnce
<1>7. PICK t2 : TxMoves(d, t, t2, outcome') /\ tx' = [tx EXCEPT ![d] = t2]
  BY <1>1, <1>3, <1>4, PollFacts DEF Fits
<1>8. \A e, c \in Device : e # c /\ tx[e] # None /\ tx[c] # None => tx[e].msg # tx[c].msg
  BY DEF OrderInv, Origins
<1>9. CASE outcome' = outcome
  <2>1. t2 # None => t # None /\ t2.msg = t.msg
    <3>1. CASE t # None /\ \E b \in SUBSET All(Count[t.msg]), r \in 0..MaxRetryRounds :
                 t2 = [t EXCEPT !.pending = b, !.round = r]
      BY <3>1 DEF TxContext
    <3>2. CASE t2 = t \/ t2 = None
      BY <3>2
    <3>. QED  BY <1>7, <3>1, <3>2 DEF TxMoves
  <2>2. Untold'
    BY <1>2, <1>3, <1>4, <1>7, <1>9, <2>1 DEF Untold
  <2>3. UNCHANGED Promise!vars
    BY <1>2, <1>9 DEF Promise!vars
  <2>. QED  BY <1>5, <1>6, <2>2, <2>3 DEF PromiseInv
<1>10. ASSUME NEW result \in {"ok", "failed"}, t # None, t2 = None,
              outcome' = [outcome EXCEPT ![t.msg] = result],
              result = "ok" /\ Reliable[t.msg] => All(Count[t.msg]) \subseteq t.acked
       PROVE  PromiseInv' /\ Promise!Next
  <2>1. t.msg \in Message /\ t.msg \in started /\ outcome[t.msg] = "none" /\ tx[d] # None
        /\ t.acked \subseteq heard[t.msg]
    BY <1>3, <1>4, <1>10 DEF Untold, Local, Sending, Past, TxContext
  <2>2. Reliable[t.msg] /\ result = "ok" => Handed(Past, To[t.msg], t.msg)
    BY <1>3, <1>10, <2>1, HeardHanded
  <2>3. Promise!Next
    BY <1>2, <1>10, <2>1, <2>2, ReportStep
  <2>4. Untold'
    <3>1. \A e \in Device : tx'[e] # None => e # d /\ tx'[e] = tx[e]
      BY <1>3, <1>7, <1>10
    <3>2. \A m \in Message : m # t.msg => outcome'[m] = outcome[m]
      BY <1>3, <1>10 DEF Outcomes
    <3>3. \A e \in Device : tx[e] # None => tx[e].msg \in Message
      BY <1>3 DEF TxContext
    <3>4. \A e \in Device : tx'[e] # None => outcome'[tx'[e].msg] = "none"
      BY <1>3, <1>4, <1>8, <2>1, <3>1, <3>2, <3>3 DEF Untold
    <3>5. \A m \in Message : m \notin started' => outcome'[m] = "none"
      BY <1>2, <1>3, <2>1, <3>2 DEF Untold
    <3>. QED  BY <3>4, <3>5 DEF Untold
  <2>. QED  BY <1>5, <1>6, <2>3, <2>4 DEF PromiseInv
<1>. QED  BY <1>7, <1>9, <1>10 DEF TxMoves

\* The place a new message gets among its sender's.
LEMMA StartPlace ==
  ASSUME IsFiniteSet(Message), TypeOK, Counted, NewIds, NEW d \in Device, NEW m \in Message,
         From[m] = d, m \notin started, started' = started \cup {m},
         nextId' = [nextId EXCEPT ![d] = @ + 1]
  PROVE  /\ nextId[d] \in 1..Cardinality(Message) /\ Counted'
         /\ \A n \in started : From[n] = d => idOf[n] < nextId[d]
<1>1. started \subseteq Message /\ nextId \in [Device -> MsgId]
  BY DEF TypeOK
<1>2. StartedBy(d) \subseteq Message \ {m} /\ IsFiniteSet(Message \ {m})
  BY <1>1, FS_RemoveElement DEF StartedBy
<1>3. /\ IsFiniteSet(StartedBy(d)) /\ Cardinality(StartedBy(d)) <= Cardinality(Message \ {m})
      /\ Cardinality(StartedBy(d)) \in Nat
  BY <1>2, FS_Subset, FS_CardinalityType
<1>4. Cardinality(Message \ {m}) = Cardinality(Message) - 1 /\ Cardinality(Message) \in Nat
  BY FS_RemoveElement, FS_CardinalityType
<1>5. nextId[d] = Cardinality(StartedBy(d)) + 1
  BY DEF Counted
<1>6. nextId[d] \in 1..Cardinality(Message)
  BY <1>3, <1>4, <1>5
<1>7. StartedBy(d)' = StartedBy(d) \cup {m} /\ m \notin StartedBy(d)
  BY DEF StartedBy
<1>8. Cardinality(StartedBy(d)') = Cardinality(StartedBy(d)) + 1
  BY <1>3, <1>7, FS_AddElement
<1>9. \A e \in Device : e # d => StartedBy(e)' = StartedBy(e) /\ nextId'[e] = nextId[e]
  BY <1>1 DEF StartedBy
<1>10. nextId'[d] = nextId[d] + 1
  BY <1>1
<1>11. Counted'
  BY <1>5, <1>8, <1>9, <1>10 DEF Counted
<1>. QED  BY <1>6, <1>11 DEF NewIds

\* The abstract specification counts as this module does.
LEMMA SameCount == Promise!Cardinality(Message) = Cardinality(Message)
BY DEF Promise!Cardinality, Cardinality

LEMMA StartPromise ==
  ASSUME IsFiniteSet(Message), OneFragment, IInv, OrderInv, PromiseInv,
         NEW d \in Device, NEW m \in Message, Start(d, m)
  PROVE  PromiseInv' /\ Promise!Next
<1> DEFINE u == [msg |-> m, id |-> nextId[d], acked |-> {}, pending |-> All(Count[m]),
                 round |-> 0]
<1>1. PICK expired \in BOOLEAN : PollWith(d, u, expired)
  BY DEF Start
<1>2. /\ From[m] = d /\ m \notin started /\ tx[d] = None
      /\ started' = started \cup {m} /\ idOf' = [idOf EXCEPT ![m] = nextId[d]]
      /\ nextId' = [nextId EXCEPT ![d] = @ + 1]
      /\ UNCHANGED <<completed, onAir, deferred, heard, delivered>>
  BY DEF Start
<1>3. /\ TypeInv /\ TypeOK /\ Sorted /\ Counted /\ Untold /\ HandedAtOnce /\ NewIds
      /\ Origins /\ tx \in [Device -> TxContext \cup {None}] /\ idOf \in [Message -> Nat]
      /\ started \subseteq Message
  BY DEF IInv, OrderInv, PromiseInv, TypeInv, TypeOK
<1>4. /\ u \in TxContext /\ Fits(u) /\ u.acked = {} /\ u.pending # {} /\ u.msg = m
      /\ u.id = nextId[d]
  BY <1>3, StartContext
<1>. HIDE DEF u
<1>5. PICK t \in TxContext : t = u
  BY <1>4
<1>6. /\ nextId[d] \in 1..Cardinality(Message) /\ Counted'
      /\ \A n \in started : From[n] = d => idOf[n] < nextId[d]
  BY <1>2, <1>3, StartPlace
<1>7. /\ idOf'[m] = nextId[d] /\ \A n \in started : idOf'[n] = idOf[n]
  BY <1>2, <1>3
<1>8. Sorted'
  <2>1. /\ \A e \in Device : e # d => tx'[e] = tx[e] /\ queue'[e] = queue[e]
        /\ \A e \in Device : rx'[e] = rx[e] \/ rx'[e] = None
        /\ tx'[d] # None => t # None /\ tx'[d].msg = t.msg /\ tx'[d].id = t.id
        /\ \/ queue'[d] = queue[d]
           \/ queue'[d].kind = "ACK"
           \/ /\ t # None /\ queue'[d].kind = "DATA" /\ queue'[d].msg = t.msg
              /\ queue'[d].src = d /\ queue'[d].dst = To[t.msg] /\ queue'[d].id = t.id
    BY <1>1, <1>2, <1>3, <1>4, <1>5, PollMoves
  <2>2. ASSUME NEW e \in Device, NEW c \in Device
        PROVE  InOrder(idOf', Seen(e), Waiting(e, c), Airing(c), Queued(c),
                       IF c = d THEN Sent(t) ELSE InHand(c))
    <3>1. InOrder(idOf, Seen(e), Waiting(e, c), Airing(c), Queued(c), InHand(c))
      BY <1>3 DEF Sorted
    <3>2. Named(deferred[e]) /\ Named(onAir[c]) /\ Named(queue[c])
      BY <1>3 DEF Origins
    <3>3. \A n \in Seen(e) \cup Waiting(e, c) \cup Airing(c) \cup Queued(c) : n \in started
      BY <1>3, <3>2 DEF Origins, Waiting, Airing, Queued, Held, Named
    <3>4. \A n \in InHand(c) : n \in started
      BY <1>3 DEF Origins, InHand, Sent
    <3>5. PICK i, i2 : i = idOf /\ i2 = idOf'
      OBVIOUS
    <3>6. CASE c = d
      <4>1. InHand(d) = {} /\ Sent(t) \subseteq {m}
        BY <1>2, <1>4, <1>5 DEF InHand, Sent
      <4>2. InOrder(i, Seen(e), Waiting(e, c), Airing(c), Queued(c), {})
        BY <3>1, <3>5, <3>6, <4>1
      <4>3. \A n \in Seen(e) \cup Waiting(e, c) \cup Airing(c) \cup Queued(c) : i2[n] = i[n]
        BY <1>7, <3>3, <3>5
      <4>4. \A n \in Seen(e) \cup Waiting(e, c) \cup Airing(c) \cup Queued(c) :
              From[n] = From[m] => i2[n] < i2[m]
        BY <1>2, <1>6, <1>7, <3>3, <3>5
      <4>5. InOrder(i2, Seen(e), Waiting(e, c), Airing(c), Queued(c), {m})
        BY <4>2, <4>3, <4>4, InOrderStarted
      <4>6. InOrder(i2, Seen(e), Waiting(e, c), Airing(c), Queued(c), Sent(t))
        BY <4>1, <4>5, InOrderKept
      <4>. QED  BY <3>5, <3>6, <4>6
    <3>7. CASE c # d
      <4>1. \A n \in Seen(e) \cup Waiting(e, c) \cup Airing(c) \cup Queued(c) \cup InHand(c) :
              i2[n] = i[n]
        BY <1>7, <3>3, <3>4, <3>5
      <4>2. InOrder(i2, Seen(e), Waiting(e, c), Airing(c), Queued(c), InHand(c))
        BY <3>1, <3>5, <4>1 DEF InOrder, NotAfter
      <4>. QED  BY <3>5, <3>7, <4>2
    <3>. QED  BY <3>6, <3>7
  <2>. QED  BY <1>2, <2>1, <2>2, SendSorted
<1>9. PICK t2 : TxMoves(d, t, t2, outcome') /\ tx' = [tx EXCEPT ![d] = t2]
  BY <1>1, <1>2, <1>3, <1>4, <1>5, PollFacts DEF Fits
<1>10. outcome' = outcome
  BY <1>2, <1>9 DEF TxMoves
<1>11. t2 # None => t2.msg = m
  <2>1. CASE t # None /\ \E b \in SUBSET All(Count[t.msg]), r \in 0..MaxRetryRounds :
               t2 = [t EXCEPT !.pending = b, !.round = r]
    BY <1>4, <1>5, <2>1 DEF TxContext
  <2>2. CASE t2 = t \/ t2 = None
    BY <1>4, <1>5, <2>2
  <2>. QED  BY <1>9, <2>1, <2>2 DEF TxMoves
<1>12. Untold'
  <2>1. \A e \in Device : tx'[e] # None => outcome'[tx'[e].msg] = "none"
    BY <1>2, <1>3, <1>9, <1>10, <1>11 DEF Untold
  <2>. QED  BY <1>2, <1>3, <1>10, <2>1 DEF Untold
<1>13. HandedAtOnce'
  BY <1>2, <1>3 DEF HandedAtOnce, Handed, Past
<1>14. Promise!Accept(m)
  <2>1. \A n \in started : From[n] = From[m] => idOf[n] < nextId[d]
    BY <1>2, <1>6
  <2>2. UNCHANGED <<[e \in Device |-> [k \in DOMAIN delivered[e] |-> delivered[e][k][0]]], outcome>>
    BY <1>2, <1>10
  <2>. QED  BY <1>2, <1>6, <2>1, <2>2, SameCount DEF Promise!Accept
<1>15. Promise!Next
  BY <1>14 DEF Promise!Next
<1>. QED  BY <1>6, <1>8, <1>12, <1>13, <1>15 DEF PromiseInv

LEMMA AdvPromise ==
  ASSUME OrderInv, PromiseInv, NEW d \in Device, AdvPoll(d)
  PROVE  PromiseInv' /\ UNCHANGED Promise!vars
<1>1. UNCHANGED <<nextId, tx, started, idOf, heard, delivered, outcome>>
  BY DEF AdvPoll, upper
<1>2. TypeOK /\ Sorted /\ Counted /\ Untold /\ HandedAtOnce
  BY DEF OrderInv, PromiseInv, TypeInv
<1>3. Sorted'
  BY <1>2, AdvSorted
<1>4. Counted' /\ Untold' /\ HandedAtOnce' /\ UNCHANGED Promise!vars
  BY <1>1, <1>2 DEF Counted, StartedBy, Untold, HandedAtOnce, Handed, Past, Promise!vars
<1>. QED  BY <1>3, <1>4 DEF PromiseInv

LEMMA ReportPromise ==
  ASSUME OrderInv, PromiseInv, NEW d \in Device, NEW e \in Device, OnReport(d, e)
  PROVE  PromiseInv' /\ UNCHANGED Promise!vars
<1>1. UNCHANGED <<nextId, tx, started, idOf, heard, delivered, outcome>>
  BY DEF OnReport, upper
<1>2. TypeOK /\ Origins /\ Sorted /\ Counted /\ Untold /\ HandedAtOnce
  BY DEF OrderInv, PromiseInv, TypeInv
<1>3. Sorted'
  BY <1>2, ReportSorted
<1>4. Counted' /\ Untold' /\ HandedAtOnce' /\ UNCHANGED Promise!vars
  BY <1>1, <1>2 DEF Counted, StartedBy, Untold, HandedAtOnce, Handed, Past, Promise!vars
<1>. QED  BY <1>3, <1>4 DEF PromiseInv

\* An acknowledgement reports at most the message in hand, which was handed up
\* if it says so.
LEMMA AckPromise ==
  ASSUME OneFragment, IInv, OrderInv, PromiseInv, NEW d \in Device, NEW f \in AckFrame,
         f # None, f = deferred[d], HandleAck(d, f),
         deferred' = [deferred EXCEPT ![d] = None],
         UNCHANGED <<nextId, queue, onAir, started, idOf>>
  PROVE  PromiseInv' /\ [Promise!Next]_(Promise!vars)
<1>1. /\ TypeOK /\ Origins /\ Sorted /\ Counted /\ Untold /\ HandedAtOnce /\ Local(Past)
      /\ Coherent(Past) /\ tx \in [Device -> TxContext \cup {None}] /\ outcome \in Outcomes
  BY DEF IInv, OrderInv, PromiseInv, TypeInv, TypeOK, Outcomes
<1>2. /\ UNCHANGED <<rx, completed, ack, heard, delivered>>
      /\ \/ tx' = tx /\ outcome' = outcome
         \/ /\ Matches(d, f) /\ tx' = [tx EXCEPT ![d] = None]
            /\ \E result \in {"ok", "failed"} :
                 /\ result = "ok" => f.status \in Done
                 /\ outcome' = [outcome EXCEPT ![tx[d].msg] = result]
         \/ /\ Matches(d, f) /\ outcome' = outcome
            /\ \E b \in TxContext :
                 /\ tx' = [tx EXCEPT ![d] = b] /\ b.msg = tx[d].msg /\ b.id = tx[d].id
                 /\ b.acked \subseteq tx[d].acked \cup f.bitmap
                 /\ b.pending \subseteq tx[d].pending
  BY <1>1, AckFacts
<1>3. Counted' /\ HandedAtOnce'
  BY <1>1, <1>2 DEF Counted, StartedBy, HandedAtOnce, Handed, Past
<1>4. \A e \in Device : tx'[e] = None \/ (tx[e] # None /\ tx'[e].msg = tx[e].msg)
  BY <1>1, <1>2 DEF Matches
<1>5. Sorted'
  <2>1. \A e \in Device : Seen(e)' = Seen(e)
    BY <1>2 DEF Seen, Gave
  <2>. QED  BY <1>1, <1>4, <2>1, HearSorted
<1>6. CASE outcome' = outcome
  <2>1. Untold'
    BY <1>1, <1>4, <1>6 DEF Untold
  <2>2. UNCHANGED Promise!vars
    BY <1>2, <1>6 DEF Promise!vars
  <2>. QED  BY <1>3, <1>5, <2>1, <2>2 DEF PromiseInv
<1>7. ASSUME Matches(d, f), tx' = [tx EXCEPT ![d] = None], NEW result \in {"ok", "failed"},
             result = "ok" => f.status \in Done,
             outcome' = [outcome EXCEPT ![tx[d].msg] = result]
      PROVE  PromiseInv' /\ Promise!Next
  <2>1. PICK m \in Message : m = tx[d].msg
    BY <1>1, <1>7 DEF Matches, TxContext
  <2>2. /\ m \in started /\ outcome[m] = "none" /\ From[m] = d /\ idOf[m] = f.id
        /\ f.dst = d /\ To[m] = f.src /\ tx[d] # None
    BY <1>1, <1>7, <2>1 DEF Matches, Untold, Local, Sending, Past
  <2>3. result = "ok" => Handed(Past, To[m], m)
    <3>. SUFFICES ASSUME f.status \in Done PROVE Handed(Past, To[m], m)
      BY <1>7
    <3>1. f.kind = "ACK"
      BY DEF AckFrame
    <3>2. Truthful(Past, f.src, f.dst, f)
      BY <1>1, <3>1 DEF Local, Honest
    <3>3. PICK n \in Message : Owns(Past, n, f.dst, f.src, f.id) /\ Handed(Past, f.src, n)
      BY <3>2 DEF Truthful
    <3>4. n = m
      BY <1>1, <2>2, <3>3 DEF Owns, Coherent, Past
    <3>. QED  BY <2>2, <3>3, <3>4
  <2>4. Promise!Next
    BY <1>2, <1>7, <2>1, <2>2, <2>3, ReportStep
  <2>5. Untold'
    <3>1. \A e \in Device : tx'[e] # None => e # d /\ tx'[e] = tx[e]
      BY <1>1, <1>7
    <3>2. \A n \in Message : n # m => outcome'[n] = outcome[n]
      BY <1>1, <1>7, <2>1 DEF Outcomes
    <3>3. \A e \in Device : e # d /\ tx[e] # None => tx[e].msg \in Message /\ tx[e].msg # m
      BY <1>1, <2>2 DEF Origins, TxContext
    <3>4. \A e \in Device : tx'[e] # None => outcome'[tx'[e].msg] = "none"
      BY <1>1, <3>1, <3>2, <3>3 DEF Untold
    <3>5. \A n \in Message : n \notin started' => outcome'[n] = "none"
      BY <1>1, <2>2, <3>2 DEF Untold
    <3>. QED  BY <3>4, <3>5 DEF Untold
  <2>. QED  BY <1>3, <1>5, <2>4, <2>5 DEF PromiseInv
<1>. QED  BY <1>2, <1>6, <1>7

\* A frame that no context takes.
LEMMA QuietPromise ==
  ASSUME IInv, OrderInv, PromiseInv, NEW d \in Device,
         deferred' = [deferred EXCEPT ![d] = None],
         UNCHANGED <<nextId, tx, rx, queue, onAir, started, idOf, heard, delivered, outcome>>
  PROVE  PromiseInv' /\ UNCHANGED Promise!vars
<1>1. TypeOK /\ Origins /\ Sorted /\ Counted /\ Untold /\ HandedAtOnce
  BY DEF OrderInv, PromiseInv, TypeInv
<1>2. \A e \in Device : Seen(e)' = Seen(e)
  BY DEF Seen, Gave
<1>3. Sorted'
  BY <1>1, <1>2, HearSorted
<1>4. Counted' /\ Untold' /\ HandedAtOnce' /\ UNCHANGED Promise!vars
  BY <1>1 DEF Counted, StartedBy, Untold, HandedAtOnce, Handed, Past, Promise!vars
<1>. QED  BY <1>3, <1>4 DEF PromiseInv

\* What the buffers hold first grows by what the new one does.
LEMMA FirstsAppend ==
  ASSUME NEW g \in Seq(Buffer), NEW b \in Buffer
  PROVE  [k \in DOMAIN Append(g, b) |-> Append(g, b)[k][0]]
           = Append([k \in DOMAIN g |-> g[k][0]], b[0])
<1> DEFINE S == {g[k][0] : k \in DOMAIN g} \cup {b[0]}
           h == [k \in DOMAIN g |-> g[k][0]]
<1>1. DOMAIN g = 1..Len(g) /\ Len(g) \in Nat
  BY LenProperties
<1>2. h \in [1..Len(g) -> S] /\ b[0] \in S /\ \A k \in 1..Len(g) : h[k] = g[k][0]
  BY <1>1
<1>. HIDE DEF h, S
<1>3. h \in Seq(S) /\ Len(h) = Len(g)
  BY <1>1, <1>2, SeqDef, LenProperties
<1>4. /\ DOMAIN Append(h, b[0]) = 1..Len(g) + 1 /\ Append(h, b[0])[Len(g) + 1] = b[0]
      /\ \A k \in 1..Len(g) : Append(h, b[0])[k] = g[k][0]
  <2>1. PICK x \in S : x = b[0]
    BY <1>2
  <2>2. /\ Append(h, x) \in Seq(S) /\ Len(Append(h, x)) = Len(h) + 1
        /\ Append(h, x)[Len(h) + 1] = x
        /\ \A k \in 1..Len(h) : Append(h, x)[k] = h[k]
    BY <1>3, AppendProperties
  <2>3. DOMAIN Append(h, x) = 1..Len(g) + 1
    BY <1>3, <2>2, LenProperties
  <2>. QED  BY <1>2, <1>3, <2>1, <2>2, <2>3
<1>5. /\ DOMAIN Append(g, b) = 1..Len(g) + 1 /\ Append(g, b)[Len(g) + 1] = b
      /\ \A k \in 1..Len(g) : Append(g, b)[k] = g[k]
  BY <1>1, AppendProperties, LenProperties
<1>6. PICK u, v : u = [k \in DOMAIN Append(g, b) |-> Append(g, b)[k][0]] /\ v = Append(h, b[0])
  OBVIOUS
<1>7. DOMAIN u = DOMAIN v /\ \A k \in DOMAIN u : u[k] = v[k]
  <2>1. \A k \in 1..Len(g) + 1 : k \in 1..Len(g) \/ k = Len(g) + 1
    BY <1>1
  <2>. QED  BY <1>4, <1>5, <1>6, <2>1
<1>8. u = [k \in DOMAIN u |-> u[k]] /\ v = [k \in DOMAIN v |-> v[k]]
  <2>1. u = [k \in DOMAIN u |-> u[k]]
    BY <1>6
  <2>2. v \in Seq(S)
    BY <1>2, <1>3, <1>6, AppendProperties
  <2>3. v = [k \in DOMAIN v |-> v[k]]
    BY <2>2, SeqDef
  <2>. QED  BY <2>1, <2>3
<1>. QED  BY <1>6, <1>7, <1>8 DEF h

\* A message handed up is new to d and comes after its sender's earlier ones.
LEMMA ReceiveStep ==
  ASSUME IInv, OrderInv, Sorted, NEW d \in Device, NEW m \in Message, m \in started,
         m \in Held(deferred[d]), To[m] \in {d, Broadcast}, m \notin Gave(d),
         UNCHANGED <<started, idOf, outcome>>,
         delivered' = [delivered EXCEPT ![d] = Append(@, Whole(m))], Whole(m) \in Buffer
  PROVE  Promise!Next
<1> DEFINE first(g) == [k \in DOMAIN g |-> g[k][0]]
<1>1. /\ TypeOK /\ Origins /\ Coherent(Past) /\ started \subseteq Message
      /\ delivered \in [Device -> Seq(Buffer)]
  BY DEF IInv, OrderInv, TypeInv, TypeOK
<1>2. d # From[m]
  BY <1>1 DEF Origins
<1>3. ~Promise!Has(d, m)
  BY <1>1, HasGave
<1>4. ASSUME NEW n \in started, From[n] = From[m], Promise!Has(d, n) PROVE idOf[n] < idOf[m]
  <2>1. n \in Message /\ n \in Gave(d)
    BY <1>1, <1>4, HasGave
  <2>2. n \in Seen(d) /\ n # m
    BY <2>1 DEF Seen
  <2>3. PICK c \in Device : c = From[m]
    BY Bounds
  <2>4. m \in Waiting(d, c)
    BY <2>3 DEF Waiting
  <2>5. InOrder(idOf, Seen(d), Waiting(d, c), Airing(c), Queued(c), InHand(c))
    BY DEF Sorted
  <2>. QED  BY <1>4, <2>2, <2>4, <2>5 DEF InOrder, NotAfter
<1>5. [e \in Device |-> first(delivered'[e])]
        = [[e \in Device |-> first(delivered[e])] EXCEPT ![d] = Append(@, m)]
  <2>1. first(Append(delivered[d], Whole(m))) = Append(first(delivered[d]), Whole(m)[0])
    BY <1>1, FirstsAppend
  <2>2. Whole(m)[0] = m
    BY WholeOf
  <2>3. delivered'[d] = Append(delivered[d], Whole(m))
        /\ \A e \in Device : e # d => delivered'[e] = delivered[e]
    BY <1>1
  <2>4. first(delivered'[d]) = Append(first(delivered[d]), m)
    BY <2>1, <2>2, <2>3
  <2>5. \A e \in Device : e # d => first(delivered'[e]) = first(delivered[e])
    BY <2>3
  <2>. HIDE DEF first
  <2>. QED  BY <2>4, <2>5
<1>6. Promise!Receive(d, m)
  <2>. HIDE DEF first
  <2>1. [e \in Device |-> [k \in DOMAIN delivered'[e] |-> delivered'[e][k][0]]]
          = [[e \in Device |-> [k \in DOMAIN delivered[e] |-> delivered[e][k][0]]]
               EXCEPT ![d] = Append(@, m)]
    BY <1>5 DEF first
  <2>. QED  BY <1>2, <1>3, <1>4, <2>1 DEF Promise!Receive
<1>. QED  BY <1>6 DEF Promise!Next

LEMMA AcceptPromise ==
  ASSUME OneFragment, IInv, OrderInv, PromiseInv, NEW d \in Device, NEW f \in DataFrame,
         NEW r \in RxContext, Accepts(d, f, r), f # None, f = deferred[d],
         deferred' = [deferred EXCEPT ![d] = None],
         UNCHANGED <<nextId, tx, queue, onAir, started, idOf, outcome>>
  PROVE  PromiseInv' /\ [Promise!Next]_(Promise!vars)
<1> DEFINE got == Filled(r, f)
<1>1. /\ TypeOK /\ Origins /\ Sorted /\ Counted /\ Untold /\ HandedAtOnce /\ Local(Past)
      /\ Coherent(Past) /\ Cached /\ delivered \in [Device -> Seq(Buffer)]
      /\ heard \in [Message -> SUBSET Index] /\ started \subseteq Message
  BY DEF IInv, OrderInv, PromiseInv, TypeInv, TypeOK
<1>2. PICK m \in Message : m = f.msg
  BY DEF DataFrame
<1>3. f.kind = "DATA" /\ Held(deferred[d]) = {m}
  BY <1>2 DEF DataFrame, Held
<1>4. Genuine(Past, f)
  BY <1>1, <1>3 DEF Local, Honest
<1>5. /\ m \in started /\ f.src = From[m] /\ f.dst = To[m] /\ f.id = idOf[m]
      /\ f.index \in All(Count[m])
  BY <1>2, <1>4 DEF Genuine, Owns, Past
<1>6. /\ r.count = Count[m] /\ DOMAIN r.got \subseteq heard[m]
      /\ \A i \in DOMAIN r.got : r.got[i] = m
  BY <1>1, <1>2, <1>4, AcceptedOf DEF Past
<1>7. /\ f.dst \in {d, Broadcast} /\ ~(completed[d] # None /\ SameMessage(completed[d], f))
      /\ f.index \notin DOMAIN r.got
  BY DEF Accepts
<1>8. /\ got \in Buffer /\ DOMAIN got = DOMAIN r.got \cup {f.index} /\ got[f.index] = m
      /\ \A i \in DOMAIN r.got : i # f.index => got[i] = r.got[i]
  <2>1. r.got \in Buffer
    BY DEF RxContext
  <2>. QED  BY <1>2, <2>1, FilledType
<1>9. /\ heard' = [heard EXCEPT ![m] = @ \cup {f.index}]
      /\ \/ /\ DOMAIN got = All(r.count)
            /\ delivered' = [delivered EXCEPT ![d] = Append(@, got)]
         \/ /\ DOMAIN got # All(r.count) /\ delivered' = delivered
  BY <1>1, <1>2, AcceptFacts
<1>. HIDE DEF got
<1>10. m \notin Gave(d)
  <2>. SUFFICES ASSUME m \in Gave(d) PROVE FALSE
    OBVIOUS
  <2>1. PICK c \in Device : c = From[m]
    BY Bounds
  <2>2. m \in Waiting(d, c)
    BY <1>3, <2>1 DEF Waiting
  <2>3. /\ completed[d] # None /\ completed[d].src = From[m] /\ completed[d].dst = To[m]
        /\ completed[d].id = idOf[m]
    BY <1>1, <2>1, <2>2 DEF Cached
  <2>. QED  BY <1>5, <1>7, <2>3 DEF SameMessage
<1>11. Sorted'
  <2>1. /\ Seen(d)' \subseteq Seen(d) \cup {m}
        /\ \A e \in Device : e # d => Seen(e)' = Seen(e)
    BY <1>1, <1>2, AcceptSeen
  <2>. QED  BY <1>1, <1>3, <2>1, HearSorted
<1>12. Counted' /\ Untold'
  BY <1>1 DEF Counted, StartedBy, Untold
<1>13. DOMAIN got = All(r.count) => got = Whole(m)
  <2>1. PICK s \in SUBSET Index : got \in [s -> Message]
    BY <1>8 DEF Buffer
  <2>2. \A i \in DOMAIN got : got[i] = m
    BY <1>6, <1>8
  <2>3. ASSUME DOMAIN got = All(r.count) PROVE got = [i \in All(Count[m]) |-> m]
    BY <1>6, <2>1, <2>2, <2>3
  <2>. QED  BY <2>3 DEF Whole
<1>14. /\ delivered'[d] = delivered[d] \/ /\ DOMAIN got = All(r.count)
                                          /\ delivered'[d] = Append(delivered[d], got)
       /\ \A e \in Device : e # d => delivered'[e] = delivered[e]
  BY <1>1, <1>9
<1>15. \A e \in Device, n \in Message : Handed(Past, e, n) => Handed(Past, e, n)'
  <2>. SUFFICES ASSUME NEW e \in Device, NEW n \in Message, NEW k \in DOMAIN delivered[e],
                       delivered[e][k] = Whole(n)
                PROVE  k \in DOMAIN delivered'[e] /\ delivered'[e][k] = Whole(n)
    BY DEF Handed, Past
  <2>1. CASE delivered'[e] = delivered[e]
    BY <2>1
  <2>2. CASE e = d /\ delivered'[d] = Append(delivered[d], got)
    <3>1. /\ DOMAIN delivered'[d] = DOMAIN delivered[d] \cup {Len(delivered[d]) + 1}
          /\ \A j \in DOMAIN delivered[d] : delivered'[d][j] = delivered[d][j]
      BY <1>1, <1>8, <2>2, AppendFacts
    <3>. QED  BY <2>2, <3>1
  <2>. QED  BY <1>14, <2>1, <2>2
<1>16. HandedAtOnce'
  <2>. SUFFICES ASSUME NEW n \in Message, Reliable[n], heard'[n] # {}
                PROVE  Handed(Past, To[n], n)'
    BY DEF HandedAtOnce
  <2>1. To[n] \in Device
    BY Bounds
  <2>2. CASE n # m
    <3>1. heard'[n] = heard[n]
      BY <1>1, <1>9, <2>2
    <3>. QED  BY <1>1, <1>15, <2>1, <3>1 DEF HandedAtOnce
  <2>3. CASE n = m
    <3>1. Count[m] = 1 /\ All(Count[m]) = {0}
      BY <2>3, Bounds DEF OneFragment
    <3>2. heard[m] \subseteq {0}
      BY <1>1, <3>1 DEF Coherent, Past
    <3>3. DOMAIN got = All(r.count)
      BY <1>5, <1>6, <1>7, <1>8, <3>1, <3>2
    <3>4. delivered'[d] = Append(delivered[d], Whole(m))
      BY <1>1, <1>9, <1>13, <3>3
    <3>5. /\ DOMAIN delivered'[d] = DOMAIN delivered[d] \cup {Len(delivered[d]) + 1}
          /\ delivered'[d][Len(delivered[d]) + 1] = Whole(m)
      BY <1>1, <1>8, <1>13, <3>3, <3>4, AppendFacts
    <3>6. To[m] = d
      BY <1>5, <1>7, <2>1, <2>3, DeviceAssumption
    <3>. QED  BY <2>3, <3>5, <3>6 DEF Handed, Past
  <2>. QED  BY <2>2, <2>3
<1>17. [Promise!Next]_(Promise!vars)
  <2>1. CASE DOMAIN got = All(r.count)
    <3>1. got = Whole(m) /\ Whole(m) \in Buffer /\ delivered' = [delivered EXCEPT ![d] = Append(@, Whole(m))]
      BY <1>8, <1>9, <1>13, <2>1
    <3>2. To[m] \in {d, Broadcast} /\ m \in Held(deferred[d])
      BY <1>3, <1>5, <1>7
    <3>. QED  BY <1>1, <1>5, <1>10, <3>1, <3>2, ReceiveStep
  <2>2. CASE DOMAIN got # All(r.count)
    <3>1. delivered' = delivered
      BY <1>9, <2>2
    <3>2. UNCHANGED Promise!vars
      BY <3>1 DEF Promise!vars
    <3>. QED  BY <3>2
  <2>. QED  BY <2>1, <2>2
<1>. QED  BY <1>11, <1>12, <1>16, <1>17 DEF PromiseInv

LEMMA ScanPromise ==
  ASSUME OneFragment, IInv, OrderInv, PromiseInv, NEW d \in Device, ScanPoll(d)
  PROVE  PromiseInv' /\ [Promise!Next]_(Promise!vars)
<1>1. PICK f : f = deferred[d]
  OBVIOUS
<1>2. /\ f \in Frame /\ f # None
      /\ \/ f.kind = "ACK" /\ HandleAck(d, f)
         \/ f.kind = "DATA" /\ HandleData(d, f)
      /\ deferred' = [deferred EXCEPT ![d] = None]
      /\ UNCHANGED <<nextId, queue, onAir, started, idOf>>
  BY <1>1 DEF ScanPoll, OrderInv, TypeInv, TypeOK
<1>3. TypeOK
  BY DEF OrderInv, TypeInv
<1>4. CASE f.kind = "ACK" /\ HandleAck(d, f)
  <2>1. f \in AckFrame
    BY <1>2, <1>4 DEF Frame, DataFrame
  <2>. QED  BY <1>1, <1>2, <1>4, <2>1, AckPromise
<1>5. CASE f.kind = "DATA" /\ HandleData(d, f)
  <2>1. f \in DataFrame
    BY <1>2, <1>5 DEF Frame, AckFrame
  <2>2. /\ UNCHANGED <<tx, outcome>>
        /\ \/ UNCHANGED <<rx, heard, delivered>>
           \/ Answers(d, f)
           \/ \E r \in RxContext : Accepts(d, f, r)
    BY <1>3, <1>5, <2>1, DataFacts
  <2>3. CASE UNCHANGED <<rx, heard, delivered>>
    <3>1. PromiseInv' /\ UNCHANGED Promise!vars
      BY <1>2, <2>2, <2>3, QuietPromise
    <3>. QED  BY <3>1
  <2>4. CASE Answers(d, f)
    <3>1. UNCHANGED <<rx, heard, delivered>>
      BY <2>4 DEF Answers
    <3>. QED  BY <2>3, <3>1
  <2>5. CASE \E r \in RxContext : Accepts(d, f, r)
    BY <1>1, <1>2, <2>1, <2>2, <2>5, AcceptPromise
  <2>. QED  BY <2>2, <2>3, <2>4, <2>5
<1>. QED  BY <1>2, <1>4, <1>5

LEMMA InitPromise == Init => PromiseInv /\ Promise!Init
<1>. SUFFICES ASSUME Init PROVE PromiseInv /\ Promise!Init
  OBVIOUS
<1>1. /\ started = {} /\ idOf = [m \in Message |-> 0] /\ heard = [m \in Message |-> {}]
      /\ outcome = [m \in Message |-> "none"]
      /\ \A d \in Device : /\ tx[d] = None /\ rx[d] = None /\ queue[d] = None
                           /\ onAir[d] = None /\ deferred[d] = None /\ nextId[d] = 1
                           /\ delivered[d] = << >>
  BY DEF Init
<1>2. \A d \in Device : DOMAIN delivered[d] = {}
  BY <1>1, NothingGot
<1>3. Sorted
  <2>1. \A d, e \in Device : /\ Gave(d) = {} /\ Waiting(d, e) = {} /\ Airing(e) = {}
                             /\ Queued(e) = {} /\ InHand(e) = {}
    BY <1>1, <1>2 DEF Gave, Waiting, Airing, Queued, InHand, Held, Sent
  <2>2. \A d \in Device : Seen(d) = {}
    BY <1>1, <2>1 DEF Seen
  <2>3. PICK i : i = idOf
    OBVIOUS
  <2>4. InOrder(i, {}, {}, {}, {}, {})
    BY DEF InOrder, NotAfter
  <2>. QED  BY <2>1, <2>2, <2>3, <2>4 DEF Sorted
<1>4. Counted
  <2>1. \A d \in Device : StartedBy(d) = {}
    BY <1>1 DEF StartedBy
  <2>2. Cardinality({}) = 0
    BY FS_EmptySet
  <2>3. ASSUME NEW d \in Device PROVE nextId[d] = Cardinality(StartedBy(d)) + 1
    <3>1. StartedBy(d) = {} /\ nextId[d] = 1
      BY <1>1, <2>1
    <3>2. Cardinality(StartedBy(d)) = 0
      BY <2>2, <3>1, Zenon
    <3>. QED  BY <3>1, <3>2
  <2>. QED  BY <2>3 DEF Counted
<1>5. Untold /\ HandedAtOnce
  BY <1>1 DEF Untold, HandedAtOnce
<1>6. Promise!Init
  <2>1. ASSUME NEW d \in Device
        PROVE  [k \in DOMAIN delivered[d] |-> delivered[d][k][0]] = << >>
    BY <1>1, <1>2
  <2>2. [d \in Device |-> [k \in DOMAIN delivered[d] |-> delivered[d][k][0]]]
          = [d \in Device |-> << >>]
    BY <2>1
  <2>. QED  BY <1>1, <2>2 DEF Promise!Init
<1>. QED  BY <1>3, <1>4, <1>5, <1>6 DEF PromiseInv

LEMMA PromiseStep ==
  ASSUME Rebooting = {}, IsFiniteSet(Message), OneFragment, IInv, OrderInv, PromiseInv,
         [Next]_vars
  PROVE  PromiseInv' /\ [Promise!Next]_(Promise!vars)
<1>1. CASE UNCHANGED vars
  <2>1. UNCHANGED <<nextId, tx, rx, queue, onAir, deferred, started, idOf, heard, delivered, outcome>>
    BY <1>1 DEF vars, radio, upper
  <2>2. \A d, e \in Device : /\ Seen(d)' = Seen(d) /\ Waiting(d, e)' = Waiting(d, e)
                             /\ Airing(e)' = Airing(e) /\ Queued(e)' = Queued(e)
                             /\ InHand(e)' = InHand(e)
    BY <2>1 DEF Seen, Gave, Waiting, Airing, Queued, InHand
  <2>3. Sorted'
    BY <2>1, <2>2 DEF PromiseInv, Sorted
  <2>4. Counted' /\ Untold' /\ HandedAtOnce' /\ UNCHANGED Promise!vars
    BY <2>1 DEF PromiseInv, Counted, StartedBy, Untold, HandedAtOnce, Handed, Past, Promise!vars
  <2>. QED  BY <2>3, <2>4 DEF PromiseInv
<1>2. ASSUME NEW d \in Device, AdvPoll(d) PROVE PromiseInv' /\ [Promise!Next]_(Promise!vars)
  <2>1. PromiseInv' /\ UNCHANGED Promise!vars
    BY <1>2, AdvPromise
  <2>. QED  BY <2>1
<1>3. ASSUME NEW d \in Device, NEW e \in Device, OnReport(d, e)
      PROVE  PromiseInv' /\ [Promise!Next]_(Promise!vars)
  <2>1. PromiseInv' /\ UNCHANGED Promise!vars
    BY <1>3, ReportPromise
  <2>. QED  BY <2>1
<1>4. ASSUME NEW d \in Device, NEW m \in Message, Start(d, m)
      PROVE  PromiseInv' /\ [Promise!Next]_(Promise!vars)
  <2>1. PromiseInv' /\ Promise!Next
    BY <1>4, StartPromise
  <2>. QED  BY <2>1
<1>5. ASSUME NEW d \in Device PROVE ~Reboot(d)
  BY DEF Reboot
<1>6. ASSUME NEW d \in Device, Poll(d) PROVE PromiseInv' /\ [Promise!Next]_(Promise!vars)
  BY <1>6, PollPromise
<1>7. ASSUME NEW d \in Device, ScanPoll(d) PROVE PromiseInv' /\ [Promise!Next]_(Promise!vars)
  BY <1>7, ScanPromise
<1>. QED  BY <1>1, <1>2, <1>3, <1>4, <1>5, <1>6, <1>7 DEF Next

\* PeerTransport implements ReliableMessage: while no pendant resets, each one
\* hears one sender and a reliable message has one fragment, messages are handed
\* up at most once and in the order they were accepted, and each is reported at
\* most once, a reliable one as successful only after it was handed up.
THEOREM PromiseKept ==
  ASSUME Rebooting = {}, IsFiniteSet(Message), OneFragment, OneSource
  PROVE  Spec => KeepsPromise
<1>1. SendersStay /\ ReceiversStay
  BY DEF SendersStay, ReceiversStay
<1>2. Spec => []IInv
  BY <1>1, Invariance
<1>3. Spec => []OrderInv
  BY <1>1, OrderInvariance
<1>4. Init => PromiseInv /\ Promise!Init
  BY InitPromise
<1>5. IInv /\ OrderInv /\ PromiseInv /\ [Next]_vars
        => PromiseInv' /\ [Promise!Next]_(Promise!vars)
  BY PromiseStep
<1>. QED  BY <1>2, <1>3, <1>4, <1>5, PTL DEF Spec, KeepsPromise, Promise!Spec

=============================================================================
