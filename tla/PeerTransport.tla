--------------------------- MODULE PeerTransport ---------------------------
(***************************************************************************)
(* Messages between pendants over extended advertising                     *)
(* (vendor/pendant/peer_transport/app_peer_transport.c) with the two       *)
(* one-entry queues it goes through: the advertising scheduler's           *)
(* (adv_scheduler/app_adv_scheduler.c) and the scanner's deferred frame    *)
(* (scan/app_scan.c).                                                      *)
(*                                                                         *)
(* A pendant repeats the frame it has on air until another replaces it;    *)
(* whoever listens hears it any number of times or never.  A message is    *)
(* cut into at most two fragments; a reliable one is acknowledged          *)
(* fragment by fragment and retransmitted in rounds.                       *)
(*                                                                         *)
(* A clock_time_exceed test may answer either way once its tick is set:    *)
(* the properties that hold do not depend on how long the timers are.      *)
(* frame_seq tells the transmissions of one fragment apart, which the      *)
(* retry round does as well.  The message type is the same for all.        *)
(***************************************************************************)
EXTENDS Naturals, FiniteSets, Sequences

CONSTANTS
  Device,          \* pendants
  Broadcast,       \* the zero EID
  None,            \* an inactive context, an empty queue
  Message,         \* what the upper layers hand over, each at most once
  From, To,        \* sender and destination of each message
  Count,           \* number of fragments
  Reliable,        \* APP_PEER_SEND_RELIABLE or not
  MaxRetryRounds,  \* APP_PEER_TX_MAX_RETRY_ROUNDS
  AckRepeat,       \* APP_PEER_ACK_REPEAT_x of each status
  Rebooting,       \* pendants that may lose power
  MaxReboots       \* bound on their number of reboots

MaxFragments == 2  \* APP_PEER_TRANSPORT_MAX_FRAGMENTS

Status == {"PARTIAL", "COMPLETE", "DUP_COMPLETE", "BUSY", "REJECTED", "TIMEOUT"}

ASSUME DeviceAssumption  == Broadcast \notin Device /\ None \notin Device
ASSUME MessageAssumption ==
  /\ From \in [Message -> Device] /\ To \in [Message -> Device \cup {Broadcast}]
  /\ Count \in [Message -> 1..MaxFragments] /\ Reliable \in [Message -> BOOLEAN]
  \* start_tx_message refuses a reliable broadcast, on_report its own frames
  /\ \A m \in Message : To[m] # From[m] /\ (Reliable[m] => To[m] # Broadcast)
ASSUME BoundAssumption ==
  /\ MaxRetryRounds \in Nat /\ MaxReboots \in Nat
  /\ AckRepeat \in [Status -> Nat \ {0}] /\ Rebooting \subseteq Device

Index   == 0..MaxFragments - 1
All(n)  == 0..n - 1
MsgId   == Nat \ {0}

TxContext == [msg: Message, id: MsgId, acked: SUBSET Index, pending: SUBSET Index,
              round: 0..MaxRetryRounds]
\* got: the fragments in the buffer, each with the message it came from
Buffer    == UNION {[s -> Message] : s \in SUBSET Index}
RxContext == [src: Device, dst: Device \cup {Broadcast}, id: MsgId,
              count: 1..MaxFragments, reliable: BOOLEAN, got: Buffer]
Seq4Frame == Index \X (0..MaxRetryRounds)
Completed == [src: Device, dst: Device \cup {Broadcast}, id: MsgId,
              lastDup: Seq4Frame \cup {None}]
ASSUME NoneAssumption == None \notin Completed   \* an entry in use is not an empty one
Ack       == [to: Device, id: MsgId, count: 1..MaxFragments, bitmap: SUBSET Index,
              status: Status, left: Nat \ {0}]
DataFrame == [kind: {"DATA"}, src: Device, dst: Device \cup {Broadcast}, id: MsgId,
              index: Index, count: 1..MaxFragments, reliable: BOOLEAN,
              seq: Seq4Frame, msg: Message]
AckFrame  == [kind: {"ACK"}, src: Device, dst: Device, id: MsgId,
              count: 1..MaxFragments, bitmap: SUBSET Index, status: Status]
Frame     == DataFrame \cup AckFrame

VARIABLES
  nextId,     \* s_message_id
  tx,         \* s_tx
  rx,         \* s_rx[0]
  completed,  \* s_completed[0]
  ack,        \* s_ack
  queue,      \* s_frame_queue[0] of the scheduler
  onAir,      \* the extended advertising data, if a data or ack frame
  deferred,   \* s_defer_q[0] of the scanner
  reboots,
  \* what the upper layers saw
  started,    \* messages accepted by start_tx_message
  idOf,       \* the message id each got
  heard,      \* fragments of each message its destination has put in a buffer
  delivered,  \* the buffers handed to s_rx_cb, in order
  outcome     \* how each message ended; s_tx_cb reports it for the reliable ones

radio  == <<queue, onAir, deferred>>
upper  == <<started, idOf, heard, delivered, outcome>>
vars   == <<nextId, tx, rx, completed, ack, radio, reboots, upper>>

TypeOK ==
  /\ nextId \in [Device -> MsgId]
  /\ tx \in [Device -> TxContext \cup {None}]
  /\ rx \in [Device -> RxContext \cup {None}]
  /\ completed \in [Device -> Completed \cup {None}]
  /\ ack \in [Device -> Ack \cup {None}]
  /\ queue \in [Device -> Frame \cup {None}]
  /\ onAir \in [Device -> Frame \cup {None}]
  /\ deferred \in [Device -> Frame \cup {None}]
  /\ reboots \in 0..MaxReboots
  /\ started \subseteq Message
  /\ idOf \in [Message -> Nat]
  /\ heard \in [Message -> SUBSET Index]
  /\ delivered \in [Device -> Seq(Buffer)]
  /\ outcome \in [Message -> {"none", "ok", "failed"}]

-----------------------------------------------------------------------------
(* The ack slot *)

\* schedule_ack: an identical pending ack is kept with its remaining
\* repetitions, any other is overwritten.
Scheduled(slot, to, id, count, bitmap, status) ==
  LET new == [to |-> to, id |-> id, count |-> count, bitmap |-> bitmap,
              status |-> status, left |-> AckRepeat[status]]
  IN IF slot # None /\ [slot EXCEPT !.left = new.left] = new THEN slot ELSE new

\* send_ack_once on a slot it may send now.
SendAck(d, slot) ==
  /\ slot # None /\ queue[d] = None
  /\ queue' = [queue EXCEPT ![d] =
       [kind |-> "ACK", src |-> d, dst |-> slot.to, id |-> slot.id,
        count |-> slot.count, bitmap |-> slot.bitmap, status |-> slot.status]]
  /\ ack' = [ack EXCEPT ![d] =
       IF slot.left = 1 THEN None ELSE [slot EXCEPT !.left = @ - 1]]

\* The slot is empty, the queue is full, or APP_PEER_ACK_INTERVAL_US has not
\* passed since the last of its repetitions.
NoAckNow(d, slot) ==
  \/ slot = None \/ queue[d] # None
  \/ slot # None /\ slot.left < AckRepeat[slot.status]

-----------------------------------------------------------------------------
(* Sending *)

\* Mutant: the context is cleared, but the upper layer is not told.
FinishSilently(d, t, result) ==
  /\ tx' = [tx EXCEPT ![d] = None]
  /\ UNCHANGED outcome

\* tx_finish_success, tx_finish_fail: s_tx_cb is called for messages with the
\* NOTIFY flag, which the release build gives to the reliable ones.
Finish(d, t, result) ==
  /\ tx' = [tx EXCEPT ![d] = None]
  /\ outcome' = [outcome EXCEPT ![t.msg] = result]

SendFragment(d, t, i) ==
  /\ queue' = [queue EXCEPT ![d] =
       [kind |-> "DATA", src |-> d, dst |-> To[t.msg], id |-> t.id, index |-> i,
        count |-> Count[t.msg], reliable |-> Reliable[t.msg],
        seq |-> <<i, t.round>>, msg |-> t.msg]]
  /\ tx' = [tx EXCEPT ![d] = [t EXCEPT !.pending = @ \ {i}]]

RoundsLeft(t) == t.round < MaxRetryRounds

\* tx_poll on the context t.
TxPoll(d, t) ==
  LET left    == t.pending \ t.acked
      missing == All(Count[t.msg]) \ t.acked
      first   == CHOOSE i \in left : \A j \in left : i <= j
      unsent  == t.round = 0 /\ left = All(Count[t.msg])
  IN
  \/ t = None /\ UNCHANGED <<tx, queue, outcome>>
  \/ /\ t # None /\ tx[d] # None                  \* APP_PEER_TX_TOTAL_TIMEOUT_US
     /\ Finish(d, t, "failed") /\ UNCHANGED queue
  \/ /\ t # None /\ left # {}
     /\ queue[d] # None \/ ~unsent                \* queue full, or fragment gap
     /\ tx' = [tx EXCEPT ![d] = [t EXCEPT !.pending = left]]
     /\ UNCHANGED <<queue, outcome>>
  \/ /\ t # None /\ left # {} /\ queue[d] = None
     /\ SendFragment(d, [t EXCEPT !.pending = left], first) /\ UNCHANGED outcome
  \/ /\ t # None /\ left = {} /\ (~Reliable[t.msg] \/ missing = {})
     /\ Finish(d, t, "ok") /\ UNCHANGED queue
  \/ /\ t # None /\ left = {} /\ Reliable[t.msg] /\ missing # {}
     /\ \/ tx' = [tx EXCEPT ![d] = [t EXCEPT !.pending = {}]]       \* ack wait
           /\ UNCHANGED <<queue, outcome>>
        \/ ~RoundsLeft(t)
           /\ Finish(d, t, "failed") /\ UNCHANGED queue
        \/ RoundsLeft(t)
           /\ tx' = [tx EXCEPT ![d] = [t EXCEPT !.pending = missing, !.round = @ + 1]]
           /\ UNCHANGED <<queue, outcome>>

\* app_peer_transport_poll with t as the transmit context: the receive
\* timeouts, then one acknowledgement or else tx_poll.
PollWith(d, t, expired) ==
  LET r    == rx[d]
      slot == IF expired /\ r.reliable
                THEN Scheduled(ack[d], r.src, r.id, r.count, DOMAIN r.got, "TIMEOUT")
                ELSE ack[d]
  IN
  /\ expired => r # None
  /\ rx' = [rx EXCEPT ![d] = IF expired THEN None ELSE r]
  /\ \/ SendAck(d, slot) /\ tx' = [tx EXCEPT ![d] = t] /\ UNCHANGED outcome
     \/ /\ NoAckNow(d, slot)
        /\ ack' = [ack EXCEPT ![d] = slot]
        /\ TxPoll(d, t)

Poll(d) ==
  /\ \E expired \in BOOLEAN : PollWith(d, tx[d], expired)
  /\ UNCHANGED <<nextId, completed, onAir, deferred, reboots,
                 started, idOf, heard, delivered>>

\* start_tx_message for a message it accepts; it ends with a poll.
Start(d, m) ==
  LET t == [msg |-> m, id |-> nextId[d], acked |-> {}, pending |-> All(Count[m]),
            round |-> 0]
  IN
  /\ From[m] = d /\ m \notin started /\ tx[d] = None
  /\ started' = started \cup {m} /\ idOf' = [idOf EXCEPT ![m] = t.id]
  /\ nextId' = [nextId EXCEPT ![d] = @ + 1]
  /\ \E expired \in BOOLEAN : PollWith(d, t, expired)
  /\ UNCHANGED <<completed, onAir, deferred, reboots, heard, delivered>>

\* app_adv_scheduler_poll: the queued frame goes on air, or a beacon replaces
\* the frame on air once it has been held long enough.
AdvPoll(d) ==
  /\ onAir' = [onAir EXCEPT ![d] = queue[d]]
  /\ queue' = [queue EXCEPT ![d] = None]
  /\ UNCHANGED <<nextId, tx, rx, completed, ack, deferred, reboots, upper>>

-----------------------------------------------------------------------------
(* Receiving *)

\* app_scan_on_report: a frame heard while another is deferred is dropped.
OnReport(d, e) ==
  /\ d # e /\ onAir[e] # None /\ deferred[d] = None
  /\ deferred' = [deferred EXCEPT ![d] = onAir[e]]
  /\ UNCHANGED <<nextId, tx, rx, completed, ack, queue, onAir, reboots, upper>>

\* handle_ack_frame
HandleAck(d, f) ==
  LET t     == tx[d]
      match == /\ f.dst = d /\ t # None
               /\ t.id = f.id /\ To[t.msg] = f.src /\ Count[t.msg] = f.count
  IN
  /\ \/ match /\ f.status \in {"COMPLETE", "DUP_COMPLETE"} /\ Finish(d, t, "ok")
     \/ match /\ f.status \in {"REJECTED", "TIMEOUT"} /\ Finish(d, t, "failed")
     \/ /\ match /\ f.status = "PARTIAL"
        /\ LET acked == t.acked \cup (f.bitmap \cap All(f.count))
           IN tx' = [tx EXCEPT ![d].acked = acked, ![d].pending = @ \ acked]
        /\ UNCHANGED outcome
     \/ ~match /\ UNCHANGED <<tx, outcome>>
     \/ f.status = "BUSY" /\ UNCHANGED <<tx, outcome>>  \* prolongs the ack wait
  /\ UNCHANGED <<rx, completed, ack, heard, delivered>>

\* Mutant: the id is not part of the key.
SameSender(r, f) == r.src = f.src /\ r.dst = f.dst
\* The key of the receive context and of the completed cache.
SameMessage(r, f) == r.id = f.id /\ r.src = f.src /\ r.dst = f.dst

\* A duplicate of the completed message.
HandleCompleted(d, f) ==
  /\ IF f.reliable /\ completed[d].lastDup # f.seq
       THEN /\ ack' = [ack EXCEPT ![d] =
                 Scheduled(@, f.src, f.id, f.count, All(f.count), "DUP_COMPLETE")]
            /\ completed' = [completed EXCEPT ![d].lastDup = f.seq]
       ELSE UNCHANGED <<ack, completed>>
  /\ UNCHANGED <<rx, heard, delivered>>

\* An acknowledgement that leaves the receive context alone.
Answer(d, f, bitmap, status) ==
  /\ ack' = IF f.reliable
              THEN [ack EXCEPT ![d] =
                     Scheduled(@, f.src, f.id, f.count, bitmap, status)]
              ELSE ack
  /\ UNCHANGED <<rx, completed, heard, delivered>>

\* Mutant: the last fragment is taken for all of them.
CompleteAtLast(got, n) == n - 1 \in DOMAIN got
Complete(got, n) == DOMAIN got = All(n)

\* Mutant: rx_complete does not enter the message in the completed cache.
Forget(d, r) == completed
\* completed_cache_add on the only entry
Remember(d, r) ==
  [completed EXCEPT ![d] = [src |-> r.src, dst |-> r.dst, id |-> r.id, lastDup |-> None]]

\* A fragment that is new to the context r.
Accept(d, f, r) ==
  LET got      == [i \in DOMAIN r.got \cup {f.index} |->
                     IF i = f.index THEN f.msg ELSE r.got[i]]
      complete == Complete(got, r.count)
  IN
  /\ heard' = [heard EXCEPT ![f.msg] = @ \cup {f.index}]
  /\ ack' = IF f.reliable
              THEN [ack EXCEPT ![d] =
                     Scheduled(@, r.src, r.id, r.count, DOMAIN got,
                               IF complete THEN "COMPLETE" ELSE "PARTIAL")]
              ELSE ack
  /\ IF complete                                            \* rx_complete
       THEN /\ completed' = Remember(d, r)
            /\ delivered' = [delivered EXCEPT ![d] = Append(@, got)]
            /\ rx' = [rx EXCEPT ![d] = None]
       ELSE /\ rx' = [rx EXCEPT ![d] = [r EXCEPT !.got = got]]
            /\ UNCHANGED <<completed, delivered>>

\* handle_data_v2
HandleData(d, f) ==
  LET r     == rx[d]
      known == completed[d] # None /\ SameMessage(completed[d], f)
      mine  == r # None /\ SameMessage(r, f)
      fresh == [src |-> f.src, dst |-> f.dst, id |-> f.id, count |-> f.count,
                reliable |-> f.reliable, got |-> <<>>]
  IN
  /\ \/ /\ f.dst \notin {d, Broadcast}
        /\ UNCHANGED <<rx, completed, ack, heard, delivered>>
     \/ /\ f.dst \in {d, Broadcast} /\ known
        /\ HandleCompleted(d, f)
     \/ /\ f.dst \in {d, Broadcast} /\ ~known /\ r # None /\ ~mine
        /\ Answer(d, f, {}, "BUSY")
     \/ /\ f.dst \in {d, Broadcast} /\ ~known /\ mine
        /\ r.count # f.count \/ r.reliable # f.reliable
        /\ Answer(d, f, DOMAIN r.got, "REJECTED")
     \/ /\ f.dst \in {d, Broadcast} /\ ~known /\ mine
        /\ r.count = f.count /\ r.reliable = f.reliable
        /\ IF f.index \in DOMAIN r.got THEN Answer(d, f, DOMAIN r.got, "PARTIAL")
                                       ELSE Accept(d, f, r)
     \/ /\ f.dst \in {d, Broadcast} /\ ~known /\ r = None
        /\ Accept(d, f, fresh)
  /\ UNCHANGED <<tx, outcome>>

\* app_scan_poll on the deferred frame.
ScanPoll(d) ==
  LET f == deferred[d] IN
  /\ f # None
  /\ \/ f.kind = "ACK" /\ HandleAck(d, f)
     \/ f.kind = "DATA" /\ HandleData(d, f)
  /\ deferred' = [deferred EXCEPT ![d] = None]
  /\ UNCHANGED <<nextId, queue, onAir, reboots, started, idOf>>

-----------------------------------------------------------------------------
\* app_peer_transport_init after a reset: every variable is RAM.
Reboot(d) ==
  /\ d \in Rebooting /\ reboots < MaxReboots
  /\ reboots' = reboots + 1
  /\ nextId' = [nextId EXCEPT ![d] = 1]
  /\ tx' = [tx EXCEPT ![d] = None] /\ rx' = [rx EXCEPT ![d] = None]
  /\ completed' = [completed EXCEPT ![d] = None] /\ ack' = [ack EXCEPT ![d] = None]
  /\ queue' = [queue EXCEPT ![d] = None] /\ onAir' = [onAir EXCEPT ![d] = None]
  /\ deferred' = [deferred EXCEPT ![d] = None]
  /\ UNCHANGED upper

Init ==
  /\ nextId = [d \in Device |-> 1]
  /\ tx = [d \in Device |-> None] /\ rx = [d \in Device |-> None]
  /\ completed = [d \in Device |-> None] /\ ack = [d \in Device |-> None]
  /\ queue = [d \in Device |-> None] /\ onAir = [d \in Device |-> None]
  /\ deferred = [d \in Device |-> None]
  /\ reboots = 0
  /\ started = {} /\ idOf = [m \in Message |-> 0] /\ heard = [m \in Message |-> {}]
  /\ delivered = [d \in Device |-> <<>>]
  /\ outcome = [m \in Message |-> "none"]

Next ==
  \E d \in Device :
    \/ Poll(d) \/ AdvPoll(d) \/ ScanPoll(d) \/ Reboot(d)
    \/ \E m \in Message : Start(d, m)
    \/ \E e \in Device : OnReport(d, e)

Spec == Init /\ [][Next]_vars

\* The main loop polls far more often than frames are heard, so tx_poll gets
\* its turn and, its timers being finite, acts.
Fairness == \A d \in Device : SF_tx(Poll(d)) /\ WF_vars(AdvPoll(d))

LiveSpec == Spec /\ Fairness

-----------------------------------------------------------------------------
(* Properties *)

Whole(m) == [i \in All(Count[m]) |-> m]
DeliveredTo(d) == {delivered[d][k] : k \in DOMAIN delivered[d]}

\* The acknowledgements d has pending, queued or on air, or that wait in the
\* other pendants' scanners.
AcksOf(d) ==
  {f \in {queue[d], onAir[d]} \cup {deferred[e] : e \in Device} :
     f # None /\ f.kind = "ACK" /\ f.src = d}
Acked(d, e, id) ==
  UNION ({f.bitmap : f \in {f \in AcksOf(d) : f.dst = e /\ f.id = id}}
         \cup {a.bitmap : a \in {a \in {ack[d]} : a # None /\ a.to = e /\ a.id = id}})
Completes(d, e, id) ==
  LET done == {"COMPLETE", "DUP_COMPLETE"} IN
  \/ \E f \in AcksOf(d) : f.dst = e /\ f.id = id /\ f.status \in done
  \/ ack[d] # None /\ ack[d].to = e /\ ack[d].id = id /\ ack[d].status \in done

\* A COMPLETE or DUP_COMPLETE acknowledgement, wherever it is on its way,
\* answers a message that was handed to the receiver's upper layer
\* (rx_complete and the completed cache, app_peer_transport.c:609-639, 859-869).
CompleteMeansDelivered ==
  \A m \in started :
    To[m] # Broadcast /\ Completes(To[m], From[m], idOf[m]) =>
      Whole(m) \in DeliveredTo(To[m])

\* Success of a reliable message is reported only after its destination has
\* put every fragment of it in a buffer (app_peer_transport.c:564-567, 717-751).
SuccessMeansHeard ==
  \A m \in started : Reliable[m] /\ outcome[m] = "ok" => heard[m] = All(Count[m])

\* Success of a reliable message is reported only after the destination's
\* upper layer got it.  Holds for messages of one fragment.
SuccessMeansDelivered ==
  \A m \in started :
    Reliable[m] /\ outcome[m] = "ok" => Whole(m) \in DeliveredTo(To[m])

\* What is handed up is a whole message meant for this pendant.  Holds while
\* no sender resets.
HandedUpWhole ==
  \A d \in Device : \A b \in DeliveredTo(d) :
    \E m \in started : b = Whole(m) /\ To[m] \in {d, Broadcast}

\* What is handed up has all its fragments, and they are of one message meant
\* for this pendant, or of several that one sender gave the same id: only its
\* reset makes that possible (the context keys, app_peer_transport.c:308-323).
Unspliced ==
  \A d \in Device : \A b \in DeliveredTo(d) :
    \E m \in started :
      /\ To[m] \in {d, Broadcast} /\ DOMAIN b = All(Count[m])
      /\ \A i \in DOMAIN b :
           From[b[i]] = From[m] /\ To[b[i]] = To[m] /\ idOf[b[i]] = idOf[m]

\* No message is handed up twice (the completed cache, lines 265-306).
AtMostOnce ==
  \A d \in Device : \A j, k \in DOMAIN delivered[d] :
    j # k => delivered[d][j] # delivered[d][k]

\* Messages of one fragment reach the upper layers as ReliableMessage says.
Promise ==
  INSTANCE ReliableMessage WITH
    accepted <- started, rank <- idOf, report <- outcome,
    received <- [d \in Device |-> [k \in DOMAIN delivered[d] |-> delivered[d][k][0]]]
KeepsPromise == Promise!Spec

\* Every accepted message ends, and a reliable one gets its report: the retry
\* rounds are bounded whatever acknowledgements arrive
\* (app_peer_transport.c:528-585).
Settles ==
  \A m \in Message : m \in started ~> outcome[m] # "none"

=============================================================================
