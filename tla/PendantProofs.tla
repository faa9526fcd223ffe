--------------------------- MODULE PendantProofs ---------------------------
(***************************************************************************)
(* Proofs about Pendant, for every number of neighbours: the stack suspends *)
(* as it should and the pendant stays awake for an update, always; no event *)
(* is lost, the state follows the link and a pendant that waits can be      *)
(* found, whenever the queue has room for the link events of a pass and the *)
(* three events of the polls (QueueRoom).                                   *)
(***************************************************************************)
EXTENDS Pendant, SequenceTheorems, FiniteSetTheorems, TLAPS

Notices    == {"BATTERY_LOW", "CHARGE", "PEER_FOUND", "PEER_LEVEL_CHANGED"}
LinkEvents == {"APP_CONNECTED", "APP_DISCONNECTED"}
BootEvents == {"BOOT_DONE", "SELF_CHECK_OK", "SELF_CHECK_FAIL"}
Event      == Notices \cup LinkEvents \cup BootEvents \cup {"SLEEP_READY"}

Queued(q, e) == \E i \in 1 .. Len(q) : q[i] = e
AllIn(q, S)  == \A i \in 1 .. Len(q) : q[i] \in S

(* A request to sleep is on its way only without an update, and none starts *)
(* before it is handled.                                                    *)
WakeInv ==
  /\ mask <=> blockers = {}
  /\ ota => "OTA" \in blockers
  /\ turn \in Polls \cup {"asleep"} => ~ota
  /\ Queued(queue, "SLEEP_READY") =>
       ~ota /\ turn \notin Polls /\ (turn = "stack" /\ conn => heard > 0)

-----------------------------------------------------------------------------
(* The queue has room for what the polls of a pass post and for the link    *)
(* events of the stack.  The firmware's queue holds four, it waits 300 s.   *)
QueueRoom == QueueSize >= 3 + Callbacks /\ IdleLimit >= 2

(* What the queue holds when.                                               *)
RoomInv ==
  /\ ~lost
  /\ turn = "scan" => queue = <<>>
  /\ turn \in {"discovery", "power"} => Len(queue) <= 1
  /\ turn = "pm" => Len(queue) <= 3
  /\ turn = "stack" => Len(queue) <= 3 + heard
  /\ turn \in Polls => AllIn(queue, Notices)

(* After a quiet second the polls have little to tell.                      *)
QuietInv ==
  /\ \A e \in Eids : ~peers[e].used => peers[e] = NoPeer
  /\ idle > 0 /\ ~requested =>
       /\ turn \in {"stack", "system", "scan"} =>
            ~charging /\ \A e \in Eids : peers[e].level = 0 /\ ~peers[e].entering
       /\ turn \in {"discovery", "power"} => ~charging /\ queue = <<>>
       /\ turn = "pm" /\ ~charging => Len(queue) <= 1

(* A request to sleep is in the queue until it is handled, before any news  *)
(* of the link.                                                             *)
RequestInv ==
  requested /\ turn # "asleep" =>
    /\ sys = "SLEEP_PREPARE" /\ turn \in {"stack", "system"}
    /\ \E i \in 1 .. Len(queue) :
         queue[i] = "SLEEP_READY" /\ \A j \in 1 .. i - 1 : queue[j] \in Notices

(* The last news of the link in the queue, or else the state, agrees with   *)
(* the link.                                                                *)
LinkHeard ==
  \/ /\ \A i \in 1 .. Len(queue) : queue[i] \notin LinkEvents
     /\ sys = "APP_CONNECTED" <=> conn
  \/ \E i \in 1 .. Len(queue) :
       /\ queue[i] \in LinkEvents /\ (queue[i] = "APP_CONNECTED" <=> conn)
       /\ \A j \in i + 1 .. Len(queue) : queue[j] \notin LinkEvents

LinkInv ==
  turn # "asleep" /\ ~requested =>
    /\ sys # "SLEEP_PREPARE"
    /\ sys = "BOOT" => queue = <<"BOOT_DONE">> /\ turn \in {"stack", "system"}
    /\ sys = "SELF_CHECK" =>
         queue \in {<<"SELF_CHECK_OK">>, <<"SELF_CHECK_FAIL">>} /\ turn = "system"
    /\ sys \notin {"BOOT", "SELF_CHECK"} => AllIn(queue, Notices \cup LinkEvents)
    /\ sys \in {"BOOT", "SELF_CHECK", "ERROR"} =>
         ~conn /\ ~incoming /\ ~ota /\ radio = Dark
    /\ sys = "ERROR" => AllIn(queue, Notices)
    /\ sys \in {"ADV_SCAN", "APP_CONNECTED"} => LinkHeard

(* What is switched off for a link is remembered, and on without one.       *)
RadioInv ==
  turn # "asleep" /\ ~requested /\ sys \in {"ADV_SCAN", "APP_CONNECTED"} =>
    /\ radio.adv0
    /\ ~conn => radio.adv1 /\ (Scanning => radio.scan) /\ (radio.air0 <=> ~incoming)
    /\ conn => /\ ~radio.air0 /\ ~incoming
               /\ resume.adv0 /\ resume.adv1 /\ (Scanning => resume.scan)

IInv == RoomInv /\ QuietInv /\ RequestInv /\ LinkInv /\ RadioInv

-----------------------------------------------------------------------------
(* Facts about the queue.                                                   *)

LEMMA Events ==
  {"BOOT_DONE", "SELF_CHECK_OK", "SELF_CHECK_FAIL", "APP_CONNECTED",
   "APP_DISCONNECTED", "SLEEP_READY", "BATTERY_LOW", "CHARGE",
   "PEER_FOUND", "PEER_LEVEL_CHANGED"} = Event
BY DEF Event, Notices, LinkEvents, BootEvents

LEMMA TailFacts ==
  ASSUME NEW S, NEW s \in Seq(S), s # <<>>
  PROVE  /\ Len(s) \in Nat \ {0} /\ Head(s) = s[1] /\ Head(s) \in S
         /\ Tail(s) \in Seq(S) /\ Len(Tail(s)) = Len(s) - 1
         /\ \A i \in 1 .. Len(Tail(s)) : Tail(s)[i] = s[i + 1]
<1>1. Len(s) \in Nat \ {0}
  BY EmptySeq
<1>2. Head(s) = s[1]
  OBVIOUS
<1>. QED  BY <1>1, <1>2, HeadTailProperties

\* What the battery and the charger post.
LEMMA PowerEvents ==
  ASSUME NEW low \in BOOLEAN, NEW plug \in BOOLEAN
  PROVE  ((IF low THEN <<"BATTERY_LOW">> ELSE <<>>) \o IF plug THEN <<"CHARGE">> ELSE <<>>)
           \in {<<>>, <<"BATTERY_LOW">>, <<"CHARGE">>, <<"BATTERY_LOW", "CHARGE">>}
<1>. DEFINE a == <<"BATTERY_LOW">>
            b == <<"CHARGE">>
            ab == <<"BATTERY_LOW", "CHARGE">>
<1>1. a \in Seq(Event) /\ b \in Seq(Event) /\ ab \in Seq(Event)
  BY DEF Event, Notices
<1>2. a \o <<>> = a /\ <<>> \o b = b /\ <<>> \o <<>> = <<>>
  BY <1>1, ConcatEmptySeq, EmptySeq
<1>3. a \o b = ab
  <2>1. /\ a \o b \in Seq(Event) /\ Len(a \o b) = 2
        /\ \A i \in 1 .. 2 : (a \o b)[i] = IF i <= 1 THEN a[i] ELSE b[i - 1]
    BY <1>1, ConcatProperties
  <2>2. \A i \in 1 .. 2 : (a \o b)[i] = ab[i]
    BY <2>1
  <2>3. Len(ab) = 2
    OBVIOUS
  <2>. QED  BY <1>1, <2>1, <2>2, <2>3, SeqEqual
<1>. QED  BY <1>2, <1>3, Zenon

\* What Post appends follows what was there; a full queue drops it.
LEMMA PostFacts ==
  ASSUME NEW q \in Seq(Event), NEW events \in Seq(Event), Post(q, events)
  PROVE  /\ queue' \in Seq(Event)
         /\ Len(queue') <= QueueSize /\ Len(queue') <= Len(q) + Len(events)
         /\ \A i \in 1 .. Len(queue') :
              queue'[i] = IF i <= Len(q) THEN q[i] ELSE events[i - Len(q)]
         /\ Len(q) + Len(events) <= QueueSize =>
              /\ queue' = q \o events /\ Len(queue') = Len(q) + Len(events)
              /\ ~lost => ~lost'
         /\ lost \in BOOLEAN => lost' \in BOOLEAN
<1>. DEFINE all == q \o events
<1>1. /\ all \in Seq(Event) /\ Len(all) = Len(q) + Len(events)
      /\ Len(q) \in Nat /\ Len(events) \in Nat
      /\ \A i \in 1 .. Len(all) :
           all[i] = IF i <= Len(q) THEN q[i] ELSE events[i - Len(q)]
  BY ConcatProperties, LenProperties
<1>2. QueueSize \in Nat \ {0}
  BY SizeAssumption
<1>3. lost' \in BOOLEAN /\ (Len(q) + Len(events) <= QueueSize /\ ~lost => ~lost')
  <2>1. lost' = (lost \/ Len(q) + Len(events) > QueueSize)
    BY DEF Post
  <2>2. Len(q) + Len(events) <= QueueSize => ~(Len(q) + Len(events) > QueueSize)
    BY <1>1, <1>2
  <2>. QED  BY <2>1, <2>2, Zenon
<1>4. CASE Len(all) <= QueueSize
  <2>1. queue' = all
    BY <1>4 DEF Post, Kept
  <2>. HIDE DEF all
  <2>. QED  BY <2>1, <1>1, <1>2, <1>3, <1>4 DEF all
<1>5. CASE ~(Len(all) <= QueueSize)
  <2>1. queue' = SubSeq(all, 1, QueueSize)
    BY <1>5 DEF Post, Kept
  <2>. HIDE DEF all
  <2>2. \A i \in 1 .. QueueSize : all[i] \in Event
    BY <1>1, <1>2, <1>5, ElementOfSeq
  <2>3. /\ SubSeq(all, 1, QueueSize) \in Seq(Event)
        /\ Len(SubSeq(all, 1, QueueSize))
             = (IF 1 <= QueueSize THEN QueueSize - 1 + 1 ELSE 0)
        /\ \A i \in 1 .. QueueSize - 1 + 1 :
             SubSeq(all, 1, QueueSize)[i] = all[1 + i - 1]
    <3>1. 1 \in Int /\ QueueSize \in Int
      BY <1>2
    <3>. QED  BY <2>2, <3>1, SubSeqProperties
  <2>4. Len(queue') = QueueSize /\ \A i \in 1 .. QueueSize : queue'[i] = all[i]
    BY <2>1, <2>3, <1>2
  <2>. QED  BY <2>1, <2>3, <2>4, <1>1, <1>2, <1>3, <1>5
<1>. QED  BY <1>4, <1>5

-----------------------------------------------------------------------------
(* Types, one group of variables at a time.                                 *)

Radio  == [adv0 : BOOLEAN, air0 : BOOLEAN, adv1 : BOOLEAN, scan : BOOLEAN]
Resume == [adv0 : BOOLEAN, adv1 : BOOLEAN, scan : BOOLEAN]
Peer   == [level : 0 .. TopLevel, entering : BOOLEAN, exiting : BOOLEAN, used : BOOLEAN]

QueueType == queue \in Seq(Event) /\ Len(queue) <= QueueSize /\ lost \in BOOLEAN
RadioType == radio \in Radio /\ resume \in Resume
SleepType == blockers \subseteq {"BOOT", "ACTIVITY", "OTA"} /\ mask \in BOOLEAN
PeersType == /\ peers \in [Eids -> Peer] /\ Count <= PeerMax
             /\ beacon \in [eid : Eids, target : 0 .. TopLevel] \cup {NoBeacon}
StateType ==
  /\ turn \in {"stack", "system", "asleep"} \cup Polls
  /\ sys \in {"BOOT", "SELF_CHECK", "ADV_SCAN", "APP_CONNECTED", "SLEEP_PREPARE", "ERROR"}
  /\ conn \in BOOLEAN /\ incoming \in BOOLEAN /\ ota \in BOOLEAN
  /\ requested \in BOOLEAN /\ charging \in BOOLEAN /\ moved \in BOOLEAN
  /\ idle \in 0 .. IdleLimit /\ heard \in 0 .. Callbacks

TypeInv == QueueType /\ RadioType /\ SleepType /\ PeersType /\ StateType

LEMMA TypeParts == TypeInv => TypeOK
<1>. SUFFICES ASSUME TypeInv PROVE TypeOK
  OBVIOUS
<1>1. beacon \in [eid : Eids \cup {NoOne}, target : 0 .. TopLevel]
  BY SizeAssumption DEF TypeInv, PeersType, NoBeacon
<1>. QED
  BY <1>1, Events
  DEF TypeOK, TypeInv, QueueType, RadioType, SleepType, PeersType, StateType, Radio, Resume, Peer

LEMMA QueueTypeStep == QueueType /\ [Next]_vars => QueueType'
<1>. SUFFICES ASSUME QueueType, [Next]_vars PROVE QueueType'
  OBVIOUS
<1>1. <<"BOOT_DONE">> \in Seq(Event) /\ Len(<<"BOOT_DONE">>) <= QueueSize
  BY SizeAssumption DEF Event, BootEvents
<1>2. ASSUME NEW q \in Seq(Event), NEW events \in Seq(Event), Post(q, events)
      PROVE  QueueType'
  BY <1>2, PostFacts DEF QueueType
<1>3. CASE OnConnected \/ OnDisconnected
  <2>1. <<"APP_CONNECTED">> \in Seq(Event) /\ <<"APP_DISCONNECTED">> \in Seq(Event)
    BY DEF Event, LinkEvents
  <2>. QED  BY <1>2, <1>3, <2>1 DEF OnConnected, OnDisconnected, QueueType
<1>4. CASE HandleEvent
  <2>1. Tail(queue) \in Seq(Event)
    BY <1>4, TailFacts DEF HandleEvent, QueueType
  <2>2. /\ <<>> \in Seq(Event) /\ <<"SELF_CHECK_OK">> \in Seq(Event)
        /\ <<"SELF_CHECK_FAIL">> \in Seq(Event)
    BY EmptySeq DEF Event, BootEvents
  <2>3. \E events \in Seq(Event) : Post(Tail(queue), events)
    BY <1>4, <2>2 DEF HandleEvent, Handle
  <2>. QED  BY <1>2, <2>1, <2>3
<1>5. CASE ScanPoll
  <2>1. ASSUME NEW old, NEW new PROVE LevelEvents(old, new) \in Seq(Event)
    BY EmptySeq DEF LevelEvents, Event, Notices
  <2>. QED  BY <1>2, <1>5, <2>1 DEF ScanPoll, QueueType
<1>6. CASE PowerPoll
  <2>1. PICK low \in BOOLEAN, plugged \in BOOLEAN :
          Post(queue, (IF low THEN <<"BATTERY_LOW">> ELSE <<>>)
                      \o IF plugged # charging THEN <<"CHARGE">> ELSE <<>>)
    BY <1>6 DEF PowerPoll
  <2>. DEFINE a == IF low THEN <<"BATTERY_LOW">> ELSE <<>>
              b == IF plugged # charging THEN <<"CHARGE">> ELSE <<>>
  <2>2. <<"BATTERY_LOW">> \in Seq(Event) /\ <<"CHARGE">> \in Seq(Event)
    BY DEF Event, Notices
  <2>3. a \in Seq(Event) /\ b \in Seq(Event)
    BY <2>2, EmptySeq, Zenon
  <2>4. a \o b \in Seq(Event) /\ Post(queue, a \o b)
    BY <2>1, <2>3, ConcatProperties
  <2>. HIDE DEF a, b
  <2>. QED  BY <1>2, <2>4 DEF QueueType
<1>7. CASE PmCounts
  <2>1. <<"SLEEP_READY">> \in Seq(Event)
    BY DEF Event
  <2>. QED  BY <1>2, <1>7, <2>1 DEF PmCounts, RequestSleep, QueueType
<1>8. CASE OtaFails \/ OtaReset \/ Wake
  BY <1>1, <1>8 DEF OtaFails, OtaReset, Wake, Reboot, QueueType
<1>9. CASE UNCHANGED <<queue, lost>>
  BY <1>9 DEF QueueType
<1>. QED
  BY <1>3, <1>4, <1>5, <1>6, <1>7, <1>8, <1>9
  DEF Next, vars, near, power, PhoneConnects, HostActivity, OtaStart, OtaSucceeds,
      BeaconHeard, DataHeard, StackDone, SystemDone, DiscoveryPoll, PmWaits

LEMMA RadioTypeStep == RadioType /\ StateType /\ [Next]_vars => RadioType'
<1>. SUFFICES ASSUME RadioType, StateType, [Next]_vars PROVE RadioType'
  OBVIOUS
<1>. USE DEF RadioType
<1>0. conn \in BOOLEAN /\ incoming \in BOOLEAN
  BY DEF StateType
<1>1. ASSUME NEW r \in Radio, NEW on \in BOOLEAN, NEW linked \in BOOLEAN
      PROVE  SetAdv0(r, on, linked) \in Radio /\ SetAdv1(r, on) \in Radio
             /\ SetScan(r, on) \in Radio
  BY SizeAssumption DEF SetAdv0, SetAdv1, SetScan, Radio
<1>2. StartAdvScan(radio) \in Radio /\ StopAdvScan(radio) \in Radio
  BY <1>0, <1>1, (conn \/ incoming) \in BOOLEAN DEF StartAdvScan, StopAdvScan
<1>3. CASE PhoneConnects
  BY <1>3 DEF PhoneConnects, Radio
<1>4. CASE OnConnected \/ OtaStart
  <2>1. SetAdv1(SetScan(radio, FALSE), FALSE) \in Radio
    BY <1>1
  <2>2. [adv0 |-> radio.adv0, adv1 |-> radio.adv1, scan |-> radio.scan] \in Resume
    BY DEF Radio, Resume
  <2>3. /\ radio' = SetAdv1(SetScan(radio, FALSE), FALSE)
        /\ resume' \in {resume, [adv0 |-> radio.adv0, adv1 |-> radio.adv1, scan |-> radio.scan]}
    BY <1>4 DEF OnConnected, OtaStart
  <2>. QED  BY <2>1, <2>2, <2>3
<1>5. CASE OnDisconnected
  <2>1. Resumed(radio) \in Radio
    BY <1>1 DEF Resumed
  <2>. QED  BY <1>5, <2>1 DEF OnDisconnected, NoResume, Resume
<1>6. CASE OtaFails \/ OtaReset \/ Wake
  <2>1. radio' = Dark /\ resume' = NoResume
    BY <1>6 DEF OtaFails, OtaReset, Wake, Reboot
  <2>. QED  BY <2>1 DEF Dark, NoResume, Radio, Resume
<1>7. CASE UNCHANGED resume /\ radio' \in {radio, StartAdvScan(radio), StopAdvScan(radio)}
  BY <1>2, <1>7
<1>. QED
  BY <1>3, <1>4, <1>5, <1>6, <1>7
  DEF Next, vars, near, power, HostActivity, OtaSucceeds, BeaconHeard, DataHeard, StackDone,
      HandleEvent, Handle, SystemDone, ScanPoll, DiscoveryPoll, PowerPoll, PmWaits,
      PmCounts, RequestSleep

LEMMA SleepTypeStep == SleepType /\ [Next]_vars => SleepType'
<1>. SUFFICES ASSUME SleepType, [Next]_vars PROVE SleepType'
  OBVIOUS
<1>1. ASSUME NEW set \in SUBSET {"BOOT", "ACTIVITY", "OTA"}, Blocking(set)
      PROVE  SleepType'
  <2>1. mask' \in {set = {}, mask} /\ blockers' = set
    BY <1>1 DEF Blocking
  <2>. QED  BY <2>1 DEF SleepType
<1>2. CASE HostActivity \/ OtaStart
  BY <1>1, <1>2 DEF HostActivity, OtaStart, SleepType
<1>3. CASE Holds(blockers)
  BY <1>1, <1>3 DEF Holds, SleepType
<1>4. CASE OtaFails \/ OtaReset \/ Wake
  <2>1. blockers' = {"BOOT"} /\ mask' = FALSE
    BY <1>4 DEF OtaFails, OtaReset, Wake, Reboot
  <2>. QED  BY <2>1 DEF SleepType
<1>5. CASE UNCHANGED <<blockers, mask>>
  BY <1>5 DEF SleepType
<1>. QED
  BY <1>2, <1>3, <1>4, <1>5
  DEF Next, vars, near, power, PhoneConnects, OnConnected, OnDisconnected, OtaSucceeds,
      BeaconHeard, DataHeard, StackDone, HandleEvent, SystemDone, ScanPoll, DiscoveryPoll, PowerPoll,
      PmWaits, PmCounts

LEMMA StateTypeStep == StateType /\ [Next]_vars => StateType'
<1>. SUFFICES ASSUME StateType, [Next]_vars PROVE StateType'
  OBVIOUS
<1>1. 0 \in 0 .. IdleLimit /\ IdleLimit \in 0 .. IdleLimit /\ 0 \in 0 .. Callbacks
  BY SizeAssumption
<1>2. CASE OtaFails \/ OtaReset \/ Wake
  BY <1>1, <1>2 DEF OtaFails, OtaReset, Wake, Reboot, StateType
<1>3. CASE OnConnected \/ OnDisconnected
  <2>1. heard < Callbacks /\ heard \in 0 .. Callbacks
    BY <1>3 DEF OnConnected, OnDisconnected, StateType
  <2>2. heard + 1 \in 0 .. Callbacks
    BY <2>1, SizeAssumption
  <2>. QED  BY <1>3, <2>2 DEF OnConnected, OnDisconnected, StateType, power
<1>4. CASE PmCounts
  <2>1. idle' \in 0 .. IdleLimit
    BY <1>1, <1>4, SizeAssumption DEF PmCounts, StateType
  <2>. QED  BY <1>4, <2>1 DEF PmCounts, RequestSleep, StateType
<1>5. CASE PmWaits
  BY <1>1, <1>5 DEF PmWaits, StateType
<1>6. CASE HandleEvent
  BY <1>6 DEF HandleEvent, Handle, StateType, power
<1>7. CASE StackDone \/ SystemDone \/ ScanPoll \/ DiscoveryPoll
  BY <1>1, <1>7 DEF StackDone, SystemDone, ScanPoll, DiscoveryPoll, StateType, Polls, power
<1>8. CASE PowerPoll
  <2>1. charging' \in BOOLEAN /\ moved' \in BOOLEAN
    BY <1>8 DEF PowerPoll
  <2>2. turn' = "pm" /\ UNCHANGED <<sys, conn, incoming, ota, idle, requested, heard>>
    BY <1>8 DEF PowerPoll
  <2>. QED  BY <2>1, <2>2 DEF StateType, Polls
<1>9. CASE PhoneConnects \/ HostActivity \/ BeaconHeard \/ DataHeard
  <2>1. /\ incoming' \in {TRUE, incoming}
        /\ UNCHANGED <<turn, sys, conn, ota, idle, requested, charging, moved, heard>>
    BY <1>9 DEF PhoneConnects, HostActivity, BeaconHeard, DataHeard, power
  <2>. QED  BY <2>1 DEF StateType
<1>10. CASE OtaStart \/ OtaSucceeds
  <2>1. /\ ota' \in BOOLEAN
        /\ UNCHANGED <<turn, sys, conn, incoming, idle, requested, charging, moved, heard>>
    BY <1>10 DEF OtaStart, OtaSucceeds, power
  <2>. QED  BY <2>1 DEF StateType
<1>11. CASE UNCHANGED vars
  BY <1>11 DEF vars, power, StateType
<1>. QED
  BY <1>2, <1>3, <1>4, <1>5, <1>6, <1>7, <1>8, <1>9, <1>10, <1>11 DEF Next

-----------------------------------------------------------------------------
(* The neighbours.                                                          *)

LEMMA PeerFacts ==
  /\ NoPeer \in Peer
  /\ NoPeer.level = 0 /\ NoPeer.entering = FALSE /\ NoPeer.used = FALSE
  /\ NoBeacon.eid = NoOne
BY SizeAssumption DEF NoPeer, Peer, NoBeacon

\* The records in use, counted: none after a reset, one more at the most when
\* one peer changes.
LEMMA CountFacts ==
  ASSUME NEW p \in [Eids -> Peer]
  PROVE  LET used(f) == {e \in Eids : f[e].used}
         IN  /\ IsFiniteSet(used(p)) /\ Cardinality(used(p)) \in Nat
             /\ ~(Cardinality(used(p)) > 0) => \A e \in Eids : ~p[e].used
             /\ \A q \in [Eids -> Peer] :
                  (\A e \in Eids : q[e].used => p[e].used)
                    => Cardinality(used(q)) <= Cardinality(used(p))
             /\ \A q \in [Eids -> Peer], e \in Eids :
                  (\A d \in Eids \ {e} : q[d] = p[d])
                    => Cardinality(used(q)) <= Cardinality(used(p)) + 1
<1>. DEFINE used(f) == {e \in Eids : f[e].used}
<1>1. ASSUME NEW f PROVE IsFiniteSet(used(f)) /\ Cardinality(used(f)) \in Nat
  BY EidsAssumption, FS_Subset, FS_CardinalityType, used(f) \subseteq Eids
<1>2. ~(Cardinality(used(p)) > 0) => \A e \in Eids : ~p[e].used
  <2>1. ~(Cardinality(used(p)) > 0) => Cardinality(used(p)) = 0
    BY <1>1
  <2>2. ~(Cardinality(used(p)) > 0) => used(p) = {}
    BY <1>1, <2>1, FS_EmptySet
  <2>. QED  BY <2>2
<1>3. ASSUME NEW q \in [Eids -> Peer], \A e \in Eids : q[e].used => p[e].used
      PROVE  Cardinality(used(q)) <= Cardinality(used(p))
  BY <1>1, <1>3, FS_Subset, used(q) \subseteq used(p)
<1>4. ASSUME NEW q \in [Eids -> Peer], NEW e \in Eids, \A d \in Eids \ {e} : q[d] = p[d]
      PROVE  Cardinality(used(q)) <= Cardinality(used(p)) + 1
  <2>1. used(q) \subseteq used(p) \cup {e}
    BY <1>4
  <2>2. /\ IsFiniteSet(used(p) \cup {e})
        /\ Cardinality(used(p) \cup {e}) \in {Cardinality(used(p)), Cardinality(used(p)) + 1}
    BY <1>1, FS_AddElement
  <2>3. Cardinality(used(q)) <= Cardinality(used(p) \cup {e})
    BY <2>1, <2>2, FS_Subset
  <2>. HIDE DEF used
  <2>. QED  BY <1>1, <2>2, <2>3
<1>. QED  BY <1>1, <1>2, <1>3, <1>4

LEMMA SeenFacts ==
  ASSUME NEW p \in Peer, NEW target \in 0 .. TopLevel, NEW late \in BOOLEAN
  PROVE  /\ Seen(p, target, late) \in Peer
         /\ (~p.used => p = NoPeer) =>
              (~Seen(p, target, late).used => Seen(p, target, late) = NoPeer)
         /\ p.level = 0 /\ ~p.entering => Seen(p, target, late).level = 0
<1>1. p.level \in 0 .. TopLevel /\ p.used \in BOOLEAN
  BY DEF Peer
<1>2. CASE target > p.level
  <2>1. p.level + 1 \in 0 .. TopLevel /\ ~(target < p.level)
    BY <1>1, <1>2, SizeAssumption
  <2>2. Seen(p, target, late) =
          IF p.entering /\ late
          THEN [p EXCEPT !.used = TRUE, !.level = @ + 1, !.entering = FALSE, !.exiting = FALSE]
          ELSE [p EXCEPT !.used = TRUE, !.entering = TRUE, !.exiting = FALSE]
    BY <1>2, <2>1 DEF Seen
  <2>3. CASE p.entering /\ late
    <3>1. Seen(p, target, late) =
            [p EXCEPT !.used = TRUE, !.level = @ + 1, !.entering = FALSE, !.exiting = FALSE]
      BY <2>2, <2>3
    <3>. QED  BY <2>1, <2>3, <3>1 DEF Peer
  <2>4. CASE ~(p.entering /\ late)
    <3>1. Seen(p, target, late) = [p EXCEPT !.used = TRUE, !.entering = TRUE, !.exiting = FALSE]
      BY <2>2, <2>4
    <3>. QED  BY <3>1 DEF Peer
  <2>. QED  BY <2>3, <2>4
<1>3. CASE target < p.level
  <2>1. p.level - 1 \in 0 .. TopLevel /\ ~(target > p.level) /\ p.level # 0
    BY <1>1, <1>3, SizeAssumption
  <2>2. Seen(p, target, late) =
          IF p.exiting /\ late
          THEN IF p.level = 1 THEN NoPeer
               ELSE [p EXCEPT !.level = @ - 1, !.entering = FALSE, !.exiting = FALSE]
          ELSE [p EXCEPT !.entering = FALSE, !.exiting = TRUE]
    BY <1>3, <2>1 DEF Seen
  <2>3. (~p.used => p = NoPeer) => p.used
    BY <2>1, PeerFacts
  <2>. QED  BY <2>1, <2>2, <2>3, PeerFacts DEF Peer
<1>4. CASE ~(target > p.level) /\ ~(target < p.level)
  <2>1. Seen(p, target, late) = [p EXCEPT !.used = TRUE, !.entering = FALSE, !.exiting = FALSE]
    BY <1>4 DEF Seen
  <2>. QED  BY <2>1 DEF Peer
<1>. QED  BY <1>2, <1>3, <1>4

LEMMA PeersTypeStep == PeersType /\ [Next]_vars => PeersType'
<1>. SUFFICES ASSUME PeersType, [Next]_vars PROVE PeersType'
  OBVIOUS
<1>. USE PeerFacts
<1>0. peers \in [Eids -> Peer] /\ Count <= PeerMax /\ PeerMax \in Nat
      /\ beacon \in [eid : Eids, target : 0 .. TopLevel] \cup {NoBeacon}
  BY SizeAssumption DEF PeersType
\* At most one record changes, and there was room for it.
<1>1. ASSUME NEW q \in [Eids -> Peer], NEW e \in Eids, peers' = q,
             \A d \in Eids \ {e} : q[d] = peers[d], peers[e].used \/ Count < PeerMax
      PROVE  peers' \in [Eids -> Peer] /\ Count' <= PeerMax
  <2>1. Count \in Nat /\ Count' \in Nat /\ Count' <= Count + 1
    BY <1>0, <1>1, CountFacts DEF Count
  <2>2. peers[e].used => Count' <= Count
    BY <1>0, <1>1, CountFacts DEF Count
  <2>. QED  BY <1>0, <1>1, <2>1, <2>2
<1>2. CASE OtaFails \/ OtaReset \/ Wake
  <2>1. peers' = [e \in Eids |-> NoPeer] /\ beacon' = NoBeacon
    BY <1>2 DEF OtaFails, OtaReset, Wake, Reboot
  <2>2. Count' <= Count /\ Count \in Nat /\ Count' \in Nat
    <3>1. peers' \in [Eids -> Peer] /\ \A e \in Eids : peers'[e].used => peers[e].used
      BY <2>1
    <3>. QED  BY <1>0, <3>1, CountFacts DEF Count
  <2>. QED  BY <1>0, <2>1, <2>2 DEF PeersType
<1>3. CASE BeaconHeard
  <2>1. beacon' \in [eid : Eids, target : 0 .. TopLevel] /\ peers' = peers
    BY <1>3 DEF BeaconHeard
  <2>. QED  BY <1>0, <2>1 DEF PeersType, Count
<1>4. CASE DataHeard
  <2>1. PICK e \in Eids : /\ peers[e].used \/ Count < PeerMax
                          /\ peers' = [peers EXCEPT ![e].used = TRUE]
    BY <1>4 DEF DataHeard
  <2>2. [peers EXCEPT ![e].used = TRUE] \in [Eids -> Peer]
    BY <1>0 DEF Peer
  <2>3. peers' \in [Eids -> Peer] /\ Count' <= PeerMax
    BY <1>0, <1>1, <2>1, <2>2
  <2>. QED  BY <1>0, <1>4, <2>3 DEF DataHeard, PeersType
<1>5. CASE ScanPoll
  <2>1. CASE UNCHANGED peers
    BY <1>0, <1>5, <2>1 DEF ScanPoll, PeersType, Count
  <2>2. CASE Heeded /\ ~UNCHANGED peers
    <3>1. beacon.eid \in Eids /\ beacon.target \in 0 .. TopLevel
      BY <1>0, <2>2 DEF Heeded
    <3>2. PICK late \in BOOLEAN :
            peers' = [peers EXCEPT ![beacon.eid] =
                        Seen(peers[beacon.eid], beacon.target, late)]
      BY <1>5, <2>2 DEF ScanPoll
    <3>3. Seen(peers[beacon.eid], beacon.target, late) \in Peer
      BY <1>0, <3>1, SeenFacts
    <3>4. peers[beacon.eid].used \/ Count < PeerMax
      BY <2>2 DEF Heeded
    <3>5. peers' \in [Eids -> Peer] /\ Count' <= PeerMax
      BY <1>0, <1>1, <3>1, <3>2, <3>3, <3>4
    <3>. QED  BY <1>0, <1>5, <3>5 DEF ScanPoll, PeersType
  <2>. QED  BY <1>5, <2>1, <2>2 DEF ScanPoll
<1>6. CASE DiscoveryPoll
  <2>1. PICK gone \in SUBSET Eids :
          peers' = [e \in Eids |-> IF e \in gone THEN NoPeer ELSE peers[e]]
    BY <1>6 DEF DiscoveryPoll
  <2>2. peers' \in [Eids -> Peer] /\ \A e \in Eids : peers'[e].used => peers[e].used
    BY <1>0, <2>1
  <2>3. Count' <= Count /\ Count \in Nat /\ Count' \in Nat
    BY <1>0, <2>2, CountFacts DEF Count
  <2>. QED  BY <1>0, <1>6, <2>2, <2>3 DEF DiscoveryPoll, PeersType
<1>7. CASE UNCHANGED near
  BY <1>7 DEF near, PeersType, Count
<1>. QED
  BY <1>2, <1>3, <1>4, <1>5, <1>6, <1>7
  DEF Next, vars, PhoneConnects, OnConnected, OnDisconnected, HostActivity, OtaStart,
      OtaSucceeds, StackDone, HandleEvent, SystemDone, PowerPoll, PmWaits, PmCounts

LEMMA InitType == Init => TypeInv
<1>. SUFFICES ASSUME Init PROVE TypeInv
  OBVIOUS
<1>1. QueueType
  <2>1. queue = <<"BOOT_DONE">> /\ lost = FALSE
    BY DEF Init
  <2>2. <<"BOOT_DONE">> \in Seq(Event) /\ Len(<<"BOOT_DONE">>) <= QueueSize
    BY SizeAssumption DEF Event, BootEvents
  <2>. QED  BY <2>1, <2>2 DEF QueueType
<1>2. RadioType /\ SleepType
  BY DEF Init, RadioType, SleepType, Radio, Resume, Dark, NoResume
<1>3. StateType
  <2>1. 0 \in 0 .. IdleLimit /\ 0 \in 0 .. Callbacks
    BY SizeAssumption
  <2>2. /\ turn = "stack" /\ sys = "BOOT" /\ conn = FALSE /\ incoming = FALSE
        /\ ota = FALSE /\ requested = FALSE /\ charging \in BOOLEAN /\ moved = FALSE
        /\ idle = 0 /\ heard = 0
    BY DEF Init
  <2>. QED  BY <2>1, <2>2 DEF StateType
<1>4. PeersType
  <2>1. peers = [e \in Eids |-> NoPeer] /\ beacon = NoBeacon
    BY DEF Init
  <2>2. peers \in [Eids -> Peer] /\ {e \in Eids : peers[e].used} = {}
    BY <2>1, PeerFacts
  <2>3. Count = 0
    BY <2>2, FS_EmptySet DEF Count
  <2>. QED  BY <2>1, <2>2, <2>3, SizeAssumption DEF PeersType
<1>. QED  BY <1>1, <1>2, <1>3, <1>4 DEF TypeInv

LEMMA TypeStep == TypeInv /\ [Next]_vars => TypeInv'
BY QueueTypeStep, RadioTypeStep, SleepTypeStep, PeersTypeStep, StateTypeStep DEF TypeInv

\* Every variable keeps its type; the records never outnumber the table.
THEOREM TypeCorrect == Spec => []TypeOK
<1>1. Spec => []TypeInv
  BY InitType, TypeStep, PTL DEF Spec
<1>. QED  BY <1>1, TypeParts, PTL

-----------------------------------------------------------------------------
(* The stack and the request to sleep.                                      *)

LEMMA WakeInit == Init => WakeInv
<1>. SUFFICES ASSUME Init PROVE WakeInv
  OBVIOUS
<1>1. /\ turn = "stack" /\ ota = FALSE /\ blockers = {"BOOT"} /\ mask = FALSE
      /\ queue = <<"BOOT_DONE">>
  BY DEF Init
<1>2. ~Queued(queue, "SLEEP_READY")
  BY <1>1 DEF Queued
<1>. QED  BY <1>1, <1>2 DEF WakeInv, Polls

\* Posting adds no request to sleep but its own.
LEMMA PostKeepsAwake ==
  ASSUME NEW q \in Seq(Event), NEW events \in Seq(Event), Post(q, events),
         Queued(queue', "SLEEP_READY")
  PROVE  Queued(q, "SLEEP_READY") \/ Queued(events, "SLEEP_READY")
<1>1. PICK i \in 1 .. Len(queue') : queue'[i] = "SLEEP_READY"
  BY DEF Queued
<1>2. /\ Len(queue') <= Len(q) + Len(events) /\ Len(queue') \in Nat
      /\ queue'[i] = IF i <= Len(q) THEN q[i] ELSE events[i - Len(q)]
  BY PostFacts, LenProperties
<1>3. Len(q) \in Nat /\ Len(events) \in Nat
  OBVIOUS
<1>4. CASE i <= Len(q)
  BY <1>1, <1>2, <1>3, <1>4 DEF Queued
<1>5. CASE ~(i <= Len(q))
  <2>1. i - Len(q) \in 1 .. Len(events) /\ events[i - Len(q)] = "SLEEP_READY"
    BY <1>1, <1>2, <1>3, <1>5
  <2>. QED  BY <2>1 DEF Queued
<1>. QED  BY <1>4, <1>5

LEMMA NothingQueued == ~Queued(<<>>, "SLEEP_READY")
BY EmptySeq DEF Queued

LEMMA BlockingFacts ==
  ASSUME SleepType, mask <=> blockers = {}, NEW set, Blocking(set)
  PROVE  (mask' <=> blockers' = {}) /\ blockers' = set
<1>1. blockers' = set /\ mask' = IF (blockers = {}) # (set = {}) THEN set = {} ELSE mask
  BY DEF Blocking
<1>2. CASE (blockers = {}) # (set = {})
  BY <1>1, <1>2
<1>3. CASE ~((blockers = {}) # (set = {}))
  BY <1>1, <1>3 DEF SleepType
<1>. QED  BY <1>2, <1>3

LEMMA WakeStep == TypeInv /\ WakeInv /\ [Next]_vars => WakeInv'
<1>. SUFFICES ASSUME TypeInv, WakeInv, [Next]_vars PROVE WakeInv'
  OBVIOUS
<1>0. /\ queue \in Seq(Event) /\ SleepType /\ StateType
      /\ mask <=> blockers = {}
  BY DEF TypeInv, QueueType, WakeInv
<1>1. CASE PhoneConnects \/ BeaconHeard \/ DataHeard \/ UNCHANGED vars
  BY <1>1 DEF PhoneConnects, BeaconHeard, DataHeard, vars, near, power, WakeInv, Queued
<1>2. CASE OnConnected \/ OnDisconnected
  <2>1. <<"APP_CONNECTED">> \in Seq(Event) /\ <<"APP_DISCONNECTED">> \in Seq(Event)
    BY DEF Event, LinkEvents
  <2>2. ~Queued(<<"APP_CONNECTED">>, "SLEEP_READY") /\ ~Queued(<<"APP_DISCONNECTED">>, "SLEEP_READY")
    BY DEF Queued
  <2>3. Queued(queue', "SLEEP_READY") => Queued(queue, "SLEEP_READY")
    BY <1>0, <1>2, <2>1, <2>2, PostKeepsAwake DEF OnConnected, OnDisconnected
  <2>4. /\ turn = "stack" /\ heard' = heard + 1 /\ heard \in 0 .. Callbacks
        /\ UNCHANGED <<turn, ota, blockers, mask>>
    BY <1>0, <1>2 DEF OnConnected, OnDisconnected, StateType
  <2>5. heard' > 0
    BY <2>4, SizeAssumption
  <2>. QED  BY <2>3, <2>4, <2>5 DEF WakeInv, Polls
<1>3. CASE HostActivity
  BY <1>0, <1>3, BlockingFacts DEF HostActivity, WakeInv, power
<1>4. CASE OtaStart
  <2>1. ~Queued(queue, "SLEEP_READY")
    BY <1>0, <1>4 DEF OtaStart, WakeInv
  <2>. QED  BY <1>0, <1>4, <2>1, BlockingFacts DEF OtaStart, WakeInv, Polls, power
<1>5. CASE OtaSucceeds
  BY <1>0, <1>5 DEF OtaSucceeds, WakeInv, power
<1>6. CASE OtaFails \/ OtaReset \/ Wake
  <2>1. /\ turn' = "stack" /\ ota' = FALSE /\ blockers' = {"BOOT"} /\ mask' = FALSE
        /\ queue' = <<"BOOT_DONE">>
    BY <1>6 DEF OtaFails, OtaReset, Wake, Reboot
  <2>2. ~Queued(<<"BOOT_DONE">>, "SLEEP_READY")
    BY DEF Queued
  <2>. QED  BY <2>1, <2>2 DEF WakeInv, Polls
<1>7. CASE StackDone
  <2>1. turn = "stack" /\ turn' = "system" /\ UNCHANGED <<queue, ota, blockers, mask>>
    BY <1>7 DEF StackDone
  <2>. QED  BY <2>1 DEF WakeInv, Polls
<1>8. CASE HandleEvent
  <2>1. queue # <<>> /\ turn = "system" /\ UNCHANGED <<ota, blockers, mask, conn, heard>>
    BY <1>8 DEF HandleEvent
  <2>2. /\ Tail(queue) \in Seq(Event) /\ Len(Tail(queue)) = Len(queue) - 1
        /\ \A i \in 1 .. Len(Tail(queue)) : Tail(queue)[i] = queue[i + 1]
        /\ Head(queue) = queue[1] /\ Len(queue) \in Nat \ {0}
    BY <1>0, <2>1, TailFacts
  <2>3. Queued(Tail(queue), "SLEEP_READY") => Queued(queue, "SLEEP_READY")
    BY <2>2 DEF Queued
  <2>4. \E events \in {<<>>, <<"SELF_CHECK_OK">>, <<"SELF_CHECK_FAIL">>} :
          Post(Tail(queue), events)
    BY <1>8 DEF HandleEvent, Handle
  <2>5. \A events \in {<<>>, <<"SELF_CHECK_OK">>, <<"SELF_CHECK_FAIL">>} :
          events \in Seq(Event) /\ ~Queued(events, "SLEEP_READY")
    <3>1. <<"SELF_CHECK_OK">> \in Seq(Event) /\ <<"SELF_CHECK_FAIL">> \in Seq(Event)
      BY DEF Event, BootEvents
    <3>2. /\ ~Queued(<<"SELF_CHECK_OK">>, "SLEEP_READY")
          /\ ~Queued(<<"SELF_CHECK_FAIL">>, "SLEEP_READY")
      BY DEF Queued
    <3>. QED  BY <3>1, <3>2, NothingQueued, EmptySeq
  <2>6. Queued(queue', "SLEEP_READY") => Queued(queue, "SLEEP_READY")
    BY <2>2, <2>3, <2>4, <2>5, PostKeepsAwake
  <2>7. turn' \in {"system", "asleep"}
        /\ (turn' = "asleep" => Queued(queue, "SLEEP_READY"))
    <3>1. turn' = turn \/ (turn' = "asleep" /\ Head(queue) = "SLEEP_READY")
      BY <1>8 DEF HandleEvent, Handle
    <3>. QED  BY <2>1, <2>2, <3>1 DEF Queued
  <2>. QED  BY <2>1, <2>6, <2>7 DEF WakeInv, Polls
<1>9. CASE SystemDone
  <2>1. /\ queue = <<>> /\ turn' = (IF ota THEN "stack" ELSE "scan")
        /\ UNCHANGED <<queue, ota, blockers, mask>>
    BY <1>9 DEF SystemDone
  <2>. QED  BY <2>1, NothingQueued DEF WakeInv, Polls
<1>10. CASE ScanPoll \/ PowerPoll
  <2>1. /\ turn \in Polls /\ turn' \in Polls /\ UNCHANGED <<ota, blockers, mask>>
    BY <1>10 DEF ScanPoll, PowerPoll, Polls
  <2>2. queue' = queue \/ \E events \in Seq(Event) :
          Post(queue, events) /\ ~Queued(events, "SLEEP_READY")
    <3>1. CASE ScanPoll
      <4>1. ASSUME NEW old, NEW new
            PROVE  LevelEvents(old, new) \in Seq(Event)
                   /\ ~Queued(LevelEvents(old, new), "SLEEP_READY")
        <5>1. LevelEvents(old, new) \in {<<>>, <<"PEER_LEVEL_CHANGED">>, <<"PEER_FOUND">>}
          BY DEF LevelEvents
        <5>2. /\ <<"PEER_LEVEL_CHANGED">> \in Seq(Event) /\ <<"PEER_FOUND">> \in Seq(Event)
              /\ ~Queued(<<"PEER_LEVEL_CHANGED">>, "SLEEP_READY")
              /\ ~Queued(<<"PEER_FOUND">>, "SLEEP_READY")
          BY DEF Event, Notices, Queued
        <5>. QED  BY <5>1, <5>2, NothingQueued, EmptySeq
      <4>. QED  BY <3>1, <4>1 DEF ScanPoll
    <3>2. CASE PowerPoll
      <4>1. PICK events \in {<<>>, <<"BATTERY_LOW">>, <<"CHARGE">>, <<"BATTERY_LOW", "CHARGE">>} :
              Post(queue, events)
        <5>1. PICK low \in BOOLEAN, plugged \in BOOLEAN :
                Post(queue, (IF low THEN <<"BATTERY_LOW">> ELSE <<>>)
                            \o IF plugged # charging THEN <<"CHARGE">> ELSE <<>>)
          BY <3>2 DEF PowerPoll
        <5>2. (plugged # charging) \in BOOLEAN
          OBVIOUS
        <5>. QED  BY <5>1, <5>2, PowerEvents
      <4>2. events \in Seq(Event) /\ ~Queued(events, "SLEEP_READY")
        <5>1. /\ <<"BATTERY_LOW">> \in Seq(Event) /\ <<"CHARGE">> \in Seq(Event)
              /\ <<"BATTERY_LOW", "CHARGE">> \in Seq(Event)
          BY DEF Event, Notices
        <5>2. /\ ~Queued(<<"BATTERY_LOW">>, "SLEEP_READY") /\ ~Queued(<<"CHARGE">>, "SLEEP_READY")
              /\ ~Queued(<<"BATTERY_LOW", "CHARGE">>, "SLEEP_READY")
          BY DEF Queued
        <5>. QED  BY <5>1, <5>2, EmptySeq, NothingQueued
      <4>. QED  BY <4>1, <4>2
    <3>. QED  BY <1>10, <3>1, <3>2
  <2>3. Queued(queue', "SLEEP_READY") => Queued(queue, "SLEEP_READY")
    BY <1>0, <2>2, PostKeepsAwake DEF Queued
  <2>. QED  BY <2>1, <2>3 DEF WakeInv
<1>11. CASE DiscoveryPoll
  BY <1>11 DEF DiscoveryPoll, WakeInv, Polls, Queued, power
<1>12. CASE PmWaits \/ PmCounts
  <2>1. turn = "pm" /\ turn' = "stack" /\ UNCHANGED <<ota, conn, heard>> /\ ~ota
    BY <1>12 DEF PmWaits, PmCounts, WakeInv, Polls
  <2>2. mask' <=> blockers' = {}
    BY <1>0, <1>12, BlockingFacts DEF PmWaits, PmCounts, Holds
  <2>3. Queued(queue', "SLEEP_READY") => Queued(queue, "SLEEP_READY") \/ ~conn
    BY <1>12 DEF PmWaits, PmCounts, IdleBlocked, Queued
  <2>. QED  BY <2>1, <2>2, <2>3 DEF WakeInv, Polls
<1>. QED
  BY <1>1, <1>2, <1>3, <1>4, <1>5, <1>6, <1>7, <1>8, <1>9, <1>10, <1>11, <1>12 DEF Next

\* Types, and what the suspend mask, the blockers, the update and the request to
\* sleep have to do with each other (app_pm.c): true for every queue size.
THEOREM WakeInvariance == Spec => [](TypeInv /\ WakeInv)
BY InitType, TypeStep, WakeInit, WakeStep, PTL DEF Spec

\* The stack may suspend exactly while nothing asks it not to.
THEOREM SuspendsOnlyUnblocked == Spec => []SuspendsUnblocked
<1>1. WakeInv => SuspendsUnblocked
  BY DEF WakeInv, SuspendsUnblocked
<1>. QED  BY <1>1, WakeInvariance, PTL

\* An update in progress keeps the pendant from deep sleep and from suspending.
THEOREM UpdateStaysAwake == Spec => []AwakeForUpdate
<1>1. WakeInv => AwakeForUpdate
  BY DEF WakeInv, AwakeForUpdate
<1>. QED  BY <1>1, WakeInvariance, PTL

-----------------------------------------------------------------------------
(* The queue has room: facts about what is posted when.                     *)

LEMMA OneEvent ==
  ASSUME NEW S \in SUBSET Event, NEW e \in S
  PROVE  <<e>> \in Seq(Event) /\ Len(<<e>>) = 1 /\ AllIn(<<e>>, S)
BY DEF AllIn

LEMMA NoEvent ==
  ASSUME NEW S PROVE <<>> \in Seq(Event) /\ Len(<<>>) = 0 /\ AllIn(<<>>, S)
BY EmptySeq DEF AllIn

LEMMA PostAllIn ==
  ASSUME NEW q \in Seq(Event), NEW events \in Seq(Event), NEW S,
         AllIn(q, S), AllIn(events, S), Post(q, events)
  PROVE  AllIn(queue', S)
<1>. SUFFICES ASSUME NEW i \in 1 .. Len(queue') PROVE queue'[i] \in S
  BY DEF AllIn
<1>1. /\ Len(queue') <= Len(q) + Len(events) /\ Len(queue') \in Nat
      /\ queue'[i] = IF i <= Len(q) THEN q[i] ELSE events[i - Len(q)]
  BY PostFacts, LenProperties
<1>2. Len(q) \in Nat /\ Len(events) \in Nat
  OBVIOUS
<1>3. CASE i <= Len(q)
  BY <1>1, <1>2, <1>3 DEF AllIn
<1>4. CASE ~(i <= Len(q))
  <2>1. i - Len(q) \in 1 .. Len(events)
    BY <1>1, <1>2, <1>4
  <2>. QED  BY <1>1, <1>4, <2>1 DEF AllIn
<1>. QED  BY <1>3, <1>4

LEMMA TailAllIn ==
  ASSUME NEW S, queue \in Seq(Event), queue # <<>>, AllIn(queue, S)
  PROVE  AllIn(Tail(queue), S) /\ Head(queue) \in S
<1>1. /\ Len(queue) \in Nat \ {0} /\ Head(queue) = queue[1]
      /\ Len(Tail(queue)) = Len(queue) - 1
      /\ \A i \in 1 .. Len(Tail(queue)) : Tail(queue)[i] = queue[i + 1]
  BY TailFacts
<1>. QED  BY <1>1 DEF AllIn

\* What the poll of the beacons posts: one event at the most, and none for a
\* neighbour that has no level and does not enter one.
LEMMA ScanPosts ==
  ASSUME TypeInv, ScanPoll
  PROVE  \/ UNCHANGED <<queue, lost, peers>>
         \/ /\ beacon.eid \in Eids /\ beacon.target \in 0 .. TopLevel
            /\ \E late \in BOOLEAN :
                 LET new    == Seen(peers[beacon.eid], beacon.target, late)
                     events == LevelEvents(peers[beacon.eid], new)
                 IN  /\ peers' = [peers EXCEPT ![beacon.eid] = new]
                     /\ Post(queue, events)
                     /\ events \in Seq(Event) /\ Len(events) <= 1
                     /\ AllIn(events, Notices)
                     /\ new.level = peers[beacon.eid].level => events = <<>>
<1>1. CASE ~Heeded
  BY <1>1 DEF ScanPoll
<1>2. CASE Heeded
  <2>1. beacon.eid \in Eids /\ beacon.target \in 0 .. TopLevel
    BY <1>2 DEF Heeded, TypeInv, PeersType
  <2>2. ASSUME NEW old, NEW new
        PROVE  /\ LevelEvents(old, new) \in Seq(Event) /\ Len(LevelEvents(old, new)) <= 1
               /\ AllIn(LevelEvents(old, new), Notices)
               /\ new.level = old.level => LevelEvents(old, new) = <<>>
    <3>1. LevelEvents(old, new) \in {<<>>, <<"PEER_LEVEL_CHANGED">>, <<"PEER_FOUND">>}
      BY DEF LevelEvents
    <3>2. /\ <<"PEER_LEVEL_CHANGED">> \in Seq(Event) /\ <<"PEER_FOUND">> \in Seq(Event)
          /\ Len(<<"PEER_LEVEL_CHANGED">>) = 1 /\ Len(<<"PEER_FOUND">>) = 1
          /\ AllIn(<<"PEER_LEVEL_CHANGED">>, Notices) /\ AllIn(<<"PEER_FOUND">>, Notices)
      BY DEF Event, Notices, AllIn
    <3>. QED  BY <3>1, <3>2, NoEvent DEF LevelEvents
  <2>. QED  BY <1>2, <2>1, <2>2 DEF ScanPoll
<1>. QED  BY <1>1, <1>2

\* What the polls of the battery and the charger post.
LEMMA PowerPosts ==
  ASSUME TypeInv, PowerPoll
  PROVE  \E events \in Seq(Event) :
           /\ Post(queue, events) /\ Len(events) <= 2 /\ AllIn(events, Notices)
           /\ ~charging /\ ~charging' => Len(events) <= 1
<1>1. PICK low \in BOOLEAN, plugged \in BOOLEAN :
        /\ Post(queue, (IF low THEN <<"BATTERY_LOW">> ELSE <<>>)
                       \o IF plugged # charging THEN <<"CHARGE">> ELSE <<>>)
        /\ charging' = plugged
  BY DEF PowerPoll
<1>. DEFINE a == <<"BATTERY_LOW">>
            b == <<"CHARGE">>
            ab == <<"BATTERY_LOW", "CHARGE">>
            events == (IF low THEN a ELSE <<>>) \o IF plugged # charging THEN b ELSE <<>>
<1>2. (plugged # charging) \in BOOLEAN
  OBVIOUS
<1>3. events \in {<<>>, a, b, ab}
  BY <1>2, PowerEvents
<1>4. /\ a \in Seq(Event) /\ b \in Seq(Event) /\ ab \in Seq(Event)
      /\ Len(a) = 1 /\ Len(b) = 1 /\ Len(ab) = 2
      /\ AllIn(a, Notices) /\ AllIn(b, Notices) /\ AllIn(ab, Notices)
  BY DEF Event, Notices, AllIn
<1>5. ~charging /\ ~charging' => events \in {<<>>, a}
  <2>1. CASE low
    <3>1. ~charging /\ ~charging' => events = a \o <<>>
      BY <1>1, <2>1 DEF TypeInv, StateType
    <3>. QED  BY <3>1, <1>4, ConcatEmptySeq
  <2>2. CASE ~low
    <3>1. ~charging /\ ~charging' => events = <<>> \o <<>>
      BY <1>1, <2>2 DEF TypeInv, StateType
    <3>. QED  BY <3>1, EmptySeq, ConcatEmptySeq
  <2>. QED  BY <2>1, <2>2
<1>6. events \in Seq(Event) /\ Len(events) <= 2 /\ AllIn(events, Notices)
  <2>1. ASSUME NEW x \in {<<>>, a, b, ab}
        PROVE  x \in Seq(Event) /\ Len(x) <= 2 /\ AllIn(x, Notices)
    <3>1. <<>> \in Seq(Event) /\ Len(<<>>) = 0 /\ AllIn(<<>>, Notices)
      BY NoEvent
    <3>. HIDE DEF a, b, ab
    <3>2. x = <<>> \/ x = a \/ x = b \/ x = ab
      OBVIOUS
    <3>3. Len(x) \in {0, 1, 2} /\ x \in Seq(Event) /\ AllIn(x, Notices)
      BY <1>4, <3>1, <3>2, Zenon
    <3>4. \A n \in {0, 1, 2} : n <= 2
      OBVIOUS
    <3>. QED  BY <3>3, <3>4, Zenon
  <2>. HIDE DEF events
  <2>. QED  BY <1>3, <2>1
<1>7. ~charging /\ ~charging' => Len(events) <= 1
  BY <1>4, <1>5, NoEvent
<1>8. Post(queue, events)
  BY <1>1
<1>. HIDE DEF events
<1>. QED  BY <1>6, <1>7, <1>8

\* What the handling of an event posts, and where it leads.
LEMMA HandlePosts ==
  ASSUME TypeInv, HandleEvent
  PROVE  /\ turn = "system" /\ queue # <<>> /\ turn' \in {"system", "asleep"}
         /\ turn' = "asleep" <=> Head(queue) = "SLEEP_READY"
         /\ \E events \in Seq(Event) : Post(Tail(queue), events) /\ Len(events) <= 1
         /\ Head(queue) \notin BootEvents =>
              /\ Post(Tail(queue), <<>>) /\ UNCHANGED radio
              /\ sys' = CASE Head(queue) = "APP_CONNECTED" -> "APP_CONNECTED"
                          [] Head(queue) = "APP_DISCONNECTED" /\ sys = "APP_CONNECTED" -> "ADV_SCAN"
                          [] OTHER -> sys
<1>1. turn = "system" /\ queue # <<>> /\ Handle(Head(queue))
  BY DEF HandleEvent
<1>2. Head(queue) \in Event
  BY <1>1, TailFacts DEF TypeInv, QueueType
<1>3. turn' \in {"system", "asleep"} /\ (turn' = "asleep" <=> Head(queue) = "SLEEP_READY")
  BY <1>1 DEF Handle
<1>4. \E events \in Seq(Event) : Post(Tail(queue), events) /\ Len(events) <= 1
  <2>1. \E events \in {<<>>, <<"SELF_CHECK_OK">>, <<"SELF_CHECK_FAIL">>} :
          Post(Tail(queue), events)
    BY <1>1 DEF Handle
  <2>2. /\ <<"SELF_CHECK_OK">> \in Seq(Event) /\ <<"SELF_CHECK_FAIL">> \in Seq(Event)
        /\ Len(<<"SELF_CHECK_OK">>) = 1 /\ Len(<<"SELF_CHECK_FAIL">>) = 1
    BY DEF Event, BootEvents
  <2>3. \A events \in {<<>>, <<"SELF_CHECK_OK">>, <<"SELF_CHECK_FAIL">>} :
          events \in Seq(Event) /\ Len(events) <= 1
    <3>1. <<>> \in Seq(Event) /\ Len(<<>>) = 0
      BY EmptySeq
    <3>2. 0 <= 1 /\ 1 <= 1
      OBVIOUS
    <3>. QED  BY <2>2, <3>1, <3>2, Zenon
  <2>. QED  BY <2>1, <2>3
<1>5. ASSUME Head(queue) \notin BootEvents
      PROVE  Post(Tail(queue), <<>>) /\ UNCHANGED radio
  BY <1>1, <1>2, <1>5 DEF Handle, BootEvents, Event, Notices, LinkEvents
<1>6. ASSUME Head(queue) \notin BootEvents
      PROVE  sys' = CASE Head(queue) = "APP_CONNECTED" -> "APP_CONNECTED"
                      [] Head(queue) = "APP_DISCONNECTED" /\ sys = "APP_CONNECTED" -> "ADV_SCAN"
                      [] OTHER -> sys
  BY <1>1, <1>2, <1>6 DEF Handle, BootEvents, Event, Notices, LinkEvents
<1>. QED  BY <1>1, <1>3, <1>4, <1>5, <1>6

-----------------------------------------------------------------------------
(* With room in the queue no event is lost.                                 *)

LEMMA RoomStep ==
  ASSUME QueueRoom, TypeInv, RoomInv, QuietInv, [Next]_vars
  PROVE  RoomInv'
<1>0. /\ queue \in Seq(Event) /\ Len(queue) \in Nat /\ Len(queue) <= QueueSize /\ ~lost
      /\ heard \in 0 .. Callbacks /\ QueueSize \in Nat /\ Callbacks \in Nat
      /\ QueueSize >= 3 + Callbacks
  BY SizeAssumption DEF TypeInv, QueueType, StateType, RoomInv, QueueRoom
<1>1. CASE \/ PhoneConnects \/ HostActivity \/ OtaStart \/ OtaSucceeds \/ BeaconHeard
           \/ DataHeard \/ UNCHANGED vars
  <2>1. UNCHANGED <<turn, queue, heard, lost>>
    BY <1>1 DEF PhoneConnects, HostActivity, OtaStart, OtaSucceeds, BeaconHeard, DataHeard, vars
  <2>. QED  BY <2>1 DEF RoomInv, AllIn
<1>2. CASE OnConnected \/ OnDisconnected
  <2>1. /\ turn = "stack" /\ turn' = "stack" /\ heard < Callbacks /\ heard' = heard + 1
        /\ Post(queue, <<"APP_CONNECTED">>) \/ Post(queue, <<"APP_DISCONNECTED">>)
    BY <1>2 DEF OnConnected, OnDisconnected
  <2>2. Len(queue) <= 3 + heard
    BY <2>1 DEF RoomInv
  <2>3. PICK e \in LinkEvents : Post(queue, <<e>>)
    BY <2>1 DEF LinkEvents
  <2>4. <<e>> \in Seq(Event) /\ Len(<<e>>) = 1
    BY DEF Event, LinkEvents
  <2>5. Len(queue) + 1 <= QueueSize
    BY <1>0, <2>1, <2>2
  <2>6. Len(queue') = Len(queue) + 1 /\ ~lost'
    BY <1>0, <2>3, <2>4, <2>5, PostFacts
  <2>7. Len(queue') <= 3 + heard'
    BY <1>0, <2>1, <2>2, <2>6
  <2>. QED  BY <2>1, <2>6, <2>7 DEF RoomInv, Polls
<1>3. CASE OtaFails \/ OtaReset \/ Wake
  <2>1. turn' = "stack" /\ queue' = <<"BOOT_DONE">> /\ heard' = 0 /\ lost' = lost
    BY <1>3 DEF OtaFails, OtaReset, Wake, Reboot
  <2>2. Len(queue') <= 3 + heard'
    BY <2>1
  <2>. QED  BY <1>0, <2>1, <2>2 DEF RoomInv, Polls
<1>4. CASE StackDone
  BY <1>0, <1>4 DEF StackDone, RoomInv, Polls
<1>5. CASE HandleEvent
  <2>1. queue # <<>> /\ turn' \in {"system", "asleep"}
    BY <1>5, HandlePosts
  <2>2. PICK events \in Seq(Event) : Post(Tail(queue), events) /\ Len(events) <= 1
    BY <1>5, HandlePosts
  <2>3. Tail(queue) \in Seq(Event) /\ Len(Tail(queue)) = Len(queue) - 1
    BY <1>0, <2>1, TailFacts
  <2>4. Len(Tail(queue)) + Len(events) <= QueueSize
    BY <1>0, <2>2, <2>3
  <2>5. ~lost'
    BY <1>0, <2>2, <2>3, <2>4, PostFacts
  <2>. QED  BY <2>1, <2>5 DEF RoomInv, Polls
<1>6. CASE SystemDone
  <2>1. queue' = <<>> /\ turn' \in {"stack", "scan"} /\ heard' = heard /\ lost' = lost
    BY <1>6 DEF SystemDone
  <2>2. Len(<<>>) = 0 /\ AllIn(<<>>, Notices)
    BY NoEvent
  <2>3. Len(queue') <= 3 + heard'
    BY <1>0, <2>1, <2>2
  <2>. QED  BY <1>0, <2>1, <2>2, <2>3 DEF RoomInv, Polls
<1>7. CASE ScanPoll
  <2>1. turn' = "discovery" /\ queue = <<>> /\ AllIn(<<>>, Notices) /\ Len(<<>>) = 0
    BY <1>7, NoEvent DEF ScanPoll, RoomInv
  <2>2. CASE UNCHANGED <<queue, lost>>
    BY <1>0, <2>1, <2>2 DEF RoomInv, Polls
  <2>3. CASE \E events \in Seq(Event) :
               Post(queue, events) /\ Len(events) <= 1 /\ AllIn(events, Notices)
    <3>1. PICK events \in Seq(Event) :
            Post(queue, events) /\ Len(events) <= 1 /\ AllIn(events, Notices)
      BY <2>3
    <3>2. Len(queue) + Len(events) <= QueueSize /\ Len(queue) + Len(events) <= 1
      BY <1>0, <2>1, <3>1
    <3>3. Len(queue') <= 1 /\ ~lost'
      BY <1>0, <3>1, <3>2, PostFacts
    <3>4. AllIn(queue', Notices)
      BY <1>0, <2>1, <3>1, PostAllIn
    <3>. QED  BY <2>1, <3>3, <3>4 DEF RoomInv, Polls
  <2>. QED  BY <1>7, <2>2, <2>3, ScanPosts
<1>8. CASE DiscoveryPoll
  <2>1. turn = "discovery" /\ turn' = "power" /\ UNCHANGED <<queue, lost>>
    BY <1>8 DEF DiscoveryPoll
  <2>. QED  BY <2>1 DEF RoomInv, Polls, AllIn
<1>9. CASE PowerPoll
  <2>1. turn' = "pm" /\ Len(queue) <= 1 /\ AllIn(queue, Notices)
    BY <1>9 DEF PowerPoll, RoomInv, Polls
  <2>2. PICK events \in Seq(Event) :
          Post(queue, events) /\ Len(events) <= 2 /\ AllIn(events, Notices)
    BY <1>9, PowerPosts
  <2>3. Len(queue) + Len(events) <= QueueSize /\ Len(queue) + Len(events) <= 3
    BY <1>0, <2>1, <2>2
  <2>4. Len(queue') <= 3 /\ ~lost'
    BY <1>0, <2>2, <2>3, PostFacts
  <2>5. AllIn(queue', Notices)
    BY <1>0, <2>1, <2>2, PostAllIn
  <2>. QED  BY <2>1, <2>4, <2>5 DEF RoomInv, Polls
<1>10. CASE PmWaits \/ (PmCounts /\ UNCHANGED <<queue, lost>>)
  <2>1. turn = "pm" /\ turn' = "stack" /\ UNCHANGED <<queue, lost, heard>>
    BY <1>10 DEF PmWaits, PmCounts
  <2>2. Len(queue) <= 3 /\ 3 <= 3 + heard
    BY <1>0, <2>1 DEF RoomInv
  <2>3. Len(queue') <= 3 + heard'
    BY <1>0, <2>1, <2>2
  <2>. QED  BY <1>0, <2>1, <2>3 DEF RoomInv, Polls
<1>11. CASE PmCounts /\ ~UNCHANGED <<queue, lost>>
  <2>1. /\ turn = "pm" /\ turn' = "stack" /\ heard' = heard
        /\ ~requested /\ ~charging /\ ~(idle + 1 < IdleLimit)
        /\ Post(queue, <<"SLEEP_READY">>)
    BY <1>11 DEF PmCounts, IdleBlocked, RequestSleep
  <2>2. idle > 0
    BY <2>1, SizeAssumption DEF QueueRoom, TypeInv, StateType
  <2>3. Len(queue) <= 1
    BY <2>1, <2>2 DEF QuietInv
  <2>4. <<"SLEEP_READY">> \in Seq(Event) /\ Len(<<"SLEEP_READY">>) = 1
    BY DEF Event
  <2>5. Len(queue) + 1 <= QueueSize /\ Len(queue) + 1 <= 3 + heard
    BY <1>0, <2>3
  <2>6. Len(queue') = Len(queue) + 1 /\ ~lost'
    BY <1>0, <2>1, <2>4, <2>5, PostFacts
  <2>7. Len(queue') <= 3 + heard'
    BY <1>0, <2>1, <2>5, <2>6
  <2>. QED  BY <2>1, <2>6, <2>7 DEF RoomInv, Polls
<1>. QED
  BY <1>1, <1>2, <1>3, <1>4, <1>5, <1>6, <1>7, <1>8, <1>9, <1>10, <1>11 DEF Next

\* A record not in use is a blank one.
LEMMA BlankStep ==
  ASSUME TypeInv, QuietInv, [Next]_vars
  PROVE  \A e \in Eids : ~peers'[e].used => peers'[e] = NoPeer
<1>0. peers \in [Eids -> Peer] /\ \A e \in Eids : ~peers[e].used => peers[e] = NoPeer
  BY DEF TypeInv, PeersType, QuietInv
<1>1. CASE OtaFails \/ OtaReset \/ Wake
  BY <1>1 DEF OtaFails, OtaReset, Wake, Reboot
<1>2. CASE DataHeard
  <2>1. PICK e \in Eids : peers' = [peers EXCEPT ![e].used = TRUE]
    BY <1>2 DEF DataHeard
  <2>2. peers'[e].used
    BY <1>0, <2>1 DEF Peer
  <2>3. \A d \in Eids \ {e} : peers'[d] = peers[d]
    BY <1>0, <2>1
  <2>. QED  BY <1>0, <2>2, <2>3
<1>3. CASE ScanPoll
  <2>1. CASE UNCHANGED peers
    BY <1>0, <2>1
  <2>2. CASE \E late \in BOOLEAN :
               peers' = [peers EXCEPT ![beacon.eid] =
                           Seen(peers[beacon.eid], beacon.target, late)]
    <3>1. PICK late \in BOOLEAN :
            peers' = [peers EXCEPT ![beacon.eid] =
                        Seen(peers[beacon.eid], beacon.target, late)]
      BY <2>2
    <3>. DEFINE new == Seen(peers[beacon.eid], beacon.target, late)
    <3>2. CASE beacon.eid \in Eids /\ beacon.target \in 0 .. TopLevel
      <4>1. ~new.used => new = NoPeer
        BY <1>0, <3>2, SeenFacts
      <4>2. /\ peers'[beacon.eid] = new
            /\ \A d \in Eids \ {beacon.eid} : peers'[d] = peers[d]
        BY <1>0, <3>1, <3>2
      <4>. QED  BY <1>0, <4>1, <4>2
    <3>. QED  BY <1>3, <2>1, <3>2, ScanPosts
  <2>. QED  BY <1>3, <2>1, <2>2, ScanPosts
<1>4. CASE DiscoveryPoll
  <2>1. PICK gone \in SUBSET Eids :
          peers' = [e \in Eids |-> IF e \in gone THEN NoPeer ELSE peers[e]]
    BY <1>4 DEF DiscoveryPoll
  <2>. QED  BY <1>0, <2>1
<1>5. CASE UNCHANGED peers
  BY <1>0, <1>5
<1>. QED
  BY <1>1, <1>2, <1>3, <1>4, <1>5
  DEF Next, vars, near, PhoneConnects, OnConnected, OnDisconnected, HostActivity,
      OtaStart, OtaSucceeds, BeaconHeard, StackDone, HandleEvent, SystemDone, PowerPoll,
      PmWaits, PmCounts

LEMMA QuietStep ==
  ASSUME QueueRoom, TypeInv, RoomInv, QuietInv, RequestInv, [Next]_vars
  PROVE  QuietInv'
<1>. DEFINE Calm == \A e \in Eids : peers[e].level = 0 /\ ~peers[e].entering
            Quiet ==
              /\ turn \in {"stack", "system", "scan"} => ~charging /\ Calm
              /\ turn \in {"discovery", "power"} => ~charging /\ queue = <<>>
              /\ turn = "pm" /\ ~charging => Len(queue) <= 1
<1>0. /\ queue \in Seq(Event) /\ Len(queue) \in Nat /\ ~lost /\ idle \in Nat
      /\ peers \in [Eids -> Peer] /\ turn \in {"stack", "system", "asleep"} \cup Polls
  BY DEF TypeInv, QueueType, StateType, PeersType, RoomInv
<1>1. SUFFICES ASSUME idle' > 0, ~requested' PROVE Quiet'
  BY BlankStep DEF QuietInv
<1>2. idle > 0 /\ ~requested => Quiet
  BY DEF QuietInv
<1>3. CASE \/ PhoneConnects \/ HostActivity \/ OtaStart \/ OtaSucceeds \/ BeaconHeard
           \/ UNCHANGED vars \/ OnConnected \/ OnDisconnected
  <2>1. UNCHANGED <<turn, idle, requested, charging, peers>>
        /\ (UNCHANGED queue \/ turn = "stack")
    BY <1>3 DEF PhoneConnects, HostActivity, OtaStart, OtaSucceeds, BeaconHeard, vars, power,
       near, OnConnected, OnDisconnected
  <2>. QED  BY <1>1, <1>2, <2>1
<1>4. CASE DataHeard
  <2>1. /\ turn = "stack" /\ turn' = "stack" /\ UNCHANGED <<idle, requested, charging>>
        /\ \E e \in Eids : peers' = [peers EXCEPT ![e].used = TRUE]
    BY <1>4 DEF DataHeard, power
  <2>2. Calm => Calm'
    BY <1>0, <2>1 DEF Peer
  <2>. QED  BY <1>1, <1>2, <2>1, <2>2
<1>5. CASE OtaFails \/ OtaReset \/ Wake
  BY <1>1, <1>5 DEF OtaFails, OtaReset, Wake, Reboot
<1>6. CASE StackDone \/ HandleEvent \/ SystemDone
  <2>1. /\ turn \in {"stack", "system"} /\ turn' \in {"stack", "system", "scan", "asleep"}
        /\ UNCHANGED <<idle, requested, charging, peers>>
    BY <1>6, HandlePosts DEF StackDone, HandleEvent, SystemDone, near, power
  <2>. QED  BY <1>1, <1>2, <2>1
<1>7. CASE ScanPoll
  <2>1. /\ turn = "scan" /\ turn' = "discovery" /\ queue = <<>>
        /\ UNCHANGED <<idle, requested, charging>>
    BY <1>7 DEF ScanPoll, RoomInv, power
  <2>2. ~charging /\ Calm
    BY <1>1, <1>2, <2>1
  <2>3. queue' = <<>>
    <3>1. CASE UNCHANGED queue
      BY <2>1, <3>1
    <3>2. CASE ~UNCHANGED queue
      <4>1. /\ beacon.eid \in Eids /\ beacon.target \in 0 .. TopLevel
            /\ \E late \in BOOLEAN :
                 LET new    == Seen(peers[beacon.eid], beacon.target, late)
                     events == LevelEvents(peers[beacon.eid], new)
                 IN  /\ Post(queue, events)
                     /\ new.level = peers[beacon.eid].level => events = <<>>
        BY <1>7, <3>2, ScanPosts
      <4>2. PICK late \in BOOLEAN :
              LET new    == Seen(peers[beacon.eid], beacon.target, late)
                  events == LevelEvents(peers[beacon.eid], new)
              IN  /\ Post(queue, events)
                  /\ new.level = peers[beacon.eid].level => events = <<>>
        BY <4>1
      <4>3. peers[beacon.eid] \in Peer /\ peers[beacon.eid].level = 0
            /\ ~peers[beacon.eid].entering
        BY <1>0, <2>2, <4>1
      <4>4. Seen(peers[beacon.eid], beacon.target, late).level = 0
        BY <4>1, <4>3, SeenFacts
      <4>5. Post(queue, <<>>)
        <5>1. LevelEvents(peers[beacon.eid], Seen(peers[beacon.eid], beacon.target, late)) = <<>>
          BY <4>2, <4>3, <4>4
        <5>2. Post(queue, LevelEvents(peers[beacon.eid],
                                      Seen(peers[beacon.eid], beacon.target, late)))
          BY <4>2
        <5>. QED  BY <5>1, <5>2
      <4>6. <<>> \in Seq(Event) /\ Len(<<>>) = 0
        BY EmptySeq
      <4>7. queue' \in Seq(Event) /\ Len(queue') <= Len(queue) + Len(<<>>)
        BY <1>0, <4>5, <4>6, PostFacts
      <4>8. Len(queue') \in Nat /\ Len(queue) = 0
        BY <2>1, <4>6, <4>7
      <4>9. Len(queue') = 0
        BY <4>6, <4>7, <4>8
      <4>. QED  BY <4>7, <4>9, EmptySeq
    <3>. QED  BY <3>1, <3>2
  <2>. QED  BY <2>1, <2>2, <2>3
<1>8. CASE DiscoveryPoll
  <2>1. /\ turn = "discovery" /\ turn' = "power"
        /\ UNCHANGED <<queue, idle, requested, charging>>
    BY <1>8 DEF DiscoveryPoll, power
  <2>. QED  BY <1>1, <1>2, <2>1
<1>9. CASE PowerPoll
  <2>1. turn = "power" /\ turn' = "pm" /\ UNCHANGED <<idle, requested>>
    BY <1>9 DEF PowerPoll
  <2>2. ~charging /\ queue = <<>> /\ Len(<<>>) = 0
    BY <1>1, <1>2, <2>1, EmptySeq
  <2>3. PICK events \in Seq(Event) :
          Post(queue, events) /\ (~charging /\ ~charging' => Len(events) <= 1)
    BY <1>9, PowerPosts
  <2>4. ~charging' => Len(queue') <= Len(queue) + Len(events) /\ Len(events) <= 1
    BY <1>0, <2>2, <2>3, PostFacts
  <2>5. Len(events) \in Nat /\ Len(queue') \in Nat
    BY <1>0, <2>3, PostFacts, LenProperties
  <2>6. ~charging' => Len(queue') <= 1
    BY <2>2, <2>4, <2>5
  <2>. QED  BY <2>1, <2>6
<1>10. CASE PmWaits \/ PmCounts
  <2>1. turn' = "stack" /\ UNCHANGED <<charging, peers>> /\ ~requested
    BY <1>1, <1>10 DEF PmWaits, PmCounts, near
  <2>2. ~IdleBlocked
    BY <1>1, <1>10, <2>1 DEF PmWaits, PmCounts
  <2>3. ~charging /\ ~(Count > 0)
    BY <2>2 DEF IdleBlocked
  <2>4. \A e \in Eids : peers[e] = NoPeer
    BY <1>0, <2>3, CountFacts DEF Count, QuietInv
  <2>. QED  BY <2>1, <2>3, <2>4, PeerFacts
<1>. QED
  BY <1>3, <1>4, <1>5, <1>6, <1>7, <1>8, <1>9, <1>10 DEF Next

\* A request to sleep keeps its place in the queue until it is handled.
LEMMA RequestStep ==
  ASSUME QueueRoom, TypeInv, RoomInv, QuietInv, RequestInv, [Next]_vars
  PROVE  RequestInv'
<1>. DEFINE Asked(q) == \E i \in 1 .. Len(q) :
                          q[i] = "SLEEP_READY" /\ \A j \in 1 .. i - 1 : q[j] \in Notices
<1>0. /\ queue \in Seq(Event) /\ Len(queue) \in Nat /\ QueueSize >= 3 + Callbacks
      /\ QueueSize \in Nat /\ Callbacks \in Nat /\ Len(queue) <= QueueSize
  BY SizeAssumption DEF TypeInv, QueueType, QueueRoom
<1>1. SUFFICES ASSUME requested', turn' # "asleep"
               PROVE  sys' = "SLEEP_PREPARE" /\ turn' \in {"stack", "system"} /\ Asked(queue')
  BY DEF RequestInv
<1>2. requested /\ turn # "asleep" =>
        sys = "SLEEP_PREPARE" /\ turn \in {"stack", "system"} /\ Asked(queue)
  BY DEF RequestInv
<1>3. CASE \/ PhoneConnects \/ HostActivity \/ OtaStart \/ OtaSucceeds \/ BeaconHeard
           \/ DataHeard \/ StackDone \/ UNCHANGED vars
  <2>1. /\ UNCHANGED <<queue, requested, sys>>
        /\ turn' = turn \/ (turn = "stack" /\ turn' = "system")
    BY <1>3 DEF PhoneConnects, HostActivity, OtaStart, OtaSucceeds, BeaconHeard, DataHeard,
       StackDone, vars, power
  <2>. QED  BY <1>1, <1>2, <2>1
<1>4. CASE OnConnected \/ OnDisconnected
  <2>1. /\ turn = "stack" /\ turn' = "stack" /\ UNCHANGED <<requested, sys>>
        /\ heard < Callbacks
        /\ Post(queue, <<"APP_CONNECTED">>) \/ Post(queue, <<"APP_DISCONNECTED">>)
    BY <1>4 DEF OnConnected, OnDisconnected, power
  <2>2. PICK i \in 1 .. Len(queue) :
          queue[i] = "SLEEP_READY" /\ \A j \in 1 .. i - 1 : queue[j] \in Notices
    BY <1>1, <1>2, <2>1
  <2>3. PICK e \in LinkEvents : Post(queue, <<e>>)
    BY <2>1 DEF LinkEvents
  <2>4. <<e>> \in Seq(Event) /\ Len(<<e>>) = 1
    BY DEF Event, LinkEvents
  <2>5. Len(queue) <= 3 + heard /\ heard \in 0 .. Callbacks
    BY <2>1 DEF RoomInv, TypeInv, StateType
  <2>6. Len(queue) + 1 <= QueueSize
    BY <1>0, <2>1, <2>5
  <2>7. /\ Len(queue') = Len(queue) + 1
        /\ \A k \in 1 .. Len(queue') : k <= Len(queue) => queue'[k] = queue[k]
    BY <1>0, <2>3, <2>4, <2>6, PostFacts
  <2>8. i \in 1 .. Len(queue') /\ \A k \in 1 .. i : queue'[k] = queue[k]
    BY <1>0, <2>7
  <2>9. Asked(queue')
    BY <1>0, <2>2, <2>8
  <2>. QED  BY <1>1, <1>2, <2>1, <2>9
<1>5. CASE OtaFails \/ OtaReset \/ Wake
  BY <1>1, <1>5 DEF OtaFails, OtaReset, Wake, Reboot
<1>6. CASE HandleEvent
  <2>1. /\ turn = "system" /\ queue # <<>> /\ turn' = "system" /\ requested
        /\ Head(queue) # "SLEEP_READY"
    BY <1>1, <1>6, HandlePosts DEF HandleEvent, power
  <2>2. PICK i \in 1 .. Len(queue) :
          queue[i] = "SLEEP_READY" /\ \A j \in 1 .. i - 1 : queue[j] \in Notices
    BY <1>2, <2>1
  <2>3. /\ Head(queue) = queue[1] /\ Tail(queue) \in Seq(Event)
        /\ Len(Tail(queue)) = Len(queue) - 1
        /\ \A k \in 1 .. Len(Tail(queue)) : Tail(queue)[k] = queue[k + 1]
    BY <1>0, <2>1, TailFacts
  <2>4. i # 1 /\ i - 1 \in 1 .. Len(Tail(queue))
    BY <1>0, <2>1, <2>2, <2>3
  <2>5. Head(queue) \in Notices
    BY <2>2, <2>3, <2>4
  <2>6. Post(Tail(queue), <<>>) /\ sys' = sys
    BY <1>6, <2>5, HandlePosts DEF Notices, BootEvents
  <2>7. <<>> \in Seq(Event) /\ Len(<<>>) = 0
    BY EmptySeq
  <2>8. Len(Tail(queue)) + 0 <= QueueSize
    BY <1>0, <2>3
  <2>9. queue' = Tail(queue)
    BY <2>3, <2>6, <2>7, <2>8, PostFacts, ConcatEmptySeq
  <2>10. Tail(queue)[i - 1] = "SLEEP_READY"
         /\ \A j \in 1 .. (i - 1) - 1 : Tail(queue)[j] \in Notices
    BY <1>0, <2>2, <2>3, <2>4
  <2>11. Asked(queue')
    BY <2>4, <2>9, <2>10
  <2>. QED  BY <1>2, <2>1, <2>6, <2>11
<1>7. CASE SystemDone
  <2>1. queue = <<>> /\ turn = "system" /\ requested
    BY <1>1, <1>7 DEF SystemDone, power
  <2>2. Len(<<>>) = 0
    BY EmptySeq
  <2>. QED  BY <1>2, <2>1, <2>2
<1>8. CASE ScanPoll \/ DiscoveryPoll \/ PowerPoll \/ PmWaits
  BY <1>1, <1>2, <1>8 DEF ScanPoll, DiscoveryPoll, PowerPoll, PmWaits, power
<1>9. CASE PmCounts
  <2>1. /\ turn = "pm" /\ turn' = "stack" /\ ~requested /\ sys' = "SLEEP_PREPARE"
        /\ Post(queue, <<"SLEEP_READY">>)
    BY <1>1, <1>9 DEF PmCounts, RequestSleep
  <2>2. AllIn(queue, Notices) /\ Len(queue) <= 3
    BY <2>1 DEF RoomInv, Polls
  <2>3. ~lost' /\ ~lost
    BY RoomStep DEF RoomInv
  <2>4. <<"SLEEP_READY">> \in Seq(Event) /\ Len(<<"SLEEP_READY">>) = 1
    BY DEF Event
  <2>5. ~(Len(queue) + Len(<<"SLEEP_READY">>) > QueueSize)
    BY <2>1, <2>3 DEF Post
  <2>6. Len(queue) + 1 <= QueueSize
    BY <1>0, <2>4, <2>5
  <2>7. /\ Len(queue') = Len(queue) + 1
        /\ \A k \in 1 .. Len(queue') :
             queue'[k] = IF k <= Len(queue) THEN queue[k]
                         ELSE <<"SLEEP_READY">>[k - Len(queue)]
    BY <1>0, <2>1, <2>4, <2>6, PostFacts
  <2>8. Len(queue) + 1 \in 1 .. Len(queue') /\ queue'[Len(queue) + 1] = "SLEEP_READY"
    BY <1>0, <2>7
  <2>9. \A j \in 1 .. (Len(queue) + 1) - 1 : queue'[j] \in Notices
    BY <1>0, <2>2, <2>7 DEF AllIn
  <2>. QED  BY <2>1, <2>8, <2>9
<1>. QED
  BY <1>3, <1>4, <1>5, <1>6, <1>7, <1>8, <1>9 DEF Next

-----------------------------------------------------------------------------
(* The state follows the link.                                              *)

\* News of the link is heard last.
LEMMA LinkNews ==
  ASSUME QueueRoom, TypeInv, RoomInv, LinkInv, turn = "stack", ~requested, heard < Callbacks,
         sys \in {"ADV_SCAN", "APP_CONNECTED"}, sys' = sys, NEW e \in LinkEvents,
         Post(queue, <<e>>), e = "APP_CONNECTED" <=> conn'
  PROVE  LinkHeard' /\ AllIn(queue', Notices \cup LinkEvents)
<1>1. /\ queue \in Seq(Event) /\ Len(queue) \in Nat /\ heard \in Nat
      /\ Len(queue) <= 3 + heard /\ QueueSize >= 3 + Callbacks
      /\ QueueSize \in Nat /\ Callbacks \in Nat
      /\ AllIn(queue, Notices \cup LinkEvents)
  BY SizeAssumption DEF TypeInv, QueueType, StateType, RoomInv, QueueRoom, LinkInv
<1>2. /\ <<e>> \in Seq(Event) /\ Len(<<e>>) = 1 /\ <<e>>[1] = e
      /\ AllIn(<<e>>, Notices \cup LinkEvents)
  BY DEF Event, LinkEvents, AllIn
<1>3. Len(queue) + 1 <= QueueSize
  BY <1>1
<1>4. /\ Len(queue') = Len(queue) + 1
      /\ \A k \in 1 .. Len(queue') :
           queue'[k] = IF k <= Len(queue) THEN queue[k] ELSE <<e>>[k - Len(queue)]
  BY <1>1, <1>2, <1>3, PostFacts
<1>5. queue'[Len(queue) + 1] = e /\ Len(queue) + 1 \in 1 .. Len(queue')
  BY <1>1, <1>2, <1>4
<1>6. \A j \in (Len(queue) + 1) + 1 .. Len(queue') : queue'[j] \notin LinkEvents
  BY <1>1, <1>4
<1>7. LinkHeard'
  BY <1>5, <1>6 DEF LinkHeard
<1>. QED  BY <1>1, <1>2, <1>7, PostAllIn

\* Without news the polls leave what was heard.
LEMMA NoNews ==
  ASSUME sys' = sys, conn' = conn, LinkHeard,
         queue \in Seq(Event), AllIn(queue, Notices), AllIn(queue', Notices)
  PROVE  LinkHeard'
<1>1. \A e \in Notices : e \notin LinkEvents
  BY DEF Notices, LinkEvents
<1>2. sys = "APP_CONNECTED" <=> conn
  BY <1>1 DEF LinkHeard, AllIn
<1>. QED  BY <1>1, <1>2 DEF LinkHeard, AllIn

\* An event handled that is not the last news of the link changes nothing of it.
LEMMA HandleNews ==
  ASSUME TypeInv, HandleEvent, LinkHeard, AllIn(queue, Notices \cup LinkEvents),
         sys \in {"ADV_SCAN", "APP_CONNECTED"}
  PROVE  LinkHeard' /\ AllIn(queue', Notices \cup LinkEvents)
         /\ sys' \in {"ADV_SCAN", "APP_CONNECTED"}
<1>0. queue \in Seq(Event) /\ Len(queue) <= QueueSize /\ QueueSize \in Nat /\ queue # <<>>
  BY SizeAssumption, HandlePosts DEF TypeInv, QueueType
<1>1. /\ Head(queue) = queue[1] /\ Tail(queue) \in Seq(Event) /\ Len(queue) \in Nat \ {0}
      /\ Len(Tail(queue)) = Len(queue) - 1
      /\ \A k \in 1 .. Len(Tail(queue)) : Tail(queue)[k] = queue[k + 1]
  BY <1>0, TailFacts
<1>2. Head(queue) \in Notices \cup LinkEvents /\ AllIn(Tail(queue), Notices \cup LinkEvents)
  BY <1>0, TailAllIn
<1>3. /\ Post(Tail(queue), <<>>)
      /\ sys' = CASE Head(queue) = "APP_CONNECTED" -> "APP_CONNECTED"
                  [] Head(queue) = "APP_DISCONNECTED" /\ sys = "APP_CONNECTED" -> "ADV_SCAN"
                  [] OTHER -> sys
  BY <1>2, HandlePosts DEF Notices, LinkEvents, BootEvents
<1>4. queue' = Tail(queue) /\ conn' = conn
  <2>1. <<>> \in Seq(Event) /\ Len(<<>>) = 0
    BY EmptySeq
  <2>2. Len(Tail(queue)) + 0 <= QueueSize
    BY <1>0, <1>1
  <2>. QED  BY <1>1, <1>3, <2>1, <2>2, PostFacts, ConcatEmptySeq DEF HandleEvent
<1>5. sys' \in {"ADV_SCAN", "APP_CONNECTED"}
  BY <1>3
<1>6. LinkHeard'
  <2>1. CASE /\ \A i \in 1 .. Len(queue) : queue[i] \notin LinkEvents
             /\ sys = "APP_CONNECTED" <=> conn
    <3>1. Head(queue) \notin LinkEvents
      BY <1>1, <2>1
    <3>2. sys' = sys
      BY <1>3, <3>1 DEF LinkEvents
    <3>3. \A i \in 1 .. Len(queue') : queue'[i] \notin LinkEvents
      BY <1>1, <1>4, <2>1
    <3>. QED  BY <1>4, <2>1, <3>2, <3>3 DEF LinkHeard
  <2>2. CASE \E i \in 1 .. Len(queue) :
               /\ queue[i] \in LinkEvents /\ (queue[i] = "APP_CONNECTED" <=> conn)
               /\ \A j \in i + 1 .. Len(queue) : queue[j] \notin LinkEvents
    <3>1. PICK i \in 1 .. Len(queue) :
            /\ queue[i] \in LinkEvents /\ (queue[i] = "APP_CONNECTED" <=> conn)
            /\ \A j \in i + 1 .. Len(queue) : queue[j] \notin LinkEvents
      BY <2>2
    <3>2. CASE i = 1
      <4>1. \A j \in 1 .. Len(queue') : queue'[j] \notin LinkEvents
        BY <1>1, <1>4, <3>1, <3>2
      <4>2. Head(queue) \in LinkEvents /\ (Head(queue) = "APP_CONNECTED" <=> conn)
        BY <1>1, <3>1, <3>2
      <4>3. sys' = "APP_CONNECTED" <=> conn
        BY <1>3, <4>2 DEF LinkEvents
      <4>. QED  BY <1>4, <4>1, <4>3 DEF LinkHeard
    <3>3. CASE i # 1
      <4>1. i - 1 \in 1 .. Len(queue') /\ queue'[i - 1] = queue[i]
        BY <1>1, <1>4, <3>3
      <4>2. \A j \in (i - 1) + 1 .. Len(queue') : queue'[j] \notin LinkEvents
        BY <1>1, <1>4, <3>1
      <4>. QED  BY <1>4, <3>1, <4>1, <4>2 DEF LinkHeard
    <3>. QED  BY <3>2, <3>3
  <2>. QED  BY <2>1, <2>2 DEF LinkHeard
<1>. QED  BY <1>2, <1>4, <1>5, <1>6

LEMMA LinkStep ==
  ASSUME QueueRoom, TypeInv, RoomInv, QuietInv, RequestInv, LinkInv, RadioInv, [Next]_vars
  PROVE  LinkInv'
<1>0. /\ queue \in Seq(Event) /\ StateType
  BY DEF TypeInv, QueueType
<1>1. SUFFICES ASSUME turn' # "asleep", ~requested'
      PROVE  /\ sys' # "SLEEP_PREPARE"
             /\ sys' = "BOOT" => queue' = <<"BOOT_DONE">> /\ turn' \in {"stack", "system"}
             /\ sys' = "SELF_CHECK" =>
                  queue' \in {<<"SELF_CHECK_OK">>, <<"SELF_CHECK_FAIL">>} /\ turn' = "system"
             /\ sys' \notin {"BOOT", "SELF_CHECK"} => AllIn(queue', Notices \cup LinkEvents)
             /\ sys' \in {"BOOT", "SELF_CHECK", "ERROR"} =>
                  ~conn' /\ ~incoming' /\ ~ota' /\ radio' = Dark
             /\ sys' = "ERROR" => AllIn(queue', Notices)
             /\ sys' \in {"ADV_SCAN", "APP_CONNECTED"} => LinkHeard'
  BY DEF LinkInv
<1>2. ASSUME turn # "asleep", ~requested
      PROVE  /\ sys # "SLEEP_PREPARE"
             /\ sys = "BOOT" => queue = <<"BOOT_DONE">> /\ turn \in {"stack", "system"}
             /\ sys = "SELF_CHECK" =>
                  queue \in {<<"SELF_CHECK_OK">>, <<"SELF_CHECK_FAIL">>} /\ turn = "system"
             /\ sys \notin {"BOOT", "SELF_CHECK"} => AllIn(queue, Notices \cup LinkEvents)
             /\ sys \in {"BOOT", "SELF_CHECK", "ERROR"} =>
                  ~conn /\ ~incoming /\ ~ota /\ radio = Dark
             /\ sys = "ERROR" => AllIn(queue, Notices)
             /\ sys \in {"ADV_SCAN", "APP_CONNECTED"} => LinkHeard
  BY <1>2 DEF LinkInv
<1>3. /\ ~Dark.adv0 /\ ~Dark.air0 /\ ~Dark.adv1 /\ ~Dark.scan
      /\ \A e \in Notices : e \in Event /\ e \notin LinkEvents
  BY DEF Dark, Notices, LinkEvents, Event
\* Steps that leave the queue, the state and the link alone.
<1>4. CASE \/ HostActivity \/ BeaconHeard \/ DataHeard \/ StackDone \/ UNCHANGED vars
  <2>1. /\ UNCHANGED <<sys, queue, conn, incoming, ota, radio, requested>>
        /\ turn' = turn \/ (turn = "stack" /\ turn' = "system")
    BY <1>4 DEF HostActivity, BeaconHeard, DataHeard, StackDone, vars, power
  <2>. QED  BY <1>1, <1>2, <2>1 DEF LinkHeard
<1>5. CASE PhoneConnects \/ OtaStart \/ OtaSucceeds
  <2>1. /\ UNCHANGED <<sys, queue, conn, requested, turn>>
        /\ (radio.air0 \/ conn \/ ota) /\ turn # "asleep"
    BY <1>1, <1>5 DEF PhoneConnects, OtaStart, OtaSucceeds, power
  <2>2. sys \in {"ADV_SCAN", "APP_CONNECTED"}
    BY <1>0, <1>1, <1>2, <1>3, <2>1 DEF StateType
  <2>. QED  BY <1>1, <1>2, <2>1, <2>2 DEF LinkHeard
<1>6. CASE OnConnected \/ OnDisconnected
  <2>0. /\ turn = "stack" /\ heard < Callbacks /\ sys' = sys /\ requested' = requested
    BY <1>6 DEF OnConnected, OnDisconnected, power
  <2>1. /\ turn = "stack" /\ ~requested /\ heard < Callbacks /\ sys' = sys
        /\ incoming \/ conn
    <3>1. incoming \/ conn
      BY <1>6 DEF OnConnected, OnDisconnected
    <3>. QED  BY <1>1, <2>0, <3>1
  <2>2. sys \in {"ADV_SCAN", "APP_CONNECTED"}
    BY <1>0, <1>2, <2>1 DEF StateType
  <2>3. \E e \in LinkEvents : Post(queue, <<e>>) /\ (e = "APP_CONNECTED" <=> conn')
    BY <1>6 DEF OnConnected, OnDisconnected, LinkEvents
  <2>. QED  BY <2>1, <2>2, <2>3, LinkNews
<1>7. CASE OtaFails \/ OtaReset \/ Wake
  BY <1>7 DEF OtaFails, OtaReset, Wake, Reboot
<1>8. CASE HandleEvent
  <2>1. /\ turn = "system" /\ turn' = "system" /\ ~requested /\ queue # <<>>
        /\ UNCHANGED <<conn, incoming, ota>> /\ Handle(Head(queue))
    BY <1>1, <1>8, HandlePosts DEF HandleEvent, power
  <2>2. CASE sys = "BOOT"
    <3>1. queue = <<"BOOT_DONE">>
      BY <1>2, <2>1, <2>2
    <3>2. /\ sys' = "SELF_CHECK" /\ radio' = radio
          /\ \E e \in {"SELF_CHECK_OK", "SELF_CHECK_FAIL"} : Post(Tail(queue), <<e>>)
      BY <2>1, <3>1 DEF Handle
    <3>3. Tail(queue) = <<>>
      BY <3>1
    <3>4. PICK e \in {"SELF_CHECK_OK", "SELF_CHECK_FAIL"} : Post(<<>>, <<e>>)
      BY <3>2, <3>3
    <3>5. <<e>> \in Seq(Event) /\ Len(<<e>>) = 1 /\ <<>> \in Seq(Event) /\ Len(<<>>) = 0
      BY EmptySeq DEF Event, BootEvents
    <3>6. 0 + 1 <= QueueSize
      BY SizeAssumption
    <3>7. queue' = <<e>>
      BY <3>4, <3>5, <3>6, PostFacts, ConcatEmptySeq
    <3>. QED  BY <1>2, <2>1, <2>2, <3>2, <3>7
  <2>3. CASE sys = "SELF_CHECK"
    <3>1. queue \in {<<"SELF_CHECK_OK">>, <<"SELF_CHECK_FAIL">>}
      BY <1>2, <2>1, <2>3
    <3>2. Tail(queue) = <<>> /\ Head(queue) \in {"SELF_CHECK_OK", "SELF_CHECK_FAIL"}
      <4>1. CASE queue = <<"SELF_CHECK_OK">>
        BY <4>1
      <4>2. CASE queue = <<"SELF_CHECK_FAIL">>
        BY <4>2
      <4>. QED  BY <3>1, <4>1, <4>2
    <3>3. /\ Post(<<>>, <<>>)
          /\ \/ sys' = "ADV_SCAN"
             \/ sys' = "ERROR" /\ radio' = radio
      BY <2>1, <3>2 DEF Handle
    <3>4. queue' = <<>>
      <4>1. <<>> \in Seq(Event) /\ Len(<<>>) = 0
        BY EmptySeq
      <4>2. 0 + 0 <= QueueSize
        BY SizeAssumption
      <4>. QED  BY <3>3, <4>1, <4>2, PostFacts, ConcatEmptySeq
    <3>5. /\ AllIn(queue', Notices) /\ AllIn(queue', Notices \cup LinkEvents)
          /\ \A i \in 1 .. Len(queue') : queue'[i] \notin LinkEvents
      BY <3>4, NoEvent, EmptySeq DEF AllIn
    <3>6. sys' = "ADV_SCAN" => LinkHeard'
      BY <1>2, <2>1, <2>3, <3>5 DEF LinkHeard
    <3>. QED  BY <1>2, <2>1, <2>3, <3>3, <3>5, <3>6
  <2>4. CASE sys = "ERROR"
    <3>1. AllIn(queue, Notices)
      BY <1>2, <2>1, <2>4
    <3>2. Head(queue) \in Notices /\ AllIn(Tail(queue), Notices) /\ Tail(queue) \in Seq(Event)
      BY <1>0, <2>1, <3>1, TailAllIn, TailFacts
    <3>3. Post(Tail(queue), <<>>) /\ radio' = radio /\ sys' = sys
      BY <1>8, <3>2, HandlePosts DEF Notices, BootEvents
    <3>4. AllIn(queue', Notices)
      BY <3>2, <3>3, NoEvent, PostAllIn
    <3>. QED  BY <1>2, <2>1, <2>4, <3>3, <3>4 DEF AllIn
  <2>5. CASE sys \in {"ADV_SCAN", "APP_CONNECTED"}
    BY <1>2, <1>8, <2>1, <2>5, HandleNews
  <2>. QED  BY <1>0, <1>2, <2>1, <2>2, <2>3, <2>4, <2>5 DEF StateType
<1>9. CASE SystemDone
  <2>1. /\ turn = "system" /\ queue = <<>> /\ UNCHANGED <<sys, queue, conn, incoming, ota, radio, requested>>
    BY <1>9 DEF SystemDone, power
  <2>2. sys \notin {"BOOT", "SELF_CHECK"}
    BY <1>1, <1>2, <2>1
  <2>. QED  BY <1>1, <1>2, <2>1, <2>2 DEF LinkHeard
<1>10. CASE ScanPoll \/ DiscoveryPoll \/ PowerPoll \/ PmWaits \/ (PmCounts /\ ~requested')
  <2>1. /\ turn \in Polls /\ ~requested
        /\ UNCHANGED <<sys, conn, incoming, ota, radio>>
    BY <1>1, <1>10 DEF ScanPoll, DiscoveryPoll, PowerPoll, PmWaits, PmCounts, Polls, power
  <2>2. AllIn(queue, Notices) /\ turn # "asleep" /\ turn \notin {"stack", "system"}
    BY <2>1 DEF RoomInv, Polls
  <2>3. AllIn(queue', Notices)
    <3>1. UNCHANGED queue \/ \E events \in Seq(Event) : Post(queue, events) /\ AllIn(events, Notices)
      BY <1>1, <1>10, ScanPosts, PowerPosts DEF DiscoveryPoll, PmWaits, PmCounts
    <3>. QED  BY <1>0, <2>2, <3>1, PostAllIn
  <2>4. sys \notin {"BOOT", "SELF_CHECK"} /\ AllIn(queue', Notices \cup LinkEvents)
    BY <1>2, <2>1, <2>2, <2>3 DEF AllIn
  <2>5. sys \in {"ADV_SCAN", "APP_CONNECTED"} => LinkHeard'
    BY <1>0, <1>2, <2>1, <2>2, <2>3, NoNews
  <2>. QED  BY <1>2, <2>1, <2>2, <2>3, <2>4, <2>5
<1>. QED
  BY <1>1, <1>4, <1>5, <1>6, <1>7, <1>8, <1>9, <1>10 DEF Next

-----------------------------------------------------------------------------
(* What a link switches off is on without one.                              *)

LEMMA SwitchFacts ==
  ASSUME TypeInv
  PROVE  /\ SetAdv1(SetScan(radio, FALSE), FALSE).adv0 = radio.adv0
         /\ SetAdv1(SetScan(radio, FALSE), FALSE).air0 = radio.air0
         /\ StartAdvScan(radio).adv0 /\ StartAdvScan(radio).adv1
         /\ StartAdvScan(radio).air0 <=> ~conn /\ ~incoming
         /\ Scanning => StartAdvScan(radio).scan
         /\ resume.adv0 /\ resume.adv1 /\ (Scanning => resume.scan) =>
              /\ Resumed(radio).adv0 /\ Resumed(radio).air0 /\ Resumed(radio).adv1
              /\ Scanning => Resumed(radio).scan
<1>1. /\ radio \in Radio /\ resume \in Resume /\ Scanning \in BOOLEAN
      /\ conn \in BOOLEAN /\ incoming \in BOOLEAN /\ (conn \/ incoming) \in BOOLEAN
  BY SizeAssumption DEF TypeInv, RadioType, StateType
<1>2. /\ SetAdv1(SetScan(radio, FALSE), FALSE).adv0 = radio.adv0
      /\ SetAdv1(SetScan(radio, FALSE), FALSE).air0 = radio.air0
  BY <1>1 DEF SetAdv1, SetScan, Radio
<1>3. /\ StartAdvScan(radio).adv0 /\ StartAdvScan(radio).adv1
      /\ StartAdvScan(radio).air0 <=> ~conn /\ ~incoming
      /\ Scanning => StartAdvScan(radio).scan
  <2>. DEFINE linked == conn \/ incoming
              r0 == [radio EXCEPT !.adv0 = TRUE, !.air0 = TRUE /\ ~linked]
              r1 == [r0 EXCEPT !.adv1 = TRUE]
              r2 == [r1 EXCEPT !.scan = TRUE /\ Scanning]
  <2>1. StartAdvScan(radio) = r2
    BY DEF StartAdvScan, SetAdv0, SetAdv1, SetScan
  <2>2. /\ r0 \in Radio /\ r0.adv0 = TRUE /\ r0.air0 = (TRUE /\ ~linked)
    BY <1>1 DEF Radio
  <2>. HIDE DEF r0
  <2>3. /\ r1 \in Radio /\ r1.adv0 = r0.adv0 /\ r1.air0 = r0.air0 /\ r1.adv1 = TRUE
    BY <2>2 DEF Radio
  <2>. HIDE DEF r1
  <2>4. /\ r2.adv0 = r1.adv0 /\ r2.air0 = r1.air0 /\ r2.adv1 = r1.adv1
        /\ r2.scan = (TRUE /\ Scanning)
    BY <2>3 DEF Radio
  <2>. HIDE DEF r2
  <2>. QED  BY <2>1, <2>2, <2>3, <2>4, Zenon
<1>4. ASSUME resume.adv0, resume.adv1, Scanning => resume.scan
      PROVE  /\ Resumed(radio).adv0 /\ Resumed(radio).air0 /\ Resumed(radio).adv1
             /\ Scanning => Resumed(radio).scan
  <2>. DEFINE on == SetAdv1(SetAdv0(radio, TRUE, FALSE), TRUE)
  <2>1. Resumed(radio) = IF resume.scan THEN SetScan(on, TRUE) ELSE on
    BY <1>4 DEF Resumed
  <2>2. on \in Radio /\ on.adv0 /\ on.air0 /\ on.adv1
    BY <1>1 DEF SetAdv0, SetAdv1, Radio
  <2>3. SetScan(on, TRUE) = [on EXCEPT !.scan = Scanning]
    BY <1>1 DEF SetScan
  <2>. HIDE DEF on
  <2>4. CASE resume.scan
    <3>1. Resumed(radio) = [on EXCEPT !.scan = Scanning]
      BY <2>1, <2>3, <2>4
    <3>. QED  BY <2>2, <3>1 DEF Radio
  <2>5. CASE ~resume.scan
    <3>1. Resumed(radio) = on /\ ~Scanning
      BY <1>4, <2>1, <2>5
    <3>. QED  BY <2>2, <3>1
  <2>. QED  BY <2>4, <2>5
<1>. QED  BY <1>2, <1>3, <1>4

LEMMA RadioStep ==
  ASSUME TypeInv, RoomInv, RequestInv, LinkInv, RadioInv, [Next]_vars
  PROVE  RadioInv'
<1>. DEFINE Linked == sys \in {"ADV_SCAN", "APP_CONNECTED"}
            Visible == radio.adv1 /\ (Scanning => radio.scan) /\ (radio.air0 <=> ~incoming)
            Held    == /\ ~radio.air0 /\ ~incoming
                       /\ resume.adv0 /\ resume.adv1 /\ (Scanning => resume.scan)
<1>0. /\ radio \in Radio /\ resume \in Resume /\ Scanning \in BOOLEAN
      /\ conn \in BOOLEAN /\ incoming \in BOOLEAN /\ queue \in Seq(Event)
  BY SizeAssumption DEF TypeInv, RadioType, StateType, QueueType
<1>1. SUFFICES ASSUME turn' # "asleep", ~requested', Linked'
               PROVE  radio'.adv0 /\ (~conn' => Visible') /\ (conn' => Held')
  BY DEF RadioInv
<1>2. turn # "asleep" /\ ~requested /\ Linked
        => radio.adv0 /\ (~conn => Visible) /\ (conn => Held)
  BY DEF RadioInv
<1>3. CASE \/ HostActivity \/ BeaconHeard \/ DataHeard \/ StackDone \/ SystemDone
           \/ ScanPoll \/ DiscoveryPoll \/ PowerPoll \/ PmWaits \/ (PmCounts /\ ~requested')
           \/ UNCHANGED vars
  <2>1. turn # "asleep" /\ UNCHANGED <<sys, conn, incoming, radio, resume>> /\ ~requested
    BY <1>1, <1>3 DEF HostActivity, BeaconHeard, DataHeard, StackDone, SystemDone, ScanPoll,
       DiscoveryPoll, PowerPoll, PmWaits, PmCounts, vars, power
  <2>. QED  BY <1>1, <1>2, <2>1
<1>4. CASE PhoneConnects
  <2>1. /\ turn # "asleep" /\ radio.air0 /\ UNCHANGED <<sys, conn, resume, requested>>
        /\ incoming' = TRUE /\ radio' = [radio EXCEPT !.air0 = FALSE]
    BY <1>4 DEF PhoneConnects, power
  <2>2. ~conn /\ radio.adv0 /\ Visible
    BY <1>1, <1>2, <2>1
  <2>3. /\ radio'.adv0 = radio.adv0 /\ radio'.adv1 = radio.adv1
        /\ radio'.scan = radio.scan /\ radio'.air0 = FALSE
    BY <1>0, <2>1 DEF Radio
  <2>. QED  BY <2>1, <2>2, <2>3
<1>5. CASE OnConnected
  <2>1. /\ turn = "stack" /\ incoming /\ conn' = TRUE /\ incoming' = FALSE
        /\ resume' = [adv0 |-> radio.adv0, adv1 |-> radio.adv1, scan |-> radio.scan]
        /\ radio' = SetAdv1(SetScan(radio, FALSE), FALSE)
        /\ UNCHANGED <<sys, requested>>
    BY <1>5 DEF OnConnected, power
  <2>2. ~conn /\ radio.adv0 /\ Visible /\ ~radio.air0
    BY <1>0, <1>1, <1>2, <2>1
  <2>3. radio'.adv0 = radio.adv0 /\ radio'.air0 = radio.air0
    BY <2>1, SwitchFacts
  <2>4. resume'.adv0 /\ resume'.adv1 /\ (Scanning => resume'.scan)
    BY <2>1, <2>2
  <2>. QED  BY <2>1, <2>2, <2>3, <2>4
<1>6. CASE OnDisconnected
  <2>1. /\ turn = "stack" /\ conn /\ conn' = FALSE /\ radio' = Resumed(radio)
        /\ UNCHANGED <<sys, incoming, requested>>
    BY <1>6 DEF OnDisconnected, power
  <2>2. Held
    BY <1>1, <1>2, <2>1
  <2>3. radio'.adv0 /\ radio'.air0 /\ radio'.adv1 /\ (Scanning => radio'.scan)
    BY <2>1, <2>2, SwitchFacts
  <2>. QED  BY <2>1, <2>2, <2>3
<1>7. CASE OtaStart
  <2>1. /\ turn = "stack" /\ conn /\ radio' = SetAdv1(SetScan(radio, FALSE), FALSE)
        /\ UNCHANGED <<sys, conn, incoming, resume, requested>>
    BY <1>7 DEF OtaStart, power
  <2>2. radio'.adv0 = radio.adv0 /\ radio'.air0 = radio.air0
    BY <2>1, SwitchFacts
  <2>. QED  BY <1>1, <1>2, <2>1, <2>2
<1>8. CASE OtaSucceeds
  <2>1. /\ turn = "stack" /\ UNCHANGED <<sys, conn, incoming, radio, resume, requested>>
    BY <1>8 DEF OtaSucceeds, power
  <2>. QED  BY <1>1, <1>2, <2>1
<1>9. CASE OtaFails \/ OtaReset \/ Wake
  BY <1>1, <1>9 DEF OtaFails, OtaReset, Wake, Reboot
<1>10. CASE HandleEvent
  <2>1. /\ turn = "system" /\ queue # <<>> /\ ~requested
        /\ UNCHANGED <<conn, incoming, resume>> /\ Handle(Head(queue))
    BY <1>1, <1>10, HandlePosts DEF HandleEvent, power
  <2>2. CASE Linked
    <3>1. Head(queue) \notin BootEvents
      <4>1. AllIn(queue, Notices \cup LinkEvents)
        BY <2>1, <2>2 DEF LinkInv
      <4>. QED  BY <1>0, <2>1, <4>1, TailAllIn DEF Notices, LinkEvents, BootEvents
    <3>2. radio' = radio
      BY <1>10, <3>1, HandlePosts
    <3>. QED  BY <1>2, <2>1, <2>2, <3>2
  <2>3. CASE sys \in {"BOOT", "SELF_CHECK"}
    <3>1. ~conn /\ ~incoming /\ Head(queue) \in BootEvents
      <4>1. CASE queue = <<"BOOT_DONE">>
        BY <2>1, <2>3, <4>1 DEF LinkInv, BootEvents
      <4>2. CASE queue = <<"SELF_CHECK_OK">>
        BY <2>1, <2>3, <4>2 DEF LinkInv, BootEvents
      <4>3. CASE queue = <<"SELF_CHECK_FAIL">>
        BY <2>1, <2>3, <4>3 DEF LinkInv, BootEvents
      <4>. QED  BY <2>1, <2>3, <4>1, <4>2, <4>3 DEF LinkInv
    <3>2. radio' = StartAdvScan(radio)
      BY <1>1, <2>1, <3>1 DEF Handle, BootEvents
    <3>3. /\ radio'.adv0 /\ radio'.adv1 /\ (Scanning => radio'.scan)
          /\ radio'.air0 <=> ~conn /\ ~incoming
      BY <3>2, SwitchFacts
    <3>. QED  BY <2>1, <3>1, <3>3
  <2>4. CASE sys = "ERROR"
    <3>1. AllIn(queue, Notices)
      BY <2>1, <2>4 DEF LinkInv
    <3>2. Head(queue) \in Notices
      BY <1>0, <2>1, <3>1, TailAllIn
    <3>3. sys' = sys
      BY <1>10, <3>2, HandlePosts DEF Notices, BootEvents
    <3>. QED  BY <1>1, <2>4, <3>3
  <2>5. sys # "SLEEP_PREPARE"
    BY <2>1 DEF LinkInv
  <2>. QED  BY <2>2, <2>3, <2>4, <2>5 DEF TypeInv, StateType
<1>. QED
  BY <1>1, <1>3, <1>4, <1>5, <1>6, <1>7, <1>8, <1>9, <1>10 DEF Next

-----------------------------------------------------------------------------

LEMMA RoomInit == ASSUME Init PROVE IInv
<1>1. /\ turn = "stack" /\ sys = "BOOT" /\ queue = <<"BOOT_DONE">> /\ conn = FALSE
      /\ incoming = FALSE /\ radio = Dark /\ ota = FALSE /\ idle = 0 /\ requested = FALSE
      /\ heard = 0 /\ lost = FALSE /\ peers = [e \in Eids |-> NoPeer]
  BY DEF Init
<1>2. RoomInv
  <2>1. Len(queue) <= 3 + heard
    BY <1>1
  <2>. QED  BY <1>1, <2>1 DEF RoomInv, Polls
<1>3. QuietInv /\ RequestInv
  BY <1>1 DEF QuietInv, RequestInv
<1>4. LinkInv /\ RadioInv
  BY <1>1 DEF LinkInv, RadioInv
<1>. QED  BY <1>2, <1>3, <1>4 DEF IInv

LEMMA NextStep ==
  ASSUME QueueRoom, TypeInv, IInv, [Next]_vars
  PROVE  IInv'
BY RoomStep, QuietStep, RequestStep, LinkStep, RadioStep DEF IInv

\* The inductive invariant: what the queue has room for at each point of a pass
\* of the main loop, which events are waiting in it, and what they will tell
\* the state machine about the link and the radio.
THEOREM Invariance ==
  ASSUME QueueRoom
  PROVE  Spec => [](TypeInv /\ IInv)
BY QueueRoom, InitType, TypeStep, RoomInit, NextStep, PTL DEF Spec

\* The events of a pass all fit in the queue.
THEOREM QueueSuffices ==
  ASSUME QueueRoom
  PROVE  Spec => []NoEventLost
<1>1. IInv => NoEventLost
  BY DEF IInv, RoomInv, NoEventLost
<1>. QED  BY <1>1, Invariance, PTL

\* Once the queue is drained the state agrees with the link.
THEOREM StateFollowsLink ==
  ASSUME QueueRoom
  PROVE  Spec => []StateTracksLink
<1>1. ASSUME TypeInv, IInv PROVE StateTracksLink
  <2>. SUFFICES ASSUME turn \in Polls, sys \in {"ADV_SCAN", "APP_CONNECTED"}
                PROVE  sys = "APP_CONNECTED" <=> conn
    BY DEF StateTracksLink
  <2>1. turn # "asleep" /\ turn \notin {"stack", "system"}
    BY DEF Polls
  <2>2. ~requested /\ AllIn(queue, Notices)
    BY <1>1, <2>1 DEF IInv, RequestInv, RoomInv
  <2>3. LinkHeard
    BY <1>1, <2>1, <2>2 DEF IInv, LinkInv
  <2>. QED  BY <2>2, <2>3 DEF LinkHeard, AllIn, Notices, LinkEvents
<1>. QED  BY <1>1, Invariance, PTL

\* A pendant that waits for a phone is advertising and scanning.
THEOREM WaitsVisibly ==
  ASSUME QueueRoom
  PROVE  Spec => []VisibleWhenIdle
<1>1. IInv => VisibleWhenIdle
  BY DEF IInv, RequestInv, RadioInv, VisibleWhenIdle
<1>. QED  BY <1>1, Invariance, PTL

=============================================================================
