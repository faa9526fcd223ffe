------------------------------- MODULE Pendant -------------------------------
(***************************************************************************)
(* The pendant's main loop around its states: the event queue              *)
(* (event/app_event.c), the state machine (system/app_system.c), the radio *)
(* and the link (ble/app_ble.c), the neighbours (discovery, peer_table),   *)
(* idle sleep (pm/app_pm.c) and the radio side of an update (app_ota.c).   *)
(*                                                                         *)
(* One pass is the stack's callbacks (turn "stack"), the drain of the      *)
(* queue ("system") and, unless an update is in progress, the polls        *)
(* ("scan", "discovery", "power", "pm").  Only the radio works between     *)
(* them: a phone may connect at any moment, and the firmware hears of it   *)
(* in the next "stack".                                                    *)
(***************************************************************************)
EXTENDS Naturals, Sequences, FiniteSets

CONSTANTS
  Eids,       \* neighbours in reach
  PeerMax,    \* APP_PEER_MAX_COUNT
  TopLevel,   \* PEER_LEVEL_S3
  QueueSize,  \* APP_EVENT_QUEUE_SIZE
  IdleLimit,  \* PENDANT_IDLE_SLEEP_S
  Scanning,   \* APP_BLE_ENABLE_DISCOVERY_SCAN
  Callbacks,  \* bound: connections and disconnections the stack reports in a pass
  NoOne       \* no neighbour

ASSUME SizeAssumption ==
  /\ PeerMax \in Nat /\ TopLevel \in Nat \ {0} /\ QueueSize \in Nat \ {0}
  /\ IdleLimit \in Nat \ {0} /\ Scanning \in BOOLEAN /\ Callbacks \in Nat
ASSUME EidsAssumption == NoOne \notin Eids /\ IsFiniteSet(Eids)

VARIABLES
  turn,       \* whose code runs next; "asleep" in deep sleep
  sys,        \* s_system.state
  queue,      \* s_queue of app_event
  conn,       \* s_conn.connected
  incoming,   \* the radio has a connection the firmware has not heard of
  radio,      \* s_debug.*_enabled; air0: the phone can see the pendant
  resume,     \* s_resume_*_after_disconnect
  ota,        \* s_ota_active
  blockers,   \* s_ble_sleep_blockers
  mask,       \* the stack may suspend between events
  peers,      \* s_peers
  beacon,     \* s_beacon_*: the last beacon heard in this pass
  idle,       \* s_idle_s
  requested,  \* s_sleep_requested
  charging,   \* app_charge_is_charging()
  moved,      \* motion_count differs from s_idle_motion_count
  heard,      \* bound: callbacks of this pass
  lost        \* history: an event found the queue full

power == <<idle, requested, charging, moved>>
near  == <<peers, beacon>>
vars  == <<turn, sys, queue, conn, incoming, radio, resume, ota, blockers, mask,
           near, power, heard, lost>>

NoPeer   == [level |-> 0, entering |-> FALSE, exiting |-> FALSE, used |-> FALSE]
NoBeacon == [eid |-> NoOne, target |-> 0]
Dark     == [adv0 |-> FALSE, air0 |-> FALSE, adv1 |-> FALSE, scan |-> FALSE]
NoResume == [adv0 |-> FALSE, adv1 |-> FALSE, scan |-> FALSE]

Init ==
  /\ turn = "stack" /\ sys = "BOOT" /\ queue = <<"BOOT_DONE">>
  /\ conn = FALSE /\ incoming = FALSE /\ radio = Dark /\ resume = NoResume
  /\ ota = FALSE /\ blockers = {"BOOT"} /\ mask = FALSE
  /\ peers = [e \in Eids |-> NoPeer] /\ beacon = NoBeacon
  /\ idle = 0 /\ requested = FALSE /\ charging \in BOOLEAN /\ moved = FALSE
  /\ heard = 0 /\ lost = FALSE

(* app_peer_table_count. *)
Count == Cardinality({e \in Eids : peers[e].used})

(* A reset: by the wake from deep sleep, or by the end of an update.        *)
Reboot ==
  /\ turn' = "stack" /\ sys' = "BOOT" /\ queue' = <<"BOOT_DONE">>
  /\ conn' = FALSE /\ incoming' = FALSE /\ radio' = Dark /\ resume' = NoResume
  /\ ota' = FALSE /\ blockers' = {"BOOT"} /\ mask' = FALSE
  /\ peers' = [e \in Eids |-> NoPeer] /\ beacon' = NoBeacon
  /\ idle' = 0 /\ requested' = FALSE /\ charging' \in BOOLEAN /\ moved' = FALSE
  /\ heard' = 0 /\ UNCHANGED lost

Kept(s, n) == IF Len(s) <= n THEN s ELSE SubSeq(s, 1, n)

\* Mutant: a full queue is told from an empty one by a free entry.
PostKeepsOneFree(q, events) ==
  /\ queue' = Kept(q \o events, QueueSize - 1)
  /\ lost' = (lost \/ Len(q) + Len(events) >= QueueSize)

(* app_event_post of some events in a row: what does not fit is dropped.    *)
Post(q, events) ==
  /\ queue' = Kept(q \o events, QueueSize)
  /\ lost' = (lost \/ Len(q) + Len(events) > QueueSize)

-----------------------------------------------------------------------------
(* The radio's switches.  While a phone is connected, or has just been, the *)
(* connectable advertising only gets its flag.                              *)

SetAdv0(r, on, linked) == [r EXCEPT !.adv0 = on, !.air0 = on /\ ~linked]
SetAdv1(r, on) == [r EXCEPT !.adv1 = on]
SetScan(r, on) == [r EXCEPT !.scan = on /\ Scanning]

StartAdvScan(r) == SetScan(SetAdv1(SetAdv0(r, TRUE, conn \/ incoming), TRUE), TRUE)
StopAdvScan(r)  == SetAdv0(SetAdv1(SetScan(r, FALSE), FALSE), FALSE, conn \/ incoming)

\* Mutant: the stack may suspend as soon as any blocker goes.
BlockingLast(set) ==
  /\ blockers' = set
  /\ mask' = IF set # blockers THEN set \subseteq blockers ELSE mask

(* app_pm_block_ble_sleep: the stack is told when the first blocker comes   *)
(* and when the last one goes.                                              *)
Blocking(set) ==
  /\ blockers' = set
  /\ mask' = IF (blockers = {}) # (set = {}) THEN set = {} ELSE mask

-----------------------------------------------------------------------------
(* The stack's callbacks.                                                   *)

(* A phone connects; the radio stops the connectable advertising.           *)
PhoneConnects ==
  /\ turn # "asleep" /\ radio.air0 /\ ~incoming
  /\ incoming' = TRUE
  /\ radio' = [radio EXCEPT !.air0 = FALSE]
  /\ UNCHANGED <<turn, sys, queue, conn, resume, ota, blockers, mask, near,
                 power, heard, lost>>

(* app_ble_on_connected.                                                    *)
OnConnected ==
  /\ turn = "stack" /\ incoming /\ heard < Callbacks
  /\ incoming' = FALSE /\ conn' = TRUE /\ heard' = heard + 1
  /\ resume' = [adv0 |-> radio.adv0, adv1 |-> radio.adv1, scan |-> radio.scan]
  /\ radio' = SetAdv1(SetScan(radio, FALSE), FALSE)
  /\ Post(queue, <<"APP_CONNECTED">>)
  /\ UNCHANGED <<turn, sys, ota, blockers, mask, near, power>>

\* Mutant: the connectable advertising is not resumed.
Adv0NotResumed(r) ==
  LET r1 == IF resume.adv1 THEN SetAdv1(r, TRUE) ELSE r
  IN  IF resume.scan THEN SetScan(r1, TRUE) ELSE r1

(* app_ble_on_disconnected.                                                 *)
Resumed(r) ==
  LET r0 == IF resume.adv0 THEN SetAdv0(r, TRUE, FALSE) ELSE r
      r1 == IF resume.adv1 THEN SetAdv1(r0, TRUE) ELSE r0
  IN  IF resume.scan THEN SetScan(r1, TRUE) ELSE r1

OnDisconnected ==
  /\ turn = "stack" /\ conn /\ heard < Callbacks
  /\ conn' = FALSE /\ heard' = heard + 1
  /\ radio' = Resumed(radio) /\ resume' = NoResume
  /\ Post(queue, <<"APP_DISCONNECTED">>)
  /\ UNCHANGED <<turn, sys, incoming, ota, blockers, mask, near, power>>

(* app_pm_note_host_activity, on every frame the phone writes.              *)
HostActivity ==
  /\ turn = "stack" /\ conn
  /\ Blocking(blockers \cup {"ACTIVITY"})
  /\ UNCHANGED <<turn, sys, queue, conn, incoming, radio, resume, ota, near,
                 power, heard, lost>>

(* app_ota_on_start: the update server needs a link some passes old.        *)
OtaStart ==
  /\ turn = "stack" /\ conn /\ heard = 0 /\ ~ota /\ "OTA" \notin blockers
  /\ ota' = TRUE
  /\ radio' = SetAdv1(SetScan(radio, FALSE), FALSE)
  /\ Blocking(blockers \cup {"OTA"})
  /\ UNCHANGED <<turn, sys, queue, conn, incoming, resume, near, power, heard, lost>>

(* app_ota_on_result: a failed update ends in the reset of                  *)
(* app_ota_guard_abort_update, so the radio is never given back after it; a *)
(* finished one is no longer active, and the update server resets later.    *)
OtaFails == turn = "stack" /\ ota /\ Reboot

OtaSucceeds ==
  /\ turn = "stack" /\ ota
  /\ ota' = FALSE
  /\ UNCHANGED <<turn, sys, queue, conn, incoming, radio, resume, blockers, mask,
                 near, power, heard, lost>>

(* The update server's reset, from the main loop of the stack.              *)
OtaReset == turn = "stack" /\ ~ota /\ "OTA" \in blockers /\ Reboot

(* app_scan_on_report: a beacon replaces the one not yet looked at.         *)
BeaconHeard ==
  /\ turn = "stack" /\ radio.scan
  /\ \E e \in Eids, t \in 0 .. TopLevel : beacon' = [eid |-> e, target |-> t]
  /\ UNCHANGED <<turn, sys, queue, conn, incoming, radio, resume, ota, blockers,
                 mask, peers, power, heard, lost>>

(* refresh_peer_activity: a data frame makes a record without a level.      *)
DataHeard ==
  /\ turn = "stack" /\ radio.scan
  /\ \E e \in Eids : /\ peers[e].used \/ Count < PeerMax
                     /\ peers' = [peers EXCEPT ![e].used = TRUE]
  /\ UNCHANGED <<turn, sys, queue, conn, incoming, radio, resume, ota, blockers,
                 mask, beacon, power, heard, lost>>

(* The stack reports a connection in the pass that follows it.              *)
StackDone ==
  /\ turn = "stack" /\ (incoming => heard >= Callbacks)
  /\ turn' = "system" /\ heard' = 0
  /\ UNCHANGED <<sys, queue, conn, incoming, radio, resume, ota, blockers, mask,
                 near, power, lost>>

-----------------------------------------------------------------------------
(* app_system_poll: the queue is drained.                                   *)

Handle(event) ==
  \/ /\ event = "BOOT_DONE"
     /\ sys' = "SELF_CHECK"
     /\ \E e \in {"SELF_CHECK_OK", "SELF_CHECK_FAIL"} : Post(Tail(queue), <<e>>)
     /\ UNCHANGED <<turn, radio>>
  \/ /\ event = "SELF_CHECK_OK"
     /\ sys' = "ADV_SCAN"
     /\ radio' = StartAdvScan(radio)
     /\ Post(Tail(queue), <<>>) /\ UNCHANGED turn
  \/ /\ event = "SELF_CHECK_FAIL"
     /\ sys' = "ERROR"
     /\ Post(Tail(queue), <<>>) /\ UNCHANGED <<turn, radio>>
  \/ /\ event = "APP_CONNECTED"
     /\ sys' = "APP_CONNECTED"
     /\ Post(Tail(queue), <<>>) /\ UNCHANGED <<turn, radio>>
  \/ /\ event = "APP_DISCONNECTED"
     /\ sys' = IF sys = "APP_CONNECTED" THEN "ADV_SCAN" ELSE sys
     /\ Post(Tail(queue), <<>>) /\ UNCHANGED <<turn, radio>>
  \/ /\ event = "SLEEP_READY"
     /\ turn' = "asleep"
     /\ Post(Tail(queue), <<>>) /\ UNCHANGED <<sys, radio>>
  \/ /\ event \in {"BATTERY_LOW", "CHARGE", "PEER_FOUND", "PEER_LEVEL_CHANGED"}
     /\ Post(Tail(queue), <<>>) /\ UNCHANGED <<turn, sys, radio>>

HandleEvent ==
  /\ turn = "system" /\ queue # <<>>
  /\ Handle(Head(queue))
  /\ UNCHANGED <<conn, incoming, resume, ota, blockers, mask, near, power, heard>>

SystemDone ==
  /\ turn = "system" /\ queue = <<>>
  /\ turn' = IF ota THEN "stack" ELSE "scan"
  /\ UNCHANGED <<sys, queue, conn, incoming, radio, resume, ota, blockers, mask,
                 near, power, heard, lost>>

-----------------------------------------------------------------------------
(* The neighbours.                                                          *)

(* app_discovery_on_beacon: a level is entered, or left, one at a time and  *)
(* only once it has been called for long enough (late); the peer that falls *)
(* below the first level is forgotten.                                      *)
Seen(p, target, late) ==
  CASE target > p.level ->
         IF p.entering /\ late
         THEN [p EXCEPT !.used = TRUE, !.level = @ + 1, !.entering = FALSE, !.exiting = FALSE]
         ELSE [p EXCEPT !.used = TRUE, !.entering = TRUE, !.exiting = FALSE]
    [] target < p.level ->
         IF p.exiting /\ late
         THEN IF p.level = 1 THEN NoPeer
              ELSE [p EXCEPT !.level = @ - 1, !.entering = FALSE, !.exiting = FALSE]
         ELSE [p EXCEPT !.entering = FALSE, !.exiting = TRUE]
    [] OTHER -> [p EXCEPT !.used = TRUE, !.entering = FALSE, !.exiting = FALSE]

\* Mutant: both events are posted for every change.
LevelEventsTwice(old, new) ==
  IF new.level = old.level THEN <<>> ELSE <<"PEER_FOUND", "PEER_LEVEL_CHANGED">>

LevelEvents(old, new) ==
  IF new.level = old.level THEN <<>>
  ELSE IF new.level = 0 THEN <<"PEER_LEVEL_CHANGED">> ELSE <<"PEER_FOUND">>

(* app_scan_poll: a neighbour without a record needs a free one.            *)
Heeded == beacon # NoBeacon /\ (peers[beacon.eid].used \/ Count < PeerMax)

ScanPoll ==
  /\ turn = "scan" /\ turn' = "discovery"
  /\ beacon' = NoBeacon
  /\ \/ /\ ~Heeded
        /\ UNCHANGED <<peers, queue, lost>>
     \/ /\ Heeded
        /\ \E late \in BOOLEAN :
             LET new == Seen(peers[beacon.eid], beacon.target, late)
             IN  /\ peers' = [peers EXCEPT ![beacon.eid] = new]
                 /\ Post(queue, LevelEvents(peers[beacon.eid], new))
  /\ UNCHANGED <<sys, conn, incoming, radio, resume, ota, blockers, mask, power, heard>>

(* app_discovery_poll: records not refreshed for 30 s are cleared, without  *)
(* an event.                                                                *)
DiscoveryPoll ==
  /\ turn = "discovery" /\ turn' = "power"
  /\ \E gone \in SUBSET {e \in Eids : peers[e].used} :
       peers' = [e \in Eids |-> IF e \in gone THEN NoPeer ELSE peers[e]]
  /\ UNCHANGED <<sys, queue, conn, incoming, radio, resume, ota, blockers, mask,
                 beacon, power, heard, lost>>

-----------------------------------------------------------------------------
(* Power.                                                                   *)

(* app_battery_poll, app_charge_poll and app_motion_poll.                   *)
PowerPoll ==
  /\ turn = "power" /\ turn' = "pm"
  /\ \E low \in BOOLEAN, plugged \in BOOLEAN, moves \in BOOLEAN :
       /\ Post(queue, (IF low THEN <<"BATTERY_LOW">> ELSE <<>>)
                      \o IF plugged # charging THEN <<"CHARGE">> ELSE <<>>)
       /\ charging' = plugged
       /\ moved' = (moved \/ moves)
  /\ UNCHANGED <<sys, conn, incoming, radio, resume, ota, blockers, mask, near,
                 idle, requested, heard>>

\* Mutant: neither the link nor the state it leads to keeps the pendant awake.
IdleUnheeding == moved \/ charging \/ Count > 0

(* app_pm_idle_blocked.                                                     *)
IdleBlocked == moved \/ charging \/ Count > 0 \/ ota \/ sys # "ADV_SCAN" \/ conn

\* Mutant: SLEEP_READY is not posted.
RequestSleepOnly ==
  /\ sys' = "SLEEP_PREPARE"
  /\ radio' = StopAdvScan(radio)
  /\ UNCHANGED <<queue, lost>>

(* app_system_request_sleep.                                                *)
RequestSleep ==
  /\ sys' = "SLEEP_PREPARE"
  /\ radio' = StopAdvScan(radio)
  /\ Post(queue, <<"SLEEP_READY">>)

(* app_pm_poll: the seconds without a blocker are counted; the holds of the *)
(* boot and of the phone's activity run out.                                *)
Holds(set) == \E gone \in SUBSET {"BOOT", "ACTIVITY"} : Blocking(set \ gone)

PmWaits ==
  /\ turn = "pm" /\ turn' = "stack"
  /\ IF ~requested /\ IdleBlocked THEN idle' = 0 /\ moved' = FALSE
                                  ELSE UNCHANGED <<idle, moved>>
  /\ Holds(blockers)
  /\ UNCHANGED <<sys, queue, conn, incoming, radio, resume, ota, near, requested,
                 charging, heard, lost>>

PmCounts ==
  /\ turn = "pm" /\ turn' = "stack"
  /\ ~requested /\ ~IdleBlocked
  /\ IF idle + 1 < IdleLimit
     THEN idle' = idle + 1 /\ UNCHANGED <<sys, radio, queue, lost, requested>>
     ELSE requested' = TRUE /\ idle' = IdleLimit /\ RequestSleep
  /\ Holds(blockers)
  /\ UNCHANGED <<conn, incoming, resume, ota, near, charging, moved, heard>>

(* app_pm_handle_boot: movement or a charger wakes the pendant, by a reset; *)
(* it goes back to sleep for anything less.                                 *)
Wake == turn = "asleep" /\ Reboot

Next ==
  \/ PhoneConnects \/ OnConnected \/ OnDisconnected \/ HostActivity
  \/ OtaStart \/ OtaFails \/ OtaSucceeds \/ OtaReset
  \/ BeaconHeard \/ DataHeard
  \/ StackDone \/ HandleEvent \/ SystemDone \/ ScanPoll \/ DiscoveryPoll
  \/ PowerPoll \/ PmWaits \/ PmCounts \/ Wake

(* The main loop goes round, the stack reports connections, ends updates    *)
(* and resets after them, and seconds pass.                                 *)
Fairness ==
  /\ WF_vars(StackDone) /\ WF_vars(OnConnected) /\ SF_vars(OtaFails \/ OtaSucceeds)
  /\ SF_vars(OtaReset)
  /\ WF_vars(HandleEvent) /\ WF_vars(SystemDone) /\ WF_vars(ScanPoll)
  /\ WF_vars(DiscoveryPoll) /\ WF_vars(PowerPoll) /\ WF_vars(PmWaits)
  /\ SF_vars(PmCounts)

Spec     == Init /\ [][Next]_vars
LiveSpec == Spec /\ Fairness

-----------------------------------------------------------------------------
Polls == {"scan", "discovery", "power", "pm"}

TypeOK ==
  /\ turn \in {"stack", "system", "asleep"} \cup Polls
  /\ sys \in {"BOOT", "SELF_CHECK", "ADV_SCAN", "APP_CONNECTED", "SLEEP_PREPARE", "ERROR"}
  /\ queue \in Seq({"BOOT_DONE", "SELF_CHECK_OK", "SELF_CHECK_FAIL", "APP_CONNECTED",
                   "APP_DISCONNECTED", "SLEEP_READY", "BATTERY_LOW", "CHARGE",
                   "PEER_FOUND", "PEER_LEVEL_CHANGED"})
  /\ Len(queue) <= QueueSize
  /\ {conn, incoming, ota, mask, requested, charging, moved, lost} \subseteq BOOLEAN
  /\ radio \in [adv0 : BOOLEAN, air0 : BOOLEAN, adv1 : BOOLEAN, scan : BOOLEAN]
  /\ resume \in [adv0 : BOOLEAN, adv1 : BOOLEAN, scan : BOOLEAN]
  /\ blockers \subseteq {"BOOT", "ACTIVITY", "OTA"}
  /\ peers \in [Eids -> [level : 0 .. TopLevel, entering : BOOLEAN,
                       exiting : BOOLEAN, used : BOOLEAN]]
  /\ Count <= PeerMax
  /\ beacon \in [eid : Eids \cup {NoOne}, target : 0 .. TopLevel]
  /\ idle \in 0 .. IdleLimit /\ heard \in 0 .. Callbacks

(* No event is dropped: between two drains the polls and the stack together *)
(* post no more than the queue holds, whatever comes at once - a level      *)
(* change, a low battery, a charger, the request to sleep, the link         *)
(* (app_event_post; every caller ignores its status).                       *)
NoEventLost == ~lost

(* Once the queue is drained the state agrees with the link, also after     *)
(* links that came and went within an update or between two passes          *)
(* (app_system_handle_event, app_ble_on_connected).                         *)
StateTracksLink ==
  turn \in Polls /\ sys \in {"ADV_SCAN", "APP_CONNECTED"}
    => (sys = "APP_CONNECTED" <=> conn)

(* A pendant that waits for a phone can be found by one and by its          *)
(* neighbours: what a connection switched off is on again, also when an     *)
(* update came during it, outlived it or ended without a reset yet          *)
(* (s_resume_*_after_disconnect).                                           *)
VisibleWhenIdle ==
  turn = "scan" /\ sys = "ADV_SCAN" /\ ~conn /\ ~incoming
    => radio.air0 /\ radio.adv0 /\ radio.adv1 /\ (Scanning => radio.scan)

(* The pendant never goes to deep sleep while an update is in progress, and *)
(* does not suspend either (app_pm_idle_blocked, APP_PM_BLOCK_OTA).         *)
AwakeForUpdate == ota => turn # "asleep" /\ ~mask

(* The stack may suspend exactly while nothing asks it not to               *)
(* (app_pm_block_ble_sleep).                                                *)
SuspendsUnblocked == mask <=> blockers = {}

(* A pendant left alone, away from phones, neighbours and chargers, goes to *)
(* deep sleep, each time, unless its self check failed (app_pm_idle_poll,   *)
(* app_system_request_sleep, SLEEP_READY).                                  *)
LeftAlone  == ~moved /\ ~charging /\ ~conn /\ ~incoming /\ Count = 0 /\ beacon = NoBeacon
QuietSleeps == <>[]LeftAlone => []<>(turn = "asleep" \/ sys = "ERROR")

=============================================================================
