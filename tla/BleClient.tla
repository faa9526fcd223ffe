----------------------------- MODULE BleClient -----------------------------
(***************************************************************************)
(* The phone's end of the BLE link (GlimmerBleClient.java): connecting,    *)
(* discovering, subscribing, the queue of host packets and the firmware    *)
(* update.                                                                 *)
(*                                                                         *)
(* The client runs on the phone's main thread.  Android's GATT callbacks   *)
(* come on another thread and only post to it, in order: what they post    *)
(* waits in calls, and may be about a link the client has since closed.    *)
(* Runnables posted with a delay wait in timers and may run at any time.   *)
(* A packet is one write; which command it belongs to, and the bytes of a  *)
(* firmware chunk, do not matter here.                                     *)
(***************************************************************************)
EXTENDS Naturals, Sequences, FiniteSets

CONSTANTS
  FullChunks,      \* chunks of the image with OTA_PDU_LEN
  FallbackChunks,  \* chunks of the image with OTA_FALLBACK_PDU_LEN
  MaxLinks,        \* bound on connections
  MaxQueue,        \* bound on packets waiting in txQueue
  MaxCommands,     \* bound on commands the app sends by itself, per link
  MaxUpdates,      \* bound on updates
  Faults,          \* what Android or the pendant may refuse (see Fault)
  MaxFaults        \* bound on how often

Fault == {"refusal", "discovery", "write", "mtu", "result"}

ASSUME ChunkAssumption == FullChunks \in Nat \ {0} /\ FallbackChunks \in Nat /\ FallbackChunks >= FullChunks
ASSUME BoundAssumption ==
  {MaxLinks, MaxQueue, MaxCommands, MaxUpdates, MaxFaults} \subseteq Nat /\ Faults \subseteq Fault

Link    == 1..MaxLinks
NoLink  == 0
Notified == 3                 \* rspChar, logChar, evtChar
Pdu     == {"full", "fallback"}
Mtu     == {"default", "large"}   \* below OTA_MIN_MTU_FOR_FULL_PDU or not

Chunks(pdu) == IF pdu = "full" THEN FullChunks ELSE FallbackChunks

\* A write the stack is busy with; pdu and index are those of an OTA packet.
Op == [name: {"none", "host", "descriptor", "start", "data", "end"},
       pdu: Pdu, index: 0..FallbackChunks]
HostOp(name) == [name |-> name, pdu |-> "full", index |-> 0]
Idle == HostOp("none")

OtaSession == [pdu: Pdu, waitingForMtu: BOOLEAN, nextIndex: 0..FallbackChunks, endSent: BOOLEAN]
None == [ota |-> "none"]

Runnable == {"writeNextPacket", "startOtaAfterMtu", "writeOtaStartWhenIdle", "writeNextOtaData"}
Call == [name: {"connected", "disconnected", "services", "descriptor", "mtu",
                "host", "ota", "result", "found"},
         link: Link \cup {NoLink}, ok: BOOLEAN]

VARIABLES
  client,   \* the fields of GlimmerBleClient
  timers,   \* how many of each Runnable are posted with a delay
  calls,    \* what the GATT callbacks have posted
  stack,    \* the open GATT client, as Android keeps it
  flash,    \* the update as the pendant has received it over this link
  verdict,  \* what OtaListener was told of the latest update
  history   \* what happened: links, commands, updates, faults

vars == <<client, timers, calls, stack, flash, verdict, history>>

\* The client and everything one of its methods may touch, in one value.
App == [client |-> client, timers |-> timers, stack |-> stack, verdict |-> verdict,
        history |-> history]
Become(x) ==
  /\ client' = x.client /\ timers' = x.timers /\ stack' = x.stack
  /\ verdict' = x.verdict /\ history' = x.history

Closed == [link |-> NoLink, state |-> "none", mtu |-> "default", op |-> Idle,
           discovering |-> FALSE, mtuAsked |-> FALSE, subscribed |-> 0]
NoFlash == [state |-> "none", pdu |-> "full", chunks |-> 0, spoilt |-> FALSE]

Client ==
  [gatt: Link \cup {NoLink}, known: BOOLEAN, connected: BOOLEAN, debugReady: BOOLEAN,
   discoveryRequested: BOOLEAN, chars: Link \cup {NoLink}, writeInProgress: BOOLEAN,
   txQueue: Nat, notifyQueue: 0..Notified, negotiatedMtu: Mtu, ota: OtaSession \cup {None}]
Timers == [once: [Runnable -> Nat], discover: SUBSET Link]
Stack ==
  [link: Link \cup {NoLink}, state: {"none", "connecting", "up", "down"}, mtu: Mtu, op: Op,
   discovering: BOOLEAN, mtuAsked: BOOLEAN, subscribed: 0..Notified]
Flash ==
  [state: {"none", "begun", "ended", "over"}, pdu: Pdu, chunks: 0..FallbackChunks, spoilt: BOOLEAN]
Verdict == {"none", "running", "completed", "failed"}
History ==
  [links: 0..MaxLinks, commands: 0..MaxCommands, updates: 0..MaxUpdates, faults: 0..MaxFaults]

TypeOK ==
  /\ client \in Client /\ timers \in Timers /\ calls \in Seq(Call) /\ stack \in Stack
  /\ flash \in Flash /\ verdict \in Verdict /\ history \in History

Init ==
  /\ client = [gatt |-> NoLink, known |-> FALSE, connected |-> FALSE, debugReady |-> FALSE,
               discoveryRequested |-> FALSE, chars |-> NoLink, writeInProgress |-> FALSE,
               txQueue |-> 0, notifyQueue |-> 0, negotiatedMtu |-> "default", ota |-> None]
  /\ timers = [once |-> [r \in Runnable |-> 0], discover |-> {}]
  /\ calls = <<>>
  /\ stack = Closed
  /\ flash = NoFlash
  /\ verdict = "none"
  /\ history = [links |-> 0, commands |-> 0, updates |-> 0, faults |-> 0]

-----------------------------------------------------------------------------
(* Methods of the client, as functions of App.  A write the stack is asked  *)
(* for may be refused although the stack is idle: refuse.                   *)

Post(x, r) == [x EXCEPT !.timers.once[r] = @ + 1]
Updating(x) == x.client.ota # None

\* writeCharacteristic and writeDescriptor return false.
Refuses(x, refuse) == refuse \/ x.stack.op # Idle \/ x.stack.state = "connecting"

FailOta(x) ==
  [x EXCEPT !.client.ota = None, !.verdict = IF Updating(x) THEN "failed" ELSE @]

Polled(x) == [x EXCEPT !.client.writeInProgress = TRUE, !.client.txQueue = @ - 1]

WriteNextPacket(x, refuse) ==
  CASE Updating(x) \/ x.client.gatt = NoLink \/ x.client.chars = NoLink ->
         [x EXCEPT !.client.writeInProgress = FALSE, !.client.txQueue = 0]
    [] ~Updating(x) /\ x.client.gatt # NoLink /\ x.client.chars # NoLink /\ x.client.txQueue = 0 ->
         [x EXCEPT !.client.writeInProgress = FALSE]
    [] OTHER ->
         IF Refuses(x, refuse)
         THEN Post(Polled(x), "writeNextPacket")
         ELSE [Polled(x) EXCEPT !.stack.op = HostOp("host")]

SendPackets(x, n, refuse) ==
  LET queued == [x EXCEPT !.client.txQueue = @ + n] IN
  IF Updating(x) \/ ~x.client.debugReady \/ x.client.gatt = NoLink \/ x.client.chars = NoLink
  THEN x
  ELSE IF x.client.writeInProgress THEN queued ELSE WriteNextPacket(queued, refuse)

\* Mutant: the last characteristic is not waited for.
AllButOneAsked(left, skipped) == skipped + 1 >= left
AllAsked(left, skipped) == skipped >= left

\* Subscribes to the next characteristic, skipping those whose descriptor the
\* stack will not write now: skipped of them.  After the last one the channel is
\* ready and requestFullSync sends its first command.
SubscribeNext(x, skipped) ==
  LET left == x.client.notifyQueue
      ready == [x EXCEPT !.client.notifyQueue = 0, !.client.debugReady = TRUE]
  IN
  CASE x.client.gatt = NoLink -> x
    [] x.client.gatt # NoLink /\ AllAsked(left, skipped) -> SendPackets(ready, 1, FALSE)
    [] OTHER -> [x EXCEPT !.client.notifyQueue = left - skipped - 1,
                          !.stack.op = HostOp("descriptor")]

DiscoverServices(x, g) ==
  IF x.client.discoveryRequested \/ ~x.client.connected THEN x
  ELSE [x EXCEPT !.client.discoveryRequested = TRUE,
                 !.stack.discovering = IF g = x.stack.link /\ x.stack.state = "up" THEN TRUE ELSE @]

Disconnect(x) ==
  [x EXCEPT !.client = [@ EXCEPT !.connected = FALSE, !.debugReady = FALSE,
                                 !.writeInProgress = FALSE, !.txQueue = 0, !.notifyQueue = 0,
                                 !.known = FALSE, !.chars = NoLink, !.ota = None,
                                 !.gatt = NoLink],
            !.stack = Closed]

WriteOta(x, op, refuse, then) ==
  IF x.stack.op # Idle \/ refuse THEN FailOta(x) ELSE [then EXCEPT !.stack.op = op]

OtaLost(x) == ~Updating(x) \/ x.client.gatt = NoLink \/ x.client.chars = NoLink

PduFor(x) == IF x.client.negotiatedMtu = "large" THEN "full" ELSE "fallback"

\* setPduLen.  Mutant: START alone gets the new length.
WithoutPdu(x, p) == x
WithPdu(x, p) == [x EXCEPT !.client.ota.pdu = p]

WriteOtaStart(x, refuse) ==
  LET p == PduFor(x) IN
  IF OtaLost(x) THEN FailOta(x)
  ELSE WriteOta(x, [name |-> "start", pdu |-> p, index |-> 0], refuse,
                WithPdu(x, p))

WriteOtaStartWhenIdle(x, refuse) ==
  IF ~OtaLost(x) /\ x.client.writeInProgress THEN Post(x, "writeOtaStartWhenIdle")
  ELSE WriteOtaStart(x, refuse)

StartOtaAfterMtu(x, refuse) ==
  IF ~Updating(x) \/ (Updating(x) /\ ~x.client.ota.waitingForMtu) THEN x
  ELSE WriteOtaStartWhenIdle([x EXCEPT !.client.ota.waitingForMtu = FALSE], refuse)

AllChunksWritten(s) == s.nextIndex >= Chunks(s.pdu)

WriteNextOtaData(x, refuse) ==
  LET s == x.client.ota IN
  CASE OtaLost(x) -> FailOta(x)
    [] ~OtaLost(x) /\ AllChunksWritten(s) ->
         WriteOta(x, [name |-> "end", pdu |-> s.pdu, index |-> Chunks(s.pdu)], refuse,
                  [x EXCEPT !.client.ota.endSent = TRUE])
    [] OTHER ->
         WriteOta(x, [name |-> "data", pdu |-> s.pdu, index |-> s.nextIndex], refuse,
                  [x EXCEPT !.client.ota.nextIndex = @ + 1])

-----------------------------------------------------------------------------
(* What the main thread does with the oldest posted call. *)

\* One more of the refusals Android or the pendant may still make.
Happens(x, fault, y) ==
  /\ fault \in Faults /\ x.history.faults < MaxFaults
  /\ Become([y EXCEPT !.history.faults = @ + 1])

\* A method that may write runs, with the write accepted or refused.
Runs(x, method(_, _)) ==
  \/ Become(method(x, FALSE))
  \/ x.stack.op = Idle /\ Happens(x, "refusal", method(x, TRUE))

Subscribes(x) ==
  IF Refuses(x, FALSE) THEN Become(SubscribeNext(x, x.client.notifyQueue))
  ELSE \/ Become(SubscribeNext(x, 0))
       \/ x.client.notifyQueue > 0 /\ Happens(x, "refusal", SubscribeNext(x, 1))

Handles(name) == calls # <<>> /\ Head(calls).name = name /\ calls' = Tail(calls)

\* Mutant: services asked for over the link before count for this one.
ConnectedDiscovered(c) == [c EXCEPT !.connected = TRUE, !.known = TRUE]
Connected(c) == [c EXCEPT !.connected = TRUE, !.known = TRUE, !.discoveryRequested = FALSE]

OnConnected ==
  /\ Handles("connected")
  /\ Become([App EXCEPT !.client = Connected(@),
                        !.timers.discover = @ \cup {Head(calls).link}])
  /\ UNCHANGED flash

\* What OtaListener hears of an update the link ends.  Mutant: nothing.
VerdictUnchanged(c) == verdict
VerdictOfLoss(c) ==
  IF c.ota = None THEN verdict ELSE IF c.ota.endSent THEN "completed" ELSE "failed"

Dropped(c) ==
  [c EXCEPT !.connected = FALSE, !.debugReady = FALSE, !.discoveryRequested = FALSE,
            !.writeInProgress = FALSE, !.ota = None, !.txQueue = 0, !.notifyQueue = 0,
            !.known = FALSE]

\* Whichever link the call is about, the state of the client is reset; the open
\* GATT client is closed only if it is the one.  The characteristics stay.
OnDisconnected ==
  LET reset == [App EXCEPT !.verdict = VerdictOfLoss(client), !.client = Dropped(@)]
  IN
  /\ Handles("disconnected")
  /\ Become(IF client.gatt = Head(calls).link
            THEN [reset EXCEPT !.client.gatt = NoLink, !.stack = Closed]
            ELSE reset)
  /\ UNCHANGED flash

OnServicesDiscovered ==
  /\ Handles("services")
  /\ IF Head(calls).ok
     THEN Subscribes([App EXCEPT !.client.chars = Head(calls).link,
                                 !.client.notifyQueue = Notified])
     ELSE Become(App)
  /\ UNCHANGED flash

\* The status is not looked at.
OnDescriptorWrite == Handles("descriptor") /\ Subscribes(App) /\ UNCHANGED flash

\* The MTU the call speaks of: that of the open link, or whatever the link that
\* has gone meanwhile had.  Both are kept.
MtuOfCall == IF stack.state = "up" /\ Head(calls).link = stack.link THEN {stack.mtu} ELSE Mtu

OnMtuChanged ==
  /\ Handles("mtu")
  /\ \E mtu \in MtuOfCall :
       LET x == IF Head(calls).ok THEN [App EXCEPT !.client.negotiatedMtu = mtu] ELSE App IN
       IF Updating(App) /\ client.ota.waitingForMtu THEN Runs(x, StartOtaAfterMtu)
       ELSE Become(DiscoverServices(x, Head(calls).link))
  /\ UNCHANGED flash

\* onCharacteristicWrite, for cmdChar.  Mutant: it does not go on to the next.
HostWrittenAlone(x) ==
  [x EXCEPT !.client.writeInProgress = FALSE, !.client.txQueue = IF Updating(x) THEN 0 ELSE @]
HostWritten(x) ==
  IF Updating(x) THEN [x EXCEPT !.client.writeInProgress = FALSE, !.client.txQueue = 0]
  ELSE Post(x, "writeNextPacket")

\* Mutant: the status is not looked at.
NeverFailed(ok) == FALSE
Failed(ok) == ~ok

OtaWritten(x, ok) ==
  CASE x.client.chars = NoLink -> HostWritten(x)
    [] x.client.chars # NoLink /\ Failed(ok) -> FailOta(x)
    [] OTHER ->
       IF Updating(x) /\ x.client.ota.endSent THEN x
       ELSE Post(x, "writeNextOtaData")

OnHostWrite == Handles("host") /\ Become(HostWritten(App)) /\ UNCHANGED flash
OnOtaWrite  == Handles("ota") /\ Become(OtaWritten(App, Head(calls).ok)) /\ UNCHANGED flash

OnOtaNotify ==
  /\ Handles("result")
  /\ IF Updating(App)
     THEN Become([App EXCEPT !.client.ota = None,
                             !.verdict = IF Head(calls).ok THEN "completed" ELSE "failed"])
     ELSE Become(App)
  /\ UNCHANGED flash

\* A scan has found the bound pendant: onScanDevicesChanged calls connect,
\* which disconnects first unless a link to it is there or under way.
OnFound ==
  LET g == history.links + 1
      x == Disconnect(App)
  IN
  /\ Handles("found")
  /\ IF client.debugReady \/ (client.gatt # NoLink /\ client.known) \/ history.links = MaxLinks
     THEN Become(App) /\ UNCHANGED flash
     ELSE /\ Become([x EXCEPT !.client.gatt = g, !.client.known = TRUE,
                              !.stack = [Closed EXCEPT !.link = g, !.state = "connecting"],
                              !.history.links = g, !.history.commands = 0])
          /\ flash' = NoFlash

-----------------------------------------------------------------------------
(* Delayed Runnables. *)

Fired(r) == [App EXCEPT !.timers.once[r] = @ - 1]
Due(r) == timers.once[r] > 0 /\ UNCHANGED <<calls, flash>>

\* Posted with 150 ms: what the link before left with at most as much has run.
RunDiscoverServices ==
  /\ timers.once["writeNextPacket"] = 0 /\ timers.once["writeNextOtaData"] = 0
  /\ \E g \in timers.discover :
       Become(DiscoverServices([App EXCEPT !.timers.discover = @ \ {g}], g))
  /\ UNCHANGED <<calls, flash>>

RunWriteNextPacket ==
  Due("writeNextPacket") /\ Runs(Fired("writeNextPacket"), WriteNextPacket)
RunStartOtaAfterMtu ==
  Due("startOtaAfterMtu") /\ Runs(Fired("startOtaAfterMtu"), StartOtaAfterMtu)
RunWriteOtaStart ==
  /\ Due("writeOtaStartWhenIdle")
  /\ Runs(Fired("writeOtaStartWhenIdle"), WriteOtaStartWhenIdle)
RunWriteNextOtaData ==
  Due("writeNextOtaData") /\ Runs(Fired("writeNextOtaData"), WriteNextOtaData)

-----------------------------------------------------------------------------
(* The user and the rest of the app. *)

SendCommand ==
  /\ client.debugReady /\ history.commands < MaxCommands
  /\ \E n \in 1..2, refuse \in BOOLEAN :
       LET x == [App EXCEPT !.history.commands = @ + 1] IN
       /\ client.txQueue + n <= MaxQueue
       /\ IF refuse THEN stack.op = Idle /\ Happens(x, "refusal", SendPackets(x, n, TRUE))
          ELSE Become(SendPackets(x, n, FALSE))
  /\ UNCHANGED <<calls, flash>>

\* startOta and requestFastOtaLink.  A person is slower than the timers and the
\* last write of the update before.
StartOta ==
  LET c == [client EXCEPT !.txQueue = 0, !.writeInProgress = FALSE,
                          !.ota = [pdu |-> "full", waitingForMtu |-> FALSE, nextIndex |-> 0,
                                   endSent |-> FALSE]]
      x == [App EXCEPT !.client = c, !.verdict = "running", !.history.updates = @ + 1]
      mtu == [x EXCEPT !.client.ota.waitingForMtu = TRUE, !.stack.mtuAsked = TRUE]
  IN
  /\ client.debugReady /\ client.gatt # NoLink /\ client.chars # NoLink /\ ~Updating(App)
  /\ history.updates < MaxUpdates
  /\ stack.op.name \notin {"start", "data", "end"}
  /\ \A k \in DOMAIN calls : calls[k].name \notin {"ota", "result"}
  /\ \A r \in Runnable \ {"writeNextPacket"} : timers.once[r] = 0
  /\ IF client.negotiatedMtu = "large" THEN Become(Post(x, "writeOtaStartWhenIdle"))
     ELSE \/ Become(Post(mtu, "startOtaAfterMtu"))
          \/ Happens(x, "refusal", Post(x, "writeOtaStartWhenIdle"))
  /\ UNCHANGED <<calls, flash>>

\* The background timeout and unbindDevice call disconnect; neither can while
\* an update runs (backgroundDisconnectRunnable, showOtaProgressPage).
Release ==
  /\ client.gatt # NoLink /\ ~Updating(App)
  /\ Become(Disconnect(App))
  /\ UNCHANGED <<calls, flash>>

-----------------------------------------------------------------------------
(* Android's GATT client and the pendant, as far as this code sees them. *)

Calls(name, ok) == calls' = Append(calls, [name |-> name, link |-> stack.link, ok |-> ok])
Fails(fault) ==
  /\ fault \in Faults /\ history.faults < MaxFaults
  /\ history' = [history EXCEPT !.faults = @ + 1]

\* A scan is running and hears the pendant, which advertises while no phone is
\* linked to it.
Scan ==
  /\ ~client.debugReady /\ stack.state # "up" /\ history.links < MaxLinks
  /\ \A k \in DOMAIN calls : calls[k].name # "found"
  /\ calls' = Append(calls, [name |-> "found", link |-> NoLink, ok |-> TRUE])
  /\ UNCHANGED <<client, timers, stack, flash, verdict, history>>

\* Takes longer than what is left of the link before waits to be handled.
LinkUp ==
  /\ stack.state = "connecting" /\ timers.discover = {}
  /\ \A k \in DOMAIN calls : calls[k].link \in {NoLink, stack.link}
  /\ stack' = [stack EXCEPT !.state = "up"]
  /\ Calls("connected", TRUE)
  /\ UNCHANGED <<client, timers, flash, verdict, history>>

LinkDown ==
  /\ stack.state \in {"connecting", "up"}
  /\ stack' = [Closed EXCEPT !.link = stack.link, !.state = "down"]
  /\ Calls("disconnected", TRUE)
  /\ UNCHANGED <<client, timers, flash, verdict, history>>

ServicesFound ==
  /\ stack.discovering
  /\ stack' = [stack EXCEPT !.discovering = FALSE]
  /\ \/ Calls("services", TRUE) /\ UNCHANGED history
     \/ Calls("services", FALSE) /\ Fails("discovery")
  /\ UNCHANGED <<client, timers, flash, verdict>>

\* A link's MTU only grows.
MtuSettled ==
  /\ stack.mtuAsked
  /\ \E mtu \in {stack.mtu, "large"} : stack' = [stack EXCEPT !.mtuAsked = FALSE, !.mtu = mtu]
  /\ \/ Calls("mtu", TRUE) /\ UNCHANGED history
     \/ stack'.mtu = stack.mtu /\ Calls("mtu", FALSE) /\ Fails("mtu")
  /\ UNCHANGED <<client, timers, flash, verdict>>

\* What the pendant's OTA server makes of an OTA packet.  Once it has notified
\* a result it ignores what is still on its way.
Received(f, op) ==
  LET next == f.state = "begun" /\ op.pdu = f.pdu /\ op.index = f.chunks
      spoilt == [f EXCEPT !.spoilt = f.state # "over"]
  IN
  CASE op.name = "start" -> [f EXCEPT !.state = "begun", !.pdu = op.pdu, !.chunks = 0]
    [] op.name = "data"  -> IF next THEN [f EXCEPT !.chunks = @ + 1] ELSE spoilt
    [] op.name = "end"   -> IF next /\ f.chunks = Chunks(f.pdu) THEN [f EXCEPT !.state = "ended"]
                            ELSE spoilt
    [] OTHER             -> f

Written ==
  LET op   == stack.op
      done == [stack EXCEPT !.op = Idle]
      call == IF op.name \in {"host", "descriptor"} THEN op.name ELSE "ota"
  IN
  /\ op # Idle /\ stack.state = "up"
  /\ \/ /\ stack' = IF op.name = "descriptor" THEN [done EXCEPT !.subscribed = @ + 1] ELSE done
        /\ flash' = Received(flash, op)
        /\ Calls(call, TRUE)
        /\ UNCHANGED history
     \/ /\ stack' = done
        /\ Calls(call, FALSE) /\ Fails("write")
        /\ UNCHANGED flash
  /\ UNCHANGED <<client, timers, verdict>>

\* The pendant notifies the result of the update.
Result ==
  /\ stack.state = "up" /\ flash.state \in {"begun", "ended"}
  /\ \/ flash.state = "ended" /\ Calls("result", TRUE) /\ UNCHANGED history
     \/ Calls("result", FALSE) /\ Fails("result")
  /\ flash' = [flash EXCEPT !.state = "over"]
  /\ UNCHANGED <<client, timers, stack, verdict>>

-----------------------------------------------------------------------------

Handle ==
  \/ OnConnected \/ OnDisconnected \/ OnServicesDiscovered \/ OnDescriptorWrite
  \/ OnMtuChanged \/ OnHostWrite \/ OnOtaWrite \/ OnOtaNotify \/ OnFound

Run ==
  \/ RunDiscoverServices \/ RunWriteNextPacket \/ RunStartOtaAfterMtu
  \/ RunWriteOtaStart \/ RunWriteNextOtaData

Environment ==
  \/ Scan \/ LinkUp \/ LinkDown \/ ServicesFound \/ MtuSettled \/ Written \/ Result

Next == Handle \/ Run \/ SendCommand \/ StartOta \/ Release \/ Environment

\* The main thread runs what is posted to it; the stack ends every attempt to
\* connect, write and discover that it accepted, or the link; the pendant
\* answers an update it has received or reboots.
Fairness ==
  /\ WF_vars(Handle) /\ WF_vars(RunDiscoverServices) /\ WF_vars(RunWriteNextPacket)
  /\ WF_vars(RunStartOtaAfterMtu) /\ WF_vars(RunWriteOtaStart) /\ WF_vars(RunWriteNextOtaData)
  /\ WF_vars(LinkUp) /\ WF_vars(ServicesFound) /\ WF_vars(MtuSettled)
  /\ WF_vars(Written) /\ WF_vars(Result)

Spec == Init /\ [][Next]_vars /\ Fairness

-----------------------------------------------------------------------------
(* Properties. *)

\* No packet is forgotten in txQueue: as long as one waits, a write is under
\* way, answered, or about to be tried (writeInProgress, writeNextPacket).
QueueMoves ==
  client.txQueue > 0 /\ stack.state = "up" =>
    \/ stack.op.name = "host" \/ timers.once["writeNextPacket"] > 0
    \/ \E k \in DOMAIN calls : calls[k].name \in {"host", "disconnected"}

\* A channel called ready is one whose pendant was told to notify all three
\* characteristics, over the link that is open now (subscribeNext).
ReadyIsSubscribed ==
  client.debugReady /\ stack.state = "up" /\ history.faults = 0 =>
    client.gatt = stack.link /\ client.chars = stack.link /\ stack.subscribed = Notified

\* The pendant receives an update as one START, every chunk in order with the
\* PDU that START names, and END.
StreamWhole == ~flash.spoilt

\* An update is called completed only when the pendant has received every
\* chunk of it: END is not queued before the last chunk was answered, and the
\* result is good only after END.  (END itself may be lost with the link.)
CompletedMeansWritten ==
  [][verdict' = "completed" /\ verdict # "completed" =>
       flash.state # "none" /\ flash.chunks = Chunks(flash.pdu)]_vars

\* PDUs that do not fit the link's MTU are never announced: OTA document,
\* line 157.
PduFitsMtu ==
  stack.state = "up" /\ stack.op.name = "start" /\ stack.op.pdu = "full" => stack.mtu = "large"

\* Every update ends with a verdict for OtaListener, so that the app leaves its
\* progress page.
UpdateSettles == verdict = "running" ~> verdict # "running"

\* A link that comes up becomes a ready channel or goes down again.
LinkSettles ==
  stack.state = "up" ~> client.debugReady \/ stack.state # "up" \/ history.faults > 0

=============================================================================
