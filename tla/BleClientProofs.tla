--------------------------- MODULE BleClientProofs ---------------------------
(***************************************************************************)
(* Theorems about BleClient, for every size of the image and every bound   *)
(* on links, commands, updates and faults.                                 *)
(*                                                                         *)
(* The invariant has three parts.  ChannelInv: a link that is up has come  *)
(* to one of the stages from Starting to Ready, each known by what is      *)
(* posted, asked or being written, and what callbacks of closed links have *)
(* posted is ahead of everything of the link that is open.  QueueInv: the  *)
(* packet queue is stuck at no point.  UpdateInv: a running update waits   *)
(* for one thing at a time (AtMtu to AtRest), and what is being written is *)
(* the packet the pendant expects next.                                    *)
(*                                                                         *)
(* Each method of the client has a lemma that says what it leaves alone;   *)
(* each step has one lemma for each part of the invariant it can disturb.  *)
(***************************************************************************)
EXTENDS BleClient, SequenceTheorems, TLAPS

Apps == [client: Client, timers: Timers, stack: Stack, verdict: Verdict, history: History]

-----------------------------------------------------------------------------
(* The methods of the client. *)

\* A session is not the absence of one.
LEMMA SessionIsOne ==
  ASSUME NEW s \in OtaSession
  PROVE  s # None
<1>1. DOMAIN s = {"pdu", "waitingForMtu", "nextIndex", "endSent"}
  BY DEF OtaSession
<1>2. DOMAIN None = {"ota"}
  BY DEF None
<1>. QED  BY <1>1, <1>2

LEMMA Numbers ==
  /\ FullChunks \in Nat /\ FallbackChunks \in Nat /\ FullChunks <= FallbackChunks
  /\ 0 \in 0..FallbackChunks /\ MaxFaults \in Nat /\ MaxLinks \in Nat /\ MaxQueue \in Nat
  /\ MaxCommands \in Nat /\ MaxUpdates \in Nat
  /\ \A p \in Pdu : Chunks(p) \in 0..FallbackChunks
BY ChunkAssumption, BoundAssumption DEF Pdu, Chunks

LEMMA OpFacts ==
  /\ \A n \in {"none", "host", "descriptor", "start", "data", "end"} :
       HostOp(n) \in Op /\ HostOp(n).name = n /\ HostOp(n).pdu = "full" /\ HostOp(n).index = 0
  /\ Idle \in Op /\ Idle.name = "none"
BY Numbers DEF HostOp, Idle, Op, Pdu

LEMMA AppFacts ==
  /\ App.client = client /\ App.timers = timers /\ App.stack = stack
  /\ App.verdict = verdict /\ App.history = history
  /\ TypeOK => App \in Apps
BY DEF App, Apps, TypeOK

\* What the packet queue leaves alone.
KeepsClient(x, y) ==
  /\ y.client.gatt = x.client.gatt /\ y.client.known = x.client.known
  /\ y.client.connected = x.client.connected
  /\ y.client.discoveryRequested = x.client.discoveryRequested
  /\ y.client.chars = x.client.chars /\ y.client.negotiatedMtu = x.client.negotiatedMtu
KeepsSession(x, y) == y.client.ota = x.client.ota /\ y.verdict = x.verdict
KeepsTimers(x, y, r) ==
  /\ y.timers.discover = x.timers.discover
  /\ \A q \in Runnable \ {r} : y.timers.once[q] = x.timers.once[q]
KeepsLink(x, y) ==
  /\ y.stack.link = x.stack.link /\ y.stack.state = x.stack.state
  /\ y.stack.mtu = x.stack.mtu /\ y.stack.mtuAsked = x.stack.mtuAsked
  /\ y.stack.subscribed = x.stack.subscribed

QueueOnly(x, y) ==
  /\ KeepsClient(x, y) /\ KeepsSession(x, y) /\ KeepsTimers(x, y, "writeNextPacket")
  /\ KeepsLink(x, y) /\ y.stack.discovering = x.stack.discovering /\ y.history = x.history
  /\ y.client.debugReady = x.client.debugReady /\ y.client.notifyQueue = x.client.notifyQueue

\* The three ends of writeNextPacket: nothing to do, refused, written.
Stops(x, y) ==
  /\ ~y.client.writeInProgress /\ y.client.txQueue = 0
  /\ y.stack = x.stack /\ y.timers = x.timers
Retries(x, y) ==
  /\ y.client.writeInProgress /\ y.stack = x.stack
  /\ y.timers.once["writeNextPacket"] = x.timers.once["writeNextPacket"] + 1
Writes(x, y) ==
  /\ y.client.writeInProgress /\ y.timers = x.timers
  /\ x.stack.op = Idle /\ x.stack.state # "connecting" /\ y.stack.op = HostOp("host")
Queues(x, y) == Stops(x, y) \/ Retries(x, y) \/ Writes(x, y)

LEMMA PostFacts ==
  ASSUME NEW x \in Apps, NEW r \in Runnable, NEW y, y = Post(x, r)
  PROVE  /\ y \in Apps /\ y.client = x.client /\ y.stack = x.stack
         /\ y.verdict = x.verdict /\ y.history = x.history /\ KeepsTimers(x, y, r)
         /\ y.timers.once[r] = x.timers.once[r] + 1
BY DEF Post, Apps, Timers, KeepsTimers

LEMMA PolledFacts ==
  ASSUME NEW x \in Apps, x.client.txQueue > 0, NEW y, y = Polled(x)
  PROVE  /\ y \in Apps /\ KeepsClient(x, y) /\ KeepsSession(x, y)
         /\ y.client.debugReady = x.client.debugReady /\ y.client.notifyQueue = x.client.notifyQueue
         /\ y.client.writeInProgress /\ y.timers = x.timers /\ y.stack = x.stack
         /\ y.history = x.history
<1>1. PICK c : c = [x.client EXCEPT !.writeInProgress = TRUE, !.txQueue = @ - 1]
  OBVIOUS
<1>2. x.client \in Client /\ x.client.txQueue - 1 \in Nat
  BY DEF Apps, Client
<1>3. c \in Client
  BY <1>1, <1>2 DEF Client
<1>4. y = [x EXCEPT !.client = c]
  BY <1>1, <1>2 DEF Polled, Apps, Client
<1>5. /\ c.gatt = x.client.gatt /\ c.known = x.client.known
      /\ c.connected = x.client.connected /\ c.discoveryRequested = x.client.discoveryRequested
      /\ c.chars = x.client.chars /\ c.negotiatedMtu = x.client.negotiatedMtu
      /\ c.ota = x.client.ota /\ c.debugReady = x.client.debugReady
      /\ c.notifyQueue = x.client.notifyQueue /\ c.writeInProgress
  BY <1>1, <1>2 DEF Client
<1>6. /\ y \in Apps /\ y.client = c /\ y.timers = x.timers /\ y.stack = x.stack
      /\ y.verdict = x.verdict /\ y.history = x.history
  BY <1>3, <1>4 DEF Apps
<1>. QED  BY <1>5, <1>6 DEF KeepsClient, KeepsSession

LEMMA WriteNextPacketFacts ==
  ASSUME NEW x \in Apps, NEW refuse \in BOOLEAN, NEW y, y = WriteNextPacket(x, refuse)
  PROVE  /\ y \in Apps /\ QueueOnly(x, y) /\ Queues(x, y)
         /\ x.client.txQueue = 0 => Stops(x, y)
<1>1. x.client.txQueue \in Nat
  BY DEF Apps, Client
<1>2. CASE Updating(x) \/ x.client.gatt = NoLink \/ x.client.chars = NoLink
  <2>1. y = [x EXCEPT !.client.writeInProgress = FALSE, !.client.txQueue = 0]
    BY <1>2 DEF WriteNextPacket
  <2>2. PICK c : c = [x.client EXCEPT !.writeInProgress = FALSE, !.txQueue = 0]
    OBVIOUS
  <2>3. x.client \in Client
    BY DEF Apps
  <2>4. y = [x EXCEPT !.client = c]
    BY <2>1, <2>2, <2>3 DEF Apps, Client
  <2>5. /\ c \in Client /\ c.gatt = x.client.gatt /\ c.known = x.client.known
        /\ c.connected = x.client.connected
        /\ c.discoveryRequested = x.client.discoveryRequested
        /\ c.chars = x.client.chars /\ c.negotiatedMtu = x.client.negotiatedMtu
        /\ c.ota = x.client.ota /\ c.debugReady = x.client.debugReady
        /\ c.notifyQueue = x.client.notifyQueue /\ ~c.writeInProgress /\ c.txQueue = 0
    BY <2>2, <2>3 DEF Client
  <2>6. /\ y \in Apps /\ y.client = c /\ y.timers = x.timers /\ y.stack = x.stack
        /\ y.verdict = x.verdict /\ y.history = x.history
    BY <2>4, <2>5 DEF Apps
  <2>. QED  BY <2>5, <2>6 DEF QueueOnly, KeepsClient, KeepsSession, KeepsTimers, KeepsLink, Queues, Stops, Retries, Writes
<1>3. CASE ~Updating(x) /\ x.client.gatt # NoLink /\ x.client.chars # NoLink /\ x.client.txQueue = 0
  <2>1. y = [x EXCEPT !.client.writeInProgress = FALSE]
    BY <1>3 DEF WriteNextPacket
  <2>2. PICK c : c = [x.client EXCEPT !.writeInProgress = FALSE]
    OBVIOUS
  <2>3. x.client \in Client
    BY DEF Apps
  <2>4. y = [x EXCEPT !.client = c]
    BY <2>1, <2>2, <2>3 DEF Apps, Client
  <2>5. /\ c \in Client /\ c.gatt = x.client.gatt /\ c.known = x.client.known
        /\ c.connected = x.client.connected
        /\ c.discoveryRequested = x.client.discoveryRequested
        /\ c.chars = x.client.chars /\ c.negotiatedMtu = x.client.negotiatedMtu
        /\ c.ota = x.client.ota /\ c.debugReady = x.client.debugReady
        /\ c.notifyQueue = x.client.notifyQueue /\ ~c.writeInProgress /\ c.txQueue = 0
    BY <1>3, <2>2, <2>3 DEF Client
  <2>6. /\ y \in Apps /\ y.client = c /\ y.timers = x.timers /\ y.stack = x.stack
        /\ y.verdict = x.verdict /\ y.history = x.history
    BY <2>4, <2>5 DEF Apps
  <2>. QED  BY <2>5, <2>6 DEF QueueOnly, KeepsClient, KeepsSession, KeepsTimers, KeepsLink, Queues, Stops
<1>4. CASE ~Updating(x) /\ x.client.gatt # NoLink /\ x.client.chars # NoLink /\ x.client.txQueue # 0
  <2>1. PICK p : p = Polled(x)
    OBVIOUS
  <2>2. x.client.txQueue > 0
    BY <1>1, <1>4
  <2>3. /\ p \in Apps /\ KeepsClient(x, p) /\ KeepsSession(x, p)
        /\ p.client.debugReady = x.client.debugReady /\ p.client.notifyQueue = x.client.notifyQueue
        /\ p.client.writeInProgress /\ p.timers = x.timers /\ p.stack = x.stack
        /\ p.history = x.history
    BY <2>1, <2>2, PolledFacts
  <2>4. CASE Refuses(x, refuse)
    <3>1. y = Post(p, "writeNextPacket")
      BY <1>4, <2>1, <2>4 DEF WriteNextPacket
    <3>2. "writeNextPacket" \in Runnable
      BY DEF Runnable
    <3>3. /\ y \in Apps /\ y.client = p.client /\ y.stack = p.stack
          /\ y.verdict = p.verdict /\ y.history = p.history /\ KeepsTimers(p, y, "writeNextPacket")
          /\ y.timers.once["writeNextPacket"] = p.timers.once["writeNextPacket"] + 1
      BY <2>3, <3>1, <3>2, PostFacts
    <3>. QED
      BY <2>2, <2>3, <3>3 DEF QueueOnly, KeepsClient, KeepsSession, KeepsTimers, KeepsLink, Queues, Stops, Retries, Writes
  <2>5. CASE ~Refuses(x, refuse)
    <3>1. y = [p EXCEPT !.stack.op = HostOp("host")]
      BY <1>4, <2>1, <2>5 DEF WriteNextPacket
    <3>2. x.stack.op = Idle /\ x.stack.state # "connecting"
      BY <2>5 DEF Refuses
    <3>3. HostOp("host") \in Op
      BY OpFacts
    <3>4. /\ y \in Apps /\ y.client = p.client /\ y.timers = p.timers /\ y.verdict = p.verdict
          /\ y.history = p.history /\ y.stack.op = HostOp("host") /\ KeepsLink(p, y)
          /\ y.stack.discovering = p.stack.discovering
      BY <2>3, <3>1, <3>3 DEF Apps, Stack, KeepsLink
    <3>. QED
      BY <2>2, <2>3, <3>2, <3>4 DEF QueueOnly, KeepsClient, KeepsSession, KeepsTimers, KeepsLink, Queues, Stops, Retries, Writes
  <2>. QED  BY <2>4, <2>5
<1>. QED  BY <1>2, <1>3, <1>4

LEMMA QueuedFacts ==
  ASSUME NEW x \in Apps, NEW n \in 1..2, NEW y, y = [x EXCEPT !.client.txQueue = @ + n]
  PROVE  /\ y \in Apps /\ QueueOnly(x, y) /\ y.timers = x.timers /\ y.stack = x.stack
         /\ y.client.writeInProgress = x.client.writeInProgress
<1>1. PICK c : c = [x.client EXCEPT !.txQueue = @ + n]
  OBVIOUS
<1>2. x.client \in Client /\ x.client.txQueue + n \in Nat
  BY DEF Apps, Client
<1>3. y = [x EXCEPT !.client = c]
  BY <1>1, <1>2 DEF Apps, Client
<1>4. /\ c \in Client /\ c.gatt = x.client.gatt /\ c.known = x.client.known
      /\ c.connected = x.client.connected /\ c.discoveryRequested = x.client.discoveryRequested
      /\ c.chars = x.client.chars /\ c.negotiatedMtu = x.client.negotiatedMtu
      /\ c.ota = x.client.ota /\ c.debugReady = x.client.debugReady
      /\ c.notifyQueue = x.client.notifyQueue /\ c.writeInProgress = x.client.writeInProgress
  BY <1>1, <1>2 DEF Client
<1>5. /\ y \in Apps /\ y.client = c /\ y.timers = x.timers /\ y.stack = x.stack
      /\ y.verdict = x.verdict /\ y.history = x.history
  BY <1>3, <1>4 DEF Apps
<1>. QED  BY <1>4, <1>5 DEF QueueOnly, KeepsClient, KeepsSession, KeepsTimers, KeepsLink

\* What sendPackets makes of the app: nothing, or more in the queue.
Sends(x, y) ==
  \/ y = x
  \/ /\ x.client.debugReady
     /\ \/ /\ x.client.writeInProgress /\ y.client.writeInProgress
           /\ y.stack = x.stack /\ y.timers = x.timers
        \/ Queues(x, y)

LEMMA SendPacketsFacts ==
  ASSUME NEW x \in Apps, NEW n \in 1..2, NEW refuse \in BOOLEAN, NEW y, y = SendPackets(x, n, refuse)
  PROVE  y \in Apps /\ QueueOnly(x, y) /\ Sends(x, y)
<1>1. PICK q : q = [x EXCEPT !.client.txQueue = @ + n]
  OBVIOUS
<1>2. /\ q \in Apps /\ QueueOnly(x, q) /\ q.timers = x.timers /\ q.stack = x.stack
      /\ q.client.writeInProgress = x.client.writeInProgress
  BY <1>1, QueuedFacts
<1>3. \/ y = x
      \/ x.client.debugReady /\ x.client.writeInProgress /\ y = q
      \/ x.client.debugReady /\ y = WriteNextPacket(q, refuse)
  BY <1>1 DEF SendPackets
<1>4. CASE y = x
  BY <1>4 DEF Sends, QueueOnly, KeepsClient, KeepsSession, KeepsTimers, KeepsLink
<1>5. CASE x.client.debugReady /\ x.client.writeInProgress /\ y = q
  BY <1>2, <1>5 DEF Sends
<1>6. CASE x.client.debugReady /\ y = WriteNextPacket(q, refuse)
  <2>1. y \in Apps /\ QueueOnly(q, y) /\ Queues(q, y)
    BY <1>2, <1>6, WriteNextPacketFacts
  <2>2. QueueOnly(x, y)
    BY <1>2, <2>1 DEF QueueOnly, KeepsClient, KeepsSession, KeepsTimers, KeepsLink
  <2>3. Queues(x, y)
    BY <1>2, <2>1 DEF Queues, Stops, Retries, Writes
  <2>. QED  BY <1>6, <2>1, <2>2, <2>3 DEF Sends
<1>. QED  BY <1>3, <1>4, <1>5, <1>6

\* The last characteristic is behind: the channel is ready, and its first
\* command is on its way unless another write is.
Readies(x, y) ==
  /\ y.client.debugReady /\ KeepsSession(x, y) /\ KeepsTimers(x, y, "writeNextPacket")
  /\ KeepsLink(x, y) /\ y.stack.discovering = x.stack.discovering
  /\ \/ /\ y.client.writeInProgress = x.client.writeInProgress
        /\ y.client.txQueue = x.client.txQueue \/ y.client.writeInProgress
        /\ y.stack = x.stack /\ y.timers = x.timers
     \/ Queues(x, y)

\* The next characteristic is asked for.
Asks(x, y) ==
  /\ y.client.debugReady = x.client.debugReady /\ KeepsSession(x, y)
  /\ y.client.txQueue = x.client.txQueue
  /\ y.client.writeInProgress = x.client.writeInProgress
  /\ y.timers = x.timers /\ KeepsLink(x, y) /\ y.stack.discovering = x.stack.discovering
  /\ y.stack.op = HostOp("descriptor")

LEMMA ReadyFacts ==
  ASSUME NEW x \in Apps, NEW y, y = [x EXCEPT !.client.notifyQueue = 0, !.client.debugReady = TRUE]
  PROVE  /\ y \in Apps /\ KeepsClient(x, y) /\ KeepsSession(x, y) /\ y.client.debugReady
         /\ y.client.writeInProgress = x.client.writeInProgress
         /\ y.client.txQueue = x.client.txQueue /\ y.client.notifyQueue = 0
         /\ y.stack = x.stack /\ y.timers = x.timers /\ y.history = x.history
<1>1. PICK c : c = [x.client EXCEPT !.notifyQueue = 0, !.debugReady = TRUE]
  OBVIOUS
<1>2. x.client \in Client /\ 0 \in 0..Notified
  BY DEF Apps, Notified
<1>3. y = [x EXCEPT !.client = c]
  BY <1>1, <1>2 DEF Apps, Client
<1>4. /\ c \in Client /\ c.gatt = x.client.gatt /\ c.known = x.client.known
      /\ c.connected = x.client.connected /\ c.discoveryRequested = x.client.discoveryRequested
      /\ c.chars = x.client.chars /\ c.negotiatedMtu = x.client.negotiatedMtu
      /\ c.ota = x.client.ota /\ c.debugReady /\ c.notifyQueue = 0
      /\ c.writeInProgress = x.client.writeInProgress /\ c.txQueue = x.client.txQueue
  BY <1>1, <1>2 DEF Client
<1>5. /\ y \in Apps /\ y.client = c /\ y.timers = x.timers /\ y.stack = x.stack
      /\ y.verdict = x.verdict /\ y.history = x.history
  BY <1>3, <1>4 DEF Apps
<1>. QED  BY <1>4, <1>5 DEF KeepsClient, KeepsSession

LEMMA SubscribeNextFacts ==
  ASSUME NEW x \in Apps, NEW skipped \in 0..x.client.notifyQueue, NEW y, y = SubscribeNext(x, skipped)
  PROVE  /\ y \in Apps /\ KeepsClient(x, y) /\ y.history = x.history
         /\ y.timers.discover = x.timers.discover
         /\ \/ x.client.gatt = NoLink /\ y = x
            \/ /\ x.client.gatt # NoLink /\ skipped = x.client.notifyQueue /\ Readies(x, y)
            \/ /\ x.client.gatt # NoLink /\ skipped < x.client.notifyQueue /\ Asks(x, y)
               /\ y.client.notifyQueue = x.client.notifyQueue - skipped - 1
<1>1. x.client \in Client /\ x.client.notifyQueue \in 0..3 /\ skipped \in 0..3
  BY DEF Apps, Client, Notified
<1>2. CASE x.client.gatt = NoLink
  BY <1>2 DEF SubscribeNext, KeepsClient
<1>3. CASE x.client.gatt # NoLink /\ skipped = x.client.notifyQueue
  <2>1. PICK r : r = [x EXCEPT !.client.notifyQueue = 0, !.client.debugReady = TRUE]
    OBVIOUS
  <2>2. y = SendPackets(r, 1, FALSE)
    <3>1. AllAsked(x.client.notifyQueue, skipped)
      BY <1>1, <1>3 DEF AllAsked
    <3>. QED  BY <1>3, <2>1, <3>1 DEF SubscribeNext
  <2>3. /\ r \in Apps /\ KeepsClient(x, r) /\ KeepsSession(x, r) /\ r.client.debugReady
        /\ r.client.writeInProgress = x.client.writeInProgress
        /\ r.client.txQueue = x.client.txQueue
        /\ r.stack = x.stack /\ r.timers = x.timers /\ r.history = x.history
    BY <2>1, ReadyFacts
  <2>4. 1 \in 1..2 /\ FALSE \in BOOLEAN
    OBVIOUS
  <2>5. y \in Apps /\ QueueOnly(r, y) /\ Sends(r, y)
    BY <2>2, <2>3, <2>4, SendPacketsFacts
  <2>6. /\ KeepsClient(x, y) /\ KeepsSession(x, y) /\ y.history = x.history
        /\ y.timers.discover = x.timers.discover /\ KeepsTimers(x, y, "writeNextPacket")
        /\ KeepsLink(x, y) /\ y.stack.discovering = x.stack.discovering /\ y.client.debugReady
    BY <2>3, <2>5 DEF QueueOnly, KeepsClient, KeepsSession, KeepsTimers, KeepsLink
  <2>7. \/ /\ y.client.writeInProgress = x.client.writeInProgress
           /\ y.client.txQueue = x.client.txQueue \/ y.client.writeInProgress
           /\ y.stack = x.stack /\ y.timers = x.timers
        \/ Queues(x, y)
    <3>1. CASE Queues(r, y)
      BY <2>3, <3>1 DEF Queues, Stops, Retries, Writes
    <3>2. CASE ~Queues(r, y)
      BY <2>3, <2>5, <3>2 DEF Sends
    <3>. QED  BY <3>1, <3>2
  <2>. QED  BY <1>3, <2>5, <2>6, <2>7 DEF Readies
<1>4. CASE x.client.gatt # NoLink /\ skipped # x.client.notifyQueue
  <2>1. skipped < x.client.notifyQueue /\ ~(skipped >= x.client.notifyQueue)
    BY <1>1, <1>4
  <2>2. PICK n : n = x.client.notifyQueue - skipped - 1
    OBVIOUS
  <2>3. n \in 0..3
    BY <1>1, <2>1, <2>2
  <2>4. y = [x EXCEPT !.client.notifyQueue = n, !.stack.op = HostOp("descriptor")]
    BY <1>4, <2>1, <2>2 DEF SubscribeNext, AllAsked
  <2>5. PICK c, st : c = [x.client EXCEPT !.notifyQueue = n] /\ st = [x.stack EXCEPT !.op = HostOp("descriptor")]
    OBVIOUS
  <2>6. y = [x EXCEPT !.client = c, !.stack = st]
    BY <2>4, <2>5 DEF Apps
  <2>7. /\ c \in Client /\ c.gatt = x.client.gatt /\ c.known = x.client.known
        /\ c.connected = x.client.connected /\ c.discoveryRequested = x.client.discoveryRequested
        /\ c.chars = x.client.chars /\ c.negotiatedMtu = x.client.negotiatedMtu
        /\ c.ota = x.client.ota /\ c.debugReady = x.client.debugReady /\ c.notifyQueue = n
        /\ c.writeInProgress = x.client.writeInProgress /\ c.txQueue = x.client.txQueue
    BY <1>1, <2>3, <2>5 DEF Client, Notified
  <2>8. x.stack \in Stack /\ HostOp("descriptor") \in Op
    BY OpFacts DEF Apps
  <2>9. /\ st \in Stack /\ st.link = x.stack.link /\ st.state = x.stack.state
        /\ st.mtu = x.stack.mtu /\ st.mtuAsked = x.stack.mtuAsked
        /\ st.subscribed = x.stack.subscribed /\ st.discovering = x.stack.discovering
        /\ st.op = HostOp("descriptor")
    BY <2>5, <2>8 DEF Stack
  <2>10. /\ y \in Apps /\ y.client = c /\ y.timers = x.timers /\ y.stack = st
         /\ y.verdict = x.verdict /\ y.history = x.history
    BY <2>6, <2>7, <2>9 DEF Apps
  <2>. QED  BY <1>4, <2>1, <2>2, <2>7, <2>9, <2>10 DEF KeepsClient, KeepsSession, KeepsLink, Asks
<1>. QED  BY <1>2, <1>3, <1>4

LEMMA DiscoverServicesFacts ==
  ASSUME NEW x \in Apps, NEW g \in Link \cup {NoLink}, NEW y, y = DiscoverServices(x, g)
  PROVE  \/ (x.client.discoveryRequested \/ ~x.client.connected) /\ y = x
         \/ /\ ~x.client.discoveryRequested /\ x.client.connected
            /\ y \in Apps /\ y.client = [x.client EXCEPT !.discoveryRequested = TRUE]
            /\ y.timers = x.timers /\ y.verdict = x.verdict /\ y.history = x.history
            /\ KeepsLink(x, y) /\ y.stack.op = x.stack.op
            /\ y.stack.discovering = (x.stack.discovering \/ (g = x.stack.link /\ x.stack.state = "up"))
<1>1. CASE x.client.discoveryRequested \/ ~x.client.connected
  BY <1>1 DEF DiscoverServices
<1>2. CASE ~x.client.discoveryRequested /\ x.client.connected
  <2>1. PICK b : b = (x.stack.discovering \/ (g = x.stack.link /\ x.stack.state = "up"))
    OBVIOUS
  <2>2. x.stack \in Stack /\ x.client \in Client
    BY DEF Apps
  <2>3. x.stack.discovering \in BOOLEAN /\ b \in BOOLEAN
    BY <2>1, <2>2 DEF Stack
  <2>4. PICK c, st : c = [x.client EXCEPT !.discoveryRequested = TRUE] /\ st = [x.stack EXCEPT !.discovering = b]
    OBVIOUS
  <2>5. y = [x EXCEPT !.client = c, !.stack = st]
    BY <1>2, <2>1, <2>2, <2>3, <2>4 DEF DiscoverServices, Apps, Stack
  <2>6. /\ st \in Stack /\ st.link = x.stack.link /\ st.state = x.stack.state
        /\ st.mtu = x.stack.mtu /\ st.mtuAsked = x.stack.mtuAsked
        /\ st.subscribed = x.stack.subscribed /\ st.discovering = b
        /\ st.op = x.stack.op
    BY <2>2, <2>3, <2>4 DEF Stack
  <2>7. c \in Client
    BY <2>2, <2>4 DEF Client
  <2>8. /\ y \in Apps /\ y.client = c /\ y.timers = x.timers /\ y.stack = st
        /\ y.verdict = x.verdict /\ y.history = x.history
    BY <2>5, <2>6, <2>7 DEF Apps
  <2>. QED  BY <1>2, <2>1, <2>4, <2>6, <2>8 DEF KeepsLink
<1>. QED  BY <1>1, <1>2

LEMMA DisconnectFacts ==
  ASSUME NEW x \in Apps, NEW y, y = Disconnect(x)
  PROVE  /\ y \in Apps /\ y.timers = x.timers /\ y.stack = Closed /\ y.verdict = x.verdict
         /\ y.history = x.history /\ y.client.gatt = NoLink /\ ~y.client.debugReady
         /\ ~y.client.writeInProgress /\ y.client.txQueue = 0 /\ y.client.ota = None
<1>1. PICK c : c = [x.client EXCEPT !.connected = FALSE, !.debugReady = FALSE,
                       !.writeInProgress = FALSE, !.txQueue = 0, !.notifyQueue = 0,
                       !.known = FALSE, !.chars = NoLink, !.ota = None, !.gatt = NoLink]
  OBVIOUS
<1>2. y = [x EXCEPT !.client = c, !.stack = Closed]
  BY <1>1 DEF Disconnect, Apps
<1>3. Closed \in Stack
  BY OpFacts DEF Closed, Stack, Mtu, Notified
<1>4. x.client \in Client /\ 0 \in 0..Notified
  BY DEF Apps, Notified
<1>5. /\ c \in Client /\ c.gatt = NoLink /\ ~c.debugReady /\ ~c.writeInProgress
      /\ c.txQueue = 0 /\ c.ota = None
  BY <1>1, <1>4 DEF Client
<1>. QED  BY <1>2, <1>3, <1>5 DEF Apps

\* What the update leaves alone.
OtaOnly(x, y) ==
  /\ KeepsClient(x, y) /\ KeepsLink(x, y) /\ y.stack.discovering = x.stack.discovering
  /\ y.client.debugReady = x.client.debugReady /\ y.client.notifyQueue = x.client.notifyQueue
  /\ y.client.writeInProgress = x.client.writeInProgress /\ y.client.txQueue = x.client.txQueue
  /\ y.timers.discover = x.timers.discover /\ y.history = x.history
  /\ y.timers.once["writeNextPacket"] = x.timers.once["writeNextPacket"]

\* The update is given up; it was not completed.
GivesUp(x, y) ==
  /\ y.client.ota = None /\ y.stack = x.stack /\ y.timers = x.timers
  /\ y.verdict = "completed" => x.verdict = "completed"

\* An OTA packet is on its way, the session is s.
Streams(x, y, op, s) ==
  /\ x.client.ota # None /\ x.stack.op = Idle /\ y.stack.op = op /\ y.client.ota = s
  /\ y.timers = x.timers /\ y.verdict = x.verdict

\* The session becomes s, the verdict v.
Sets(x, s, v, y) == y = [x EXCEPT !.client = [x.client EXCEPT !.ota = s], !.verdict = v]

LEMMA OtaFieldFacts ==
  ASSUME NEW x \in Apps, NEW s \in OtaSession \cup {None}, NEW v \in Verdict, NEW y, Sets(x, s, v, y)
  PROVE  /\ y \in Apps /\ OtaOnly(x, y) /\ y.client.ota = s /\ y.timers = x.timers
         /\ y.stack = x.stack /\ y.verdict = v
<1>0. PICK c : c = [x.client EXCEPT !.ota = s]
  OBVIOUS
<1>1. x.client \in Client /\ y = [x EXCEPT !.client = c, !.verdict = v]
  BY <1>0 DEF Apps, Sets
<1>2. /\ c \in Client /\ c.gatt = x.client.gatt /\ c.known = x.client.known
      /\ c.connected = x.client.connected /\ c.discoveryRequested = x.client.discoveryRequested
      /\ c.chars = x.client.chars /\ c.negotiatedMtu = x.client.negotiatedMtu
      /\ c.ota = s /\ c.debugReady = x.client.debugReady /\ c.notifyQueue = x.client.notifyQueue
      /\ c.writeInProgress = x.client.writeInProgress /\ c.txQueue = x.client.txQueue
  BY <1>0, <1>1 DEF Client
<1>3. /\ y \in Apps /\ y.client = c /\ y.timers = x.timers /\ y.stack = x.stack
      /\ y.verdict = v /\ y.history = x.history
  BY <1>1, <1>2 DEF Apps
<1>. QED  BY <1>2, <1>3 DEF OtaOnly, KeepsClient, KeepsLink

LEMMA FailOtaFacts ==
  ASSUME NEW x \in Apps, NEW y, y = FailOta(x)
  PROVE  y \in Apps /\ OtaOnly(x, y) /\ GivesUp(x, y)
<1>1. PICK v : v = IF Updating(x) THEN "failed" ELSE x.verdict
  OBVIOUS
<1>2. v \in Verdict /\ (v = "completed" => x.verdict = "completed")
  BY <1>1 DEF Apps, Verdict
<1>3. None \in OtaSession \cup {None}
  OBVIOUS
<1>4. Sets(x, None, v, y)
  BY <1>1 DEF FailOta, Apps, Sets
<1>5. /\ y \in Apps /\ OtaOnly(x, y) /\ y.client.ota = None /\ y.timers = x.timers
      /\ y.stack = x.stack /\ y.verdict = v
  BY <1>2, <1>3, <1>4, OtaFieldFacts
<1>. QED  BY <1>2, <1>5 DEF GivesUp

LEMMA WriteOtaFacts ==
  ASSUME NEW x \in Apps, NEW op \in Op, NEW refuse \in BOOLEAN, NEW z \in Apps,
         OtaOnly(x, z), z.timers = x.timers, z.stack = x.stack, z.verdict = x.verdict,
         x.client.ota # None, NEW y, y = WriteOta(x, op, refuse, z)
  PROVE  y \in Apps /\ OtaOnly(x, y) /\ (GivesUp(x, y) \/ Streams(x, y, op, z.client.ota))
<1>1. CASE x.stack.op # Idle \/ refuse
  <2>1. y = FailOta(x)
    BY <1>1 DEF WriteOta
  <2>. QED  BY <2>1, FailOtaFacts
<1>2. CASE x.stack.op = Idle /\ ~refuse
  <2>1. y = [z EXCEPT !.stack.op = op]
    BY <1>2 DEF WriteOta
  <2>2. PICK st : st = [z.stack EXCEPT !.op = op]
    OBVIOUS
  <2>3. y = [z EXCEPT !.stack = st]
    BY <2>1, <2>2 DEF Apps
  <2>4. z.stack \in Stack
    BY DEF Apps
  <2>5. /\ st \in Stack /\ st.link = z.stack.link /\ st.state = z.stack.state
        /\ st.mtu = z.stack.mtu /\ st.mtuAsked = z.stack.mtuAsked
        /\ st.subscribed = z.stack.subscribed /\ st.discovering = z.stack.discovering
        /\ st.op = op
    BY <2>2, <2>4 DEF Stack
  <2>6. /\ y \in Apps /\ y.client = z.client /\ y.timers = z.timers /\ y.stack = st
        /\ y.verdict = z.verdict /\ y.history = z.history
    BY <2>3, <2>5 DEF Apps
  <2>. QED  BY <1>2, <2>5, <2>6 DEF OtaOnly, KeepsClient, KeepsLink, Streams
<1>. QED  BY <1>1, <1>2

StartOp(p) == [name |-> "start", pdu |-> p, index |-> 0]

\* writeOtaStart gives up or sends START with the PDU of the link's MTU.
Starts(x, y) ==
  \E p \in Pdu : Streams(x, y, StartOp(p), [x.client.ota EXCEPT !.pdu = p])

LEMMA SessionFacts ==
  ASSUME NEW x \in Apps, x.client.ota # None
  PROVE  x.client.ota \in OtaSession
BY DEF Apps, Client

LEMMA WriteOtaStartFacts ==
  ASSUME NEW x \in Apps, NEW refuse \in BOOLEAN, NEW y, y = WriteOtaStart(x, refuse)
  PROVE  y \in Apps /\ OtaOnly(x, y) /\ (GivesUp(x, y) \/ Starts(x, y))
<1>1. CASE OtaLost(x)
  <2>1. y = FailOta(x)
    BY <1>1 DEF WriteOtaStart
  <2>. QED  BY <2>1, FailOtaFacts
<1>2. CASE ~OtaLost(x)
  <2>1. PICK p : p = PduFor(x)
    OBVIOUS
  <2>2. p \in Pdu
    BY <2>1 DEF PduFor, Pdu
  <2>3. PICK op : op = [name |-> "start", pdu |-> p, index |-> 0]
    OBVIOUS
  <2>4. op \in Op
    BY <2>2, <2>3, Numbers DEF Op
  <2>5. PICK z : z = WithPdu(x, p)
    OBVIOUS
  <2>6. y = WriteOta(x, op, refuse, z)
    BY <1>2, <2>1, <2>3, <2>5 DEF WriteOtaStart
  <2>7. x.client.ota # None /\ x.client.ota \in OtaSession
    BY <1>2, SessionFacts DEF OtaLost, Updating
  <2>8. PICK s, v : s = [x.client.ota EXCEPT !.pdu = p] /\ v = x.verdict
    OBVIOUS
  <2>9. s \in OtaSession \cup {None} /\ v \in Verdict
    BY <2>2, <2>7, <2>8 DEF OtaSession, Apps
  <2>10. Sets(x, s, v, z)
    BY <2>5, <2>7, <2>8 DEF WithPdu, Apps, Client, Sets
  <2>11. /\ z \in Apps /\ OtaOnly(x, z) /\ z.client.ota = s /\ z.timers = x.timers
         /\ z.stack = x.stack /\ z.verdict = v
    BY <2>9, <2>10, OtaFieldFacts
  <2>12. y \in Apps /\ OtaOnly(x, y) /\ (GivesUp(x, y) \/ Streams(x, y, op, s))
    BY <2>4, <2>6, <2>7, <2>8, <2>11, WriteOtaFacts
  <2>. QED  BY <2>2, <2>3, <2>8, <2>12 DEF Starts, StartOp
<1>. QED  BY <1>1, <1>2

\* START waits for the packet before it; the session is s.
Delays(x, y, s) ==
  /\ x.client.ota # None /\ y.client.ota = s /\ y.stack = x.stack /\ y.verdict = x.verdict
  /\ KeepsTimers(x, y, "writeOtaStartWhenIdle")
  /\ y.timers.once["writeOtaStartWhenIdle"] = x.timers.once["writeOtaStartWhenIdle"] + 1

LEMMA WriteOtaStartWhenIdleFacts ==
  ASSUME NEW x \in Apps, NEW refuse \in BOOLEAN, NEW y, y = WriteOtaStartWhenIdle(x, refuse)
  PROVE  /\ y \in Apps /\ OtaOnly(x, y)
         /\ GivesUp(x, y) \/ Starts(x, y) \/ Delays(x, y, x.client.ota)
<1>1. CASE ~OtaLost(x) /\ x.client.writeInProgress
  <2>1. y = Post(x, "writeOtaStartWhenIdle")
    BY <1>1 DEF WriteOtaStartWhenIdle
  <2>2. "writeOtaStartWhenIdle" \in Runnable /\ "writeNextPacket" \in Runnable
    BY DEF Runnable
  <2>3. /\ y \in Apps /\ y.client = x.client /\ y.stack = x.stack /\ y.verdict = x.verdict
        /\ y.history = x.history /\ KeepsTimers(x, y, "writeOtaStartWhenIdle")
        /\ y.timers.once["writeOtaStartWhenIdle"] = x.timers.once["writeOtaStartWhenIdle"] + 1
    BY <2>1, <2>2, PostFacts
  <2>4. x.client.ota # None
    BY <1>1 DEF OtaLost, Updating
  <2>. QED  BY <2>2, <2>3, <2>4 DEF OtaOnly, KeepsClient, KeepsLink, KeepsTimers, Delays
<1>2. CASE ~(~OtaLost(x) /\ x.client.writeInProgress)
  <2>1. y = WriteOtaStart(x, refuse)
    BY <1>2 DEF WriteOtaStartWhenIdle
  <2>. QED  BY <2>1, WriteOtaStartFacts
<1>. QED  BY <1>1, <1>2

\* The wait for the MTU is over, in time or not.
AfterMtu(x, y) ==
  LET s == [x.client.ota EXCEPT !.waitingForMtu = FALSE] IN
  \/ GivesUp(x, y)
  \/ \E p \in Pdu : Streams(x, y, StartOp(p), [s EXCEPT !.pdu = p])
  \/ Delays(x, y, s)

LEMMA StartOtaAfterMtuFacts ==
  ASSUME NEW x \in Apps, NEW refuse \in BOOLEAN, NEW y, y = StartOtaAfterMtu(x, refuse)
  PROVE  /\ y \in Apps /\ OtaOnly(x, y)
         /\ \/ (x.client.ota = None \/ ~x.client.ota.waitingForMtu) /\ y = x
            \/ x.client.ota # None /\ x.client.ota.waitingForMtu /\ AfterMtu(x, y)
<1>1. CASE x.client.ota = None \/ ~x.client.ota.waitingForMtu
  <2>1. y = x
    BY <1>1 DEF StartOtaAfterMtu, Updating
  <2>. QED  BY <1>1, <2>1 DEF OtaOnly, KeepsClient, KeepsLink
<1>2. CASE x.client.ota # None /\ x.client.ota.waitingForMtu
  <2>1. PICK z : z = [x EXCEPT !.client.ota.waitingForMtu = FALSE]
    OBVIOUS
  <2>2. y = WriteOtaStartWhenIdle(z, refuse)
    BY <1>2, <2>1 DEF StartOtaAfterMtu, Updating
  <2>3. x.client.ota \in OtaSession
    BY <1>2, SessionFacts
  <2>4. PICK s, v : s = [x.client.ota EXCEPT !.waitingForMtu = FALSE] /\ v = x.verdict
    OBVIOUS
  <2>5. s \in OtaSession \cup {None} /\ v \in Verdict
    BY <2>3, <2>4 DEF OtaSession, Apps
  <2>6. Sets(x, s, v, z)
    BY <2>1, <2>3, <2>4 DEF Apps, Client, Sets
  <2>7. /\ z \in Apps /\ OtaOnly(x, z) /\ z.client.ota = s /\ z.timers = x.timers
        /\ z.stack = x.stack /\ z.verdict = v
    BY <2>5, <2>6, OtaFieldFacts
  <2>8. /\ y \in Apps /\ OtaOnly(z, y)
        /\ GivesUp(z, y) \/ Starts(z, y) \/ Delays(z, y, z.client.ota)
    BY <2>2, <2>7, WriteOtaStartWhenIdleFacts
  <2>9. OtaOnly(x, y)
    BY <2>7, <2>8 DEF OtaOnly, KeepsClient, KeepsLink
  <2>10. CASE GivesUp(z, y)
    BY <1>2, <2>4, <2>7, <2>8, <2>9, <2>10 DEF GivesUp, AfterMtu
  <2>11. CASE Starts(z, y)
    <3>1. PICK p \in Pdu : Streams(z, y, StartOp(p), [z.client.ota EXCEPT !.pdu = p])
      BY <2>11 DEF Starts
    <3>2. PICK t : t = [s EXCEPT !.pdu = p]
      OBVIOUS
    <3>3. Streams(z, y, StartOp(p), t)
      BY <2>7, <3>1, <3>2
    <3>4. Streams(x, y, StartOp(p), t)
      BY <1>2, <2>4, <2>7, <3>3 DEF Streams
    <3>5. \E q \in Pdu : Streams(x, y, StartOp(q), [s EXCEPT !.pdu = q])
      BY <3>2, <3>4
    <3>. QED  BY <1>2, <2>4, <2>8, <2>9, <3>5 DEF AfterMtu
  <2>12. CASE Delays(z, y, z.client.ota)
    <3>1. Delays(x, y, s)
      BY <1>2, <2>4, <2>7, <2>12 DEF Delays, KeepsTimers
    <3>. QED  BY <1>2, <2>4, <2>8, <2>9, <3>1 DEF AfterMtu
  <2>. QED  BY <2>8, <2>10, <2>11, <2>12
<1>. QED  BY <1>1, <1>2

EndOp(s)  == [name |-> "end", pdu |-> s.pdu, index |-> Chunks(s.pdu)]
DataOp(s) == [name |-> "data", pdu |-> s.pdu, index |-> s.nextIndex]

\* END after the last chunk, the next chunk before.
Continues(x, y) ==
  LET s == x.client.ota IN
  \/ s.nextIndex >= Chunks(s.pdu) /\ Streams(x, y, EndOp(s), [s EXCEPT !.endSent = TRUE])
  \/ s.nextIndex < Chunks(s.pdu) /\ Streams(x, y, DataOp(s), [s EXCEPT !.nextIndex = @ + 1])

LEMMA WriteNextOtaDataFacts ==
  ASSUME NEW x \in Apps, NEW refuse \in BOOLEAN, NEW y, y = WriteNextOtaData(x, refuse)
  PROVE  y \in Apps /\ OtaOnly(x, y) /\ (GivesUp(x, y) \/ Continues(x, y))
<1>1. CASE OtaLost(x)
  <2>1. y = FailOta(x)
    BY <1>1 DEF WriteNextOtaData
  <2>. QED  BY <2>1, FailOtaFacts
<1>2. CASE ~OtaLost(x)
  <2>1. PICK s, v : s = x.client.ota /\ v = x.verdict
    OBVIOUS
  <2>2. s # None /\ s \in OtaSession /\ v \in Verdict
    BY <1>2, <2>1, SessionFacts DEF OtaLost, Updating, Apps
  <2>3. s.nextIndex \in Nat /\ Chunks(s.pdu) \in 0..FallbackChunks /\ FallbackChunks \in Nat
    BY <2>2, Numbers DEF OtaSession
  <2>4. CASE s.nextIndex >= Chunks(s.pdu)
    <3>1. PICK z, op, t : z = [x EXCEPT !.client.ota.endSent = TRUE]
                          /\ op = EndOp(s) /\ t = [s EXCEPT !.endSent = TRUE]
      OBVIOUS
    <3>2. y = WriteOta(x, op, refuse, z)
      BY <1>2, <2>1, <2>4, <3>1 DEF WriteNextOtaData, AllChunksWritten, EndOp
    <3>3. op \in Op /\ t \in OtaSession \cup {None}
      BY <2>2, <2>3, <3>1 DEF Op, OtaSession, EndOp
    <3>4. Sets(x, t, v, z)
      BY <2>1, <2>2, <3>1 DEF Apps, Client, Sets
    <3>5. /\ z \in Apps /\ OtaOnly(x, z) /\ z.client.ota = t /\ z.timers = x.timers
          /\ z.stack = x.stack /\ z.verdict = v
      BY <2>2, <3>3, <3>4, OtaFieldFacts
    <3>6. y \in Apps /\ OtaOnly(x, y) /\ (GivesUp(x, y) \/ Streams(x, y, op, t))
      BY <2>1, <2>2, <3>2, <3>3, <3>5, WriteOtaFacts
    <3>. QED  BY <2>1, <2>4, <3>1, <3>6 DEF Continues
  <2>5. CASE s.nextIndex < Chunks(s.pdu)
    <3>1. PICK z, op, t : z = [x EXCEPT !.client.ota.nextIndex = @ + 1]
                          /\ op = DataOp(s) /\ t = [s EXCEPT !.nextIndex = @ + 1]
      OBVIOUS
    <3>2. y = WriteOta(x, op, refuse, z)
      <4>1. ~AllChunksWritten(x.client.ota)
        BY <2>1, <2>3, <2>5 DEF AllChunksWritten
      <4>. QED  BY <1>2, <2>1, <3>1, <4>1 DEF WriteNextOtaData, DataOp
    <3>3. op \in Op /\ t \in OtaSession \cup {None}
      BY <2>2, <2>3, <2>5, <3>1 DEF Op, OtaSession, DataOp
    <3>4. Sets(x, t, v, z)
      BY <2>1, <2>2, <3>1 DEF Apps, Client, Sets
    <3>5. /\ z \in Apps /\ OtaOnly(x, z) /\ z.client.ota = t /\ z.timers = x.timers
          /\ z.stack = x.stack /\ z.verdict = v
      BY <2>2, <3>3, <3>4, OtaFieldFacts
    <3>6. y \in Apps /\ OtaOnly(x, y) /\ (GivesUp(x, y) \/ Streams(x, y, op, t))
      BY <2>1, <2>2, <3>2, <3>3, <3>5, WriteOtaFacts
    <3>. QED  BY <2>1, <2>5, <3>1, <3>6 DEF Continues
  <2>. QED  BY <2>3, <2>4, <2>5
<1>. QED  BY <1>1, <1>2

\* What becomes of the queue once a host packet was answered.
Answers(x, y) ==
  \/ /\ x.client.ota # None /\ y.timers = x.timers
     /\ ~y.client.writeInProgress /\ y.client.txQueue = 0
  \/ /\ x.client.ota = None /\ y.client = x.client
     /\ y.timers.once["writeNextPacket"] = x.timers.once["writeNextPacket"] + 1

LEMMA HostWrittenFacts ==
  ASSUME NEW x \in Apps, NEW y, y = HostWritten(x)
  PROVE  y \in Apps /\ QueueOnly(x, y) /\ Answers(x, y) /\ y.stack = x.stack
<1>1. CASE x.client.ota # None
  <2>1. PICK c : c = [x.client EXCEPT !.writeInProgress = FALSE, !.txQueue = 0]
    OBVIOUS
  <2>2. x.client \in Client
    BY DEF Apps
  <2>3. y = [x EXCEPT !.client = c]
    BY <1>1, <2>1, <2>2 DEF HostWritten, Updating, Apps, Client
  <2>4. /\ c \in Client /\ c.gatt = x.client.gatt /\ c.known = x.client.known
        /\ c.connected = x.client.connected
        /\ c.discoveryRequested = x.client.discoveryRequested
        /\ c.chars = x.client.chars /\ c.negotiatedMtu = x.client.negotiatedMtu
        /\ c.ota = x.client.ota /\ c.debugReady = x.client.debugReady
        /\ c.notifyQueue = x.client.notifyQueue /\ ~c.writeInProgress /\ c.txQueue = 0
    BY <2>1, <2>2 DEF Client
  <2>5. /\ y \in Apps /\ y.client = c /\ y.timers = x.timers /\ y.stack = x.stack
        /\ y.verdict = x.verdict /\ y.history = x.history
    BY <2>3, <2>4 DEF Apps
  <2>. QED
    BY <1>1, <2>4, <2>5 DEF QueueOnly, KeepsClient, KeepsSession, KeepsTimers, KeepsLink, Answers
<1>2. CASE x.client.ota = None
  <2>1. y = Post(x, "writeNextPacket")
    BY <1>2 DEF HostWritten, Updating
  <2>2. "writeNextPacket" \in Runnable
    BY DEF Runnable
  <2>3. /\ y \in Apps /\ y.client = x.client /\ y.stack = x.stack
        /\ y.verdict = x.verdict /\ y.history = x.history /\ KeepsTimers(x, y, "writeNextPacket")
        /\ y.timers.once["writeNextPacket"] = x.timers.once["writeNextPacket"] + 1
    BY <2>1, <2>2, PostFacts
  <2>. QED  BY <1>2, <2>3 DEF QueueOnly, KeepsClient, KeepsSession, KeepsLink, Answers
<1>. QED  BY <1>1, <1>2

\* What becomes of the update once an OTA packet was answered.
LEMMA OtaWrittenFacts ==
  ASSUME NEW x \in Apps, NEW ok \in BOOLEAN, NEW y, y = OtaWritten(x, ok)
  PROVE  /\ y \in Apps
         /\ \/ x.client.chars = NoLink /\ QueueOnly(x, y) /\ Answers(x, y) /\ y.stack = x.stack
            \/ x.client.chars # NoLink /\ ~ok /\ OtaOnly(x, y) /\ GivesUp(x, y)
            \/ x.client.chars # NoLink /\ ok /\ x.client.ota # None /\ x.client.ota.endSent /\ y = x
            \/ /\ x.client.chars # NoLink /\ ok /\ (x.client.ota = None \/ ~x.client.ota.endSent)
               /\ y.client = x.client /\ y.stack = x.stack /\ y.verdict = x.verdict
               /\ y.history = x.history /\ KeepsTimers(x, y, "writeNextOtaData")
               /\ y.timers.once["writeNextOtaData"] = x.timers.once["writeNextOtaData"] + 1
<1>1. CASE x.client.chars = NoLink
  <2>1. y = HostWritten(x)
    BY <1>1 DEF OtaWritten
  <2>. QED  BY <1>1, <2>1, HostWrittenFacts
<1>2. CASE x.client.chars # NoLink /\ ~ok
  <2>1. y = FailOta(x)
    BY <1>2 DEF OtaWritten, Failed
  <2>. QED  BY <1>2, <2>1, FailOtaFacts
<1>3. CASE x.client.chars # NoLink /\ ok /\ x.client.ota # None /\ x.client.ota.endSent
  BY <1>3 DEF OtaWritten, Failed, Updating
<1>4. CASE x.client.chars # NoLink /\ ok /\ ~(x.client.ota # None /\ x.client.ota.endSent)
  <2>1. y = Post(x, "writeNextOtaData")
    BY <1>4 DEF OtaWritten, Failed, Updating
  <2>2. "writeNextOtaData" \in Runnable
    BY DEF Runnable
  <2>. QED  BY <1>4, <2>1, <2>2, PostFacts
<1>. QED  BY <1>1, <1>2, <1>3, <1>4

-----------------------------------------------------------------------------
(* What the callbacks have posted. *)

Posted(q, name) == \E k \in DOMAIN q : q[k].name = name

\* Only connecting, losing and the MTU are heard of after a scan has found the
\* pendant: the link before is over then.  n links were opened.
Ordered(q, n) ==
  /\ \A k \in DOMAIN q : q[k].link <= n /\ (q[k].link = NoLink <=> q[k].name = "found")
  /\ \A i, j \in DOMAIN q :
       i < j /\ q[i].name = "found" => q[j].name \in {"connected", "disconnected", "mtu"}

LEMMA TailFacts ==
  ASSUME NEW q \in Seq(Call), q # <<>>
  PROVE  /\ Tail(q) \in Seq(Call) /\ 1 \in DOMAIN q /\ Head(q) = q[1] /\ Head(q) \in Call
         /\ \A i \in DOMAIN Tail(q) : i \in Nat \ {0} /\ i + 1 \in DOMAIN q /\ Tail(q)[i] = q[i + 1]
         /\ \A i \in DOMAIN q : i # 1 => i - 1 \in DOMAIN Tail(q) /\ Tail(q)[i - 1] = q[i]
OBVIOUS

LEMMA AppendFacts ==
  ASSUME NEW q \in Seq(Call), NEW c \in Call
  PROVE  /\ Append(q, c) \in Seq(Call)
         /\ \A i \in DOMAIN q : i \in DOMAIN Append(q, c) /\ Append(q, c)[i] = q[i]
         /\ Len(q) + 1 \in DOMAIN Append(q, c) /\ Append(q, c)[Len(q) + 1] = c
         /\ \A i \in DOMAIN Append(q, c) : i \in DOMAIN q \/ i = Len(q) + 1
         /\ \A i \in DOMAIN q : i < Len(q) + 1 /\ i \in Nat
OBVIOUS

LEMMA OrderedTail ==
  ASSUME NEW q \in Seq(Call), q # <<>>, NEW n \in Nat, Ordered(q, n), NEW r, r = Tail(q)
  PROVE  Ordered(r, n)
<1>1. /\ r \in Seq(Call)
      /\ \A i \in DOMAIN r : i \in Nat \ {0} /\ i + 1 \in DOMAIN q /\ r[i] = q[i + 1]
  BY TailFacts
<1>2. \A i, j \in DOMAIN r : i < j => i + 1 < j + 1
  BY <1>1
<1>. QED  BY <1>1, <1>2 DEF Ordered

LEMMA OrderedAppend ==
  ASSUME NEW q \in Seq(Call), NEW c \in Call, NEW n \in Nat, Ordered(q, n), c.link <= n,
         c.link = NoLink <=> c.name = "found",
         c.name \in {"connected", "disconnected", "mtu"} \/ ~Posted(q, "found"),
         NEW r, r = Append(q, c)
  PROVE  Ordered(r, n)
<1>1. /\ r \in Seq(Call) /\ \A i \in DOMAIN q : i \in DOMAIN r /\ r[i] = q[i]
      /\ Len(q) + 1 \in DOMAIN r /\ r[Len(q) + 1] = c
      /\ \A i \in DOMAIN r : i \in DOMAIN q \/ i = Len(q) + 1
      /\ \A i \in DOMAIN q : i < Len(q) + 1 /\ i \in Nat
      /\ Len(q) \in Nat
  BY AppendFacts
<1>2. \A k \in DOMAIN r : r[k].link <= n /\ (r[k].link = NoLink <=> r[k].name = "found")
  BY <1>1 DEF Ordered
<1>3. ASSUME NEW i \in DOMAIN r, NEW j \in DOMAIN r, i < j, r[i].name = "found"
      PROVE  r[j].name \in {"connected", "disconnected", "mtu"}
  <2>1. i \in DOMAIN q
    BY <1>1, <1>3
  <2>2. CASE j \in DOMAIN q
    BY <1>1, <1>3, <2>1, <2>2 DEF Ordered
  <2>3. CASE j = Len(q) + 1
    BY <1>1, <1>3, <2>1, <2>3 DEF Posted
  <2>. QED  BY <1>1, <2>2, <2>3
<1>. QED  BY <1>2, <1>3 DEF Ordered

LEMMA OrderedLater ==
  ASSUME NEW q \in Seq(Call), NEW n \in Nat, NEW m \in Nat, n <= m, Ordered(q, n)
  PROVE  Ordered(q, m)
<1>1. \A k \in DOMAIN q : q[k].link \in Nat
  <2>1. \A k \in DOMAIN q : q[k] \in Call
    OBVIOUS
  <2>2. \A c \in Call : c.link \in Link \cup {NoLink}
    BY DEF Call
  <2>3. Link \cup {NoLink} \subseteq Nat
    BY BoundAssumption DEF Link, NoLink
  <2>. QED  BY <2>1, <2>2, <2>3
<1>. QED  BY <1>1 DEF Ordered

LEMMA PostedTail ==
  ASSUME NEW q \in Seq(Call), q # <<>>, NEW name, NEW r, r = Tail(q)
  PROVE  /\ Posted(r, name) => Posted(q, name)
         /\ Posted(q, name) /\ Head(q).name # name => Posted(r, name)
<1>1. /\ \A i \in DOMAIN r : i + 1 \in DOMAIN q /\ r[i] = q[i + 1]
      /\ \A i \in DOMAIN q : i # 1 => i - 1 \in DOMAIN r /\ r[i - 1] = q[i]
      /\ Head(q) = q[1]
  BY TailFacts
<1>2. ASSUME Posted(r, name)  PROVE Posted(q, name)
  <2>1. PICK k \in DOMAIN r : r[k].name = name
    BY <1>2 DEF Posted
  <2>. QED  BY <1>1, <2>1 DEF Posted
<1>3. ASSUME Posted(q, name), Head(q).name # name  PROVE Posted(r, name)
  <2>1. PICK k \in DOMAIN q : q[k].name = name
    BY <1>3 DEF Posted
  <2>2. k # 1
    BY <1>1, <1>3, <2>1
  <2>3. k - 1 \in DOMAIN r /\ r[k - 1].name = name
    BY <1>1, <2>1, <2>2
  <2>. QED  BY <2>3 DEF Posted
<1>. QED  BY <1>2, <1>3

LEMMA PostedAppend ==
  ASSUME NEW q \in Seq(Call), NEW c \in Call, NEW name, NEW r, r = Append(q, c)
  PROVE  Posted(r, name) <=> Posted(q, name) \/ c.name = name
<1>1. /\ \A i \in DOMAIN q : i \in DOMAIN r /\ r[i] = q[i]
      /\ Len(q) + 1 \in DOMAIN r /\ r[Len(q) + 1] = c
      /\ \A i \in DOMAIN r : i \in DOMAIN q \/ i = Len(q) + 1
  BY AppendFacts
<1>. QED  BY <1>1 DEF Posted

-----------------------------------------------------------------------------
(* The inductive invariant. *)

\* The client's link is the stack's; without a ready channel nothing waits.
LinkInv ==
  /\ client.gatt = stack.link
  /\ stack.state = "none" => stack = Closed
  /\ stack.state # "none" => stack.link # NoLink
  /\ stack.link <= history.links
  /\ stack.discovering => stack.state = "up"
  /\ client.debugReady => stack.state \in {"up", "down"}
  /\ ~client.debugReady => client.txQueue = 0 /\ client.ota = None

CallsInv == Ordered(calls, history.links)

\* While the stack connects, what is posted is about links before.
ConnectingInv ==
  stack.state = "connecting" =>
    /\ stack = [Closed EXCEPT !.link = stack.link, !.state = "connecting"]
    /\ flash = NoFlash
    /\ \A k \in DOMAIN calls :
         calls[k].link # stack.link /\ calls[k].name \in {"connected", "disconnected", "mtu", "found"}

Mine(name, ok) == [name |-> name, link |-> stack.link, ok |-> ok]
Found(ok) == [name |-> "found", link |-> NoLink, ok |-> ok]

\* The steps of a link from coming up to ready, one after the other.
Quiet  == ~client.debugReady /\ ~stack.mtuAsked /\ flash = NoFlash
Silent == Quiet /\ stack.op = Idle
Asked  == client.discoveryRequested /\ timers.discover = {} /\ ~stack.discovering

Starting ==
  /\ Silent /\ timers.discover = {} /\ ~stack.discovering /\ stack.subscribed = 0
  /\ \/ calls = <<Mine("connected", TRUE)>>
     \/ \E ok \in BOOLEAN : calls = <<Found(ok), Mine("connected", TRUE)>>
Waiting ==
  /\ Silent /\ ~client.discoveryRequested /\ client.connected
  /\ timers.discover = {stack.link} /\ ~stack.discovering /\ stack.subscribed = 0 /\ calls = <<>>
Discovering ==
  /\ Silent /\ client.discoveryRequested /\ timers.discover = {}
  /\ stack.discovering /\ stack.subscribed = 0 /\ calls = <<>>
Discovered ==
  /\ Silent /\ Asked /\ stack.subscribed = 0
  /\ \E ok \in BOOLEAN : calls = <<Mine("services", ok)>> /\ (history.faults = 0 => ok)
Undiscovered == Silent /\ Asked /\ calls = <<>> /\ history.faults > 0
Subscribing ==
  /\ Quiet /\ stack.op = HostOp("descriptor") /\ Asked
  /\ calls = <<>> /\ client.chars = stack.link
  /\ stack.subscribed + client.notifyQueue <= 2
  /\ history.faults = 0 => stack.subscribed + client.notifyQueue = 2
Subscribed ==
  /\ Silent /\ Asked /\ client.chars = stack.link
  /\ \E ok \in BOOLEAN : calls = <<Mine("descriptor", ok)>>
  /\ stack.subscribed + client.notifyQueue <= 3
  /\ history.faults = 0 => stack.subscribed + client.notifyQueue = 3
Ready ==
  /\ client.debugReady /\ Asked /\ client.chars = stack.link
  /\ stack.op.name # "descriptor"
  /\ \A k \in DOMAIN calls : calls[k].name \in {"host", "ota", "result", "mtu"}
  /\ history.faults = 0 => stack.subscribed = 3

StageInv ==
  stack.state = "up" =>
    \/ Starting \/ Waiting \/ Discovering \/ Discovered
    \/ Undiscovered \/ Subscribing \/ Subscribed \/ Ready

ChannelInv == LinkInv /\ CallsInv /\ ConnectingInv /\ StageInv

\* A host packet is under way, answered, or about to be tried.
QueueInv ==
  /\ client.txQueue > 0 => client.writeInProgress
  /\ stack.state # "down" /\ client.writeInProgress =>
       \/ stack.op.name = "host" \/ timers.once["writeNextPacket"] > 0 \/ Posted(calls, "host")

\* The pendant has received the first chunks of the session s, and only those.
\* (One that has notified its result ignores what is still on its way.)
Full == flash.chunks = Chunks(flash.pdu)
InStep(s) ==
  /\ flash.state \in {"begun", "over"} /\ flash.pdu = s.pdu /\ flash.chunks = s.nextIndex
  /\ s.nextIndex <= Chunks(s.pdu)
ResultPosted == flash.state = "over" <=> Posted(calls, "result")

\* An OTA packet that is being written is the next one for the pendant.
OpInv ==
  /\ ~flash.spoilt /\ (stack.op.name = "none" => stack.op = Idle)
  /\ stack.op.name = "data" =>
       \/ flash.state = "over"
       \/ /\ flash.state = "begun" /\ flash.pdu = stack.op.pdu
          /\ flash.chunks = stack.op.index /\ stack.op.index < Chunks(stack.op.pdu)
  /\ stack.op.name = "end" =>
       \/ flash.state = "over"
       \/ /\ flash.state = "begun" /\ flash.pdu = stack.op.pdu
          /\ flash.chunks = stack.op.index /\ Full
          /\ stack.state = "up" => client.ota # None /\ client.ota.endSent

\* What a running update waits for, one thing at a time: the MTU, the packet
\* before START, the write of an OTA packet, its answer, the next packet, or
\* nothing but the result.
OtaOps == {"start", "data", "end"}
StartDue == timers.once["writeOtaStartWhenIdle"]
DataDue  == timers.once["writeNextOtaData"]
Unsent(s) == s.nextIndex = 0 /\ ~s.endSent

AtMtu(s) ==
  /\ s.waitingForMtu /\ StartDue = 0 /\ DataDue = 0 /\ stack.op.name \notin OtaOps
  /\ ~Posted(calls, "ota") /\ Unsent(s)
AtStart(s) ==
  /\ ~s.waitingForMtu /\ StartDue = 1 /\ DataDue = 0 /\ stack.op.name \notin OtaOps
  /\ ~Posted(calls, "ota") /\ Unsent(s)
AtWrite(s) ==
  /\ ~s.waitingForMtu /\ StartDue = 0 /\ DataDue = 0 /\ ~Posted(calls, "ota")
  /\ stack.op.pdu = s.pdu
  /\ \/ stack.op.name = "start" /\ Unsent(s)
     \/ /\ stack.op.name = "data" /\ ResultPosted /\ ~s.endSent
        /\ s.nextIndex = stack.op.index + 1 /\ s.nextIndex <= Chunks(s.pdu)
     \/ stack.op.name = "end" /\ ResultPosted /\ s.endSent
Answered(s, q, k) ==
  /\ k \in DOMAIN q /\ q[k].name = "ota"
  /\ \A j \in DOMAIN q : q[j].name = "ota" => j = k
  /\ q[k].ok /\ ~s.endSent =>
       (\E j \in DOMAIN q : j < k /\ q[j].name = "result") \/ (InStep(s) /\ ResultPosted)
  /\ flash.state = "ended" => q[k].ok
AtAnswer(s) ==
  /\ ~s.waitingForMtu /\ StartDue = 0 /\ DataDue = 0 /\ stack.op.name \notin OtaOps
  /\ \E k \in DOMAIN calls : Answered(s, calls, k)
AtNext(s) ==
  /\ ~s.waitingForMtu /\ StartDue = 0 /\ DataDue = 1 /\ stack.op.name \notin OtaOps
  /\ ~Posted(calls, "ota") /\ ~s.endSent /\ InStep(s) /\ ResultPosted
AtRest(s) ==
  /\ ~s.waitingForMtu /\ StartDue = 0 /\ DataDue = 0 /\ stack.op.name \notin OtaOps
  /\ ~Posted(calls, "ota")

SessionInv ==
  client.ota # None =>
    /\ \/ AtMtu(client.ota) \/ AtStart(client.ota) \/ AtWrite(client.ota)
       \/ AtAnswer(client.ota) \/ AtNext(client.ota) \/ AtRest(client.ota)
    /\ client.ota.endSent => flash.state # "none" /\ Full

\* A good result answers an image received in full.
ResultInv ==
  /\ stack.state = "up" /\ flash.state = "ended" =>
       client.ota # None /\ client.ota.endSent /\ ~Posted(calls, "result")
  /\ \A k \in DOMAIN calls : calls[k].name = "result" /\ calls[k].ok =>
       /\ flash.state = "over" /\ Full /\ stack.op.name # "start"
       /\ client.ota # None => client.ota.endSent

UpdateInv == OpInv /\ SessionInv /\ ResultInv

IInv == TypeOK /\ ChannelInv /\ QueueInv /\ UpdateInv

-----------------------------------------------------------------------------
(* What the actions do. *)

\* The app becomes y, or y with one more fault.
Does(y) ==
  /\ client' = y.client /\ timers' = y.timers /\ stack' = y.stack /\ verdict' = y.verdict
  /\ history' \in History /\ history'.links = y.history.links
  /\ history'.faults = 0 => y.history.faults = 0

LEMMA BecomeFacts ==
  ASSUME NEW y \in Apps, Become(y)
  PROVE  Does(y)
BY DEF Become, Does, Apps

LEMMA HappensFacts ==
  ASSUME NEW x \in Apps, NEW y \in Apps, NEW fault, Happens(x, fault, y), y.history = x.history
  PROVE  Does(y) /\ history'.faults > 0
<1>1. y.history \in History /\ y.history.faults < MaxFaults
  BY DEF Happens, Apps
<1>2. y.history.faults \in 0..MaxFaults /\ MaxFaults \in Nat
  BY <1>1, Numbers DEF History
<1>3. PICK h : h = [y.history EXCEPT !.faults = @ + 1]
  OBVIOUS
<1>4. /\ h \in History /\ h.links = y.history.links /\ h.faults = y.history.faults + 1
      /\ h.faults > 0
  BY <1>1, <1>2, <1>3 DEF History
<1>5. Become([y EXCEPT !.history = h])
  BY <1>3 DEF Happens, Apps
<1>6. /\ client' = y.client /\ timers' = y.timers /\ stack' = y.stack /\ verdict' = y.verdict
      /\ history' = h
  BY <1>5 DEF Become, Apps
<1>. QED  BY <1>4, <1>6 DEF Does

LEMMA DoesTypes ==
  ASSUME NEW y \in Apps, Does(y), calls' \in Seq(Call), flash' \in Flash
  PROVE  TypeOK'
BY DEF Does, Apps, TypeOK

LEMMA HandlesFacts ==
  ASSUME TypeOK, NEW name, Handles(name)
  PROVE  /\ calls # <<>> /\ calls \in Seq(Call) /\ calls' = Tail(calls) /\ calls' \in Seq(Call)
         /\ Head(calls).name = name /\ Head(calls) = calls[1] /\ 1 \in DOMAIN calls
         /\ Head(calls) \in Call /\ Head(calls).ok \in BOOLEAN
         /\ Head(calls).link \in Link \cup {NoLink}
<1>1. /\ calls # <<>> /\ calls \in Seq(Call) /\ calls' = Tail(calls)
      /\ Head(calls).name = name
  BY DEF Handles, TypeOK
<1>2. /\ Tail(calls) \in Seq(Call) /\ 1 \in DOMAIN calls /\ Head(calls) = calls[1]
      /\ Head(calls) \in Call
  BY <1>1, TailFacts
<1>. QED  BY <1>1, <1>2 DEF Call

\* What the channel is made of.
Frame ==
  /\ client'.gatt = client.gatt /\ client'.connected = client.connected
  /\ client'.discoveryRequested = client.discoveryRequested /\ client'.chars = client.chars
  /\ client'.debugReady = client.debugReady /\ client'.notifyQueue = client.notifyQueue
  /\ timers'.discover = timers.discover
  /\ stack'.link = stack.link /\ stack'.state = stack.state
  /\ stack'.subscribed = stack.subscribed /\ stack'.discovering = stack.discovering
  /\ history'.links = history.links /\ (history'.faults = 0 => history.faults = 0)
MtuKept     == stack'.mtuAsked = stack.mtuAsked
SessionKept == client'.ota = client.ota /\ verdict' = verdict
QueueKept ==
  /\ client'.writeInProgress = client.writeInProgress /\ client'.txQueue = client.txQueue
  /\ timers'.once["writeNextPacket"] = timers.once["writeNextPacket"]
StartKept == timers'.once["writeOtaStartWhenIdle"] = timers.once["writeOtaStartWhenIdle"]
DataKept  == timers'.once["writeNextOtaData"] = timers.once["writeNextOtaData"]

\* Where a method starts: nothing but the MTU, the Runnable that is running and
\* the number of commands has changed.
Near(x) ==
  /\ x.client.gatt = client.gatt /\ x.client.connected = client.connected
  /\ x.client.discoveryRequested = client.discoveryRequested /\ x.client.chars = client.chars
  /\ x.client.debugReady = client.debugReady /\ x.client.notifyQueue = client.notifyQueue
  /\ x.client.writeInProgress = client.writeInProgress /\ x.client.txQueue = client.txQueue
  /\ x.client.ota = client.ota
  /\ x.timers.discover = timers.discover /\ x.stack = stack /\ x.verdict = verdict
  /\ x.history.links = history.links /\ x.history.faults = history.faults

LEMMA AppIsNear == Near(App)
BY AppFacts DEF Near

LEMMA QueueFrame ==
  ASSUME NEW x \in Apps, NEW y \in Apps, Near(x), Does(y), QueueOnly(x, y)
  PROVE  Frame /\ MtuKept /\ SessionKept
BY DEF Near, Does, QueueOnly, KeepsClient, KeepsLink, KeepsSession, KeepsTimers, Frame, MtuKept,
  SessionKept

LEMMA OtaFrame ==
  ASSUME NEW x \in Apps, NEW y \in Apps, Near(x), Does(y), OtaOnly(x, y)
  PROVE  /\ Frame /\ MtuKept
         /\ client'.writeInProgress = client.writeInProgress /\ client'.txQueue = client.txQueue
         /\ timers'.once["writeNextPacket"] = x.timers.once["writeNextPacket"]
BY DEF Near, Does, OtaOnly, KeepsClient, KeepsLink, Frame, MtuKept

LEMMA FiredFacts ==
  ASSUME TypeOK, NEW r \in Runnable, timers.once[r] > 0, NEW x, x = Fired(r)
  PROVE  /\ x \in Apps /\ Near(x) /\ x.timers.once[r] = timers.once[r] - 1
         /\ \A q \in Runnable \ {r} : x.timers.once[q] = timers.once[q]
<1>1. App \in Apps /\ App.timers = timers
  BY AppFacts
<1>2. timers.once \in [Runnable -> Nat] /\ timers \in Timers
  BY DEF TypeOK, Timers
<1>3. PICK f : f = [timers.once EXCEPT ![r] = @ - 1]
  OBVIOUS
<1>4. /\ f \in [Runnable -> Nat] /\ f[r] = timers.once[r] - 1
      /\ \A q \in Runnable \ {r} : f[q] = timers.once[q]
  BY <1>2, <1>3
<1>5. PICK t : t = [timers EXCEPT !.once = f]
  OBVIOUS
<1>6. t \in Timers /\ t.once = f /\ t.discover = timers.discover
  BY <1>2, <1>4, <1>5 DEF Timers
<1>7. x = [App EXCEPT !.timers = t]
  BY <1>1, <1>2, <1>3, <1>5 DEF Fired, Apps, Timers
<1>8. /\ x \in Apps /\ x.client = client /\ x.timers = t /\ x.stack = stack
      /\ x.verdict = verdict /\ x.history = history
  BY <1>1, <1>6, <1>7, AppFacts DEF Apps
<1>. QED  BY <1>4, <1>6, <1>8 DEF Near

\* How the queue moves on.
QueueMoved ==
  \/ ~client'.writeInProgress /\ client'.txQueue = 0 /\ stack' = stack
  \/ client'.writeInProgress /\ timers'.once["writeNextPacket"] > 0 /\ stack' = stack
  \/ client'.writeInProgress /\ stack.op = Idle /\ stack'.op = HostOp("host")

LEMMA RunWriteNextPacketFacts ==
  ASSUME TypeOK, RunWriteNextPacket
  PROVE  /\ TypeOK' /\ Frame /\ MtuKept /\ SessionKept /\ StartKept /\ DataKept
         /\ calls' = calls /\ flash' = flash /\ QueueMoved
         /\ client.txQueue = 0 => stack' = stack /\ client'.txQueue = 0
<1>. DEFINE r == "writeNextPacket"
<1>1. /\ timers.once[r] > 0 /\ calls' = calls /\ flash' = flash
      /\ r \in Runnable /\ "writeOtaStartWhenIdle" \in Runnable \ {r}
      /\ "writeNextOtaData" \in Runnable \ {r}
  BY DEF RunWriteNextPacket, Due, Runnable
<1>2. PICK x : x = Fired(r)
  OBVIOUS
<1>3. /\ x \in Apps /\ Near(x) /\ x.timers.once[r] = timers.once[r] - 1
      /\ \A q \in Runnable \ {r} : x.timers.once[q] = timers.once[q]
  BY <1>1, <1>2, FiredFacts
<1>4. \E refuse \in BOOLEAN : \E y : y = WriteNextPacket(x, refuse) /\ Does(y)
  <2>1. PICK y0, y1 : y0 = WriteNextPacket(x, FALSE) /\ y1 = WriteNextPacket(x, TRUE)
    OBVIOUS
  <2>2. y0 \in Apps /\ y1 \in Apps /\ QueueOnly(x, y1)
    BY <1>3, <2>1, WriteNextPacketFacts
  <2>3. Become(y0) \/ Happens(x, "refusal", y1)
    BY <1>2, <2>1 DEF RunWriteNextPacket, Runs
  <2>4. Does(y0) \/ Does(y1)
    BY <1>3, <2>2, <2>3, BecomeFacts, HappensFacts DEF QueueOnly
  <2>. QED  BY <2>1, <2>4
<1>5. PICK refuse \in BOOLEAN : \E y : y = WriteNextPacket(x, refuse) /\ Does(y)
  BY <1>4
<1>6. PICK y : y = WriteNextPacket(x, refuse) /\ Does(y)
  BY <1>5
<1>7. /\ y \in Apps /\ QueueOnly(x, y) /\ Queues(x, y)
      /\ x.client.txQueue = 0 => Stops(x, y)
  BY <1>3, <1>6, WriteNextPacketFacts
<1>8. TypeOK'
  BY <1>1, <1>6, <1>7, DoesTypes DEF TypeOK
<1>9. Frame /\ MtuKept /\ SessionKept
  BY <1>3, <1>6, <1>7, QueueFrame
<1>10. StartKept /\ DataKept
  BY <1>1, <1>3, <1>6, <1>7 DEF QueueOnly, KeepsTimers, Does, StartKept, DataKept
<1>11. timers.once[r] \in Nat
  BY <1>1 DEF TypeOK, Timers
<1>12. QueueMoved
  BY <1>1, <1>3, <1>6, <1>7, <1>11 DEF Queues, Stops, Retries, Writes, QueueMoved, Near, Does
<1>13. client.txQueue = 0 => stack' = stack /\ client'.txQueue = 0
  BY <1>3, <1>6, <1>7 DEF Stops, Near, Does
<1>. QED  BY <1>1, <1>8, <1>9, <1>10, <1>12, <1>13

\* The ends of a method of the update, s being the session it goes on with.
GaveUp == client'.ota = None /\ stack' = stack /\ (verdict' = "completed" => verdict = "completed")
Streamed(op, s) ==
  /\ client.ota # None /\ client'.ota = s /\ verdict' = verdict
  /\ stack.op = Idle /\ stack'.op = op
Delayed(s) == client.ota # None /\ client'.ota = s /\ verdict' = verdict /\ stack' = stack

\* The wait for the MTU is over.
MtuAwaited ==
  LET s == [client.ota EXCEPT !.waitingForMtu = FALSE] IN
  /\ client.ota # None /\ client.ota.waitingForMtu
  /\ \/ GaveUp
     \/ StartKept /\ \E p \in Pdu : Streamed(StartOp(p), [s EXCEPT !.pdu = p])
     \/ /\ Delayed(s)
        /\ timers'.once["writeOtaStartWhenIdle"] = timers.once["writeOtaStartWhenIdle"] + 1

LEMMA AwaitFacts ==
  ASSUME TypeOK, NEW x \in Apps, Near(x), Runs(x, StartOtaAfterMtu),
         \A q \in Runnable \ {"startOtaAfterMtu"} : x.timers.once[q] = timers.once[q],
         calls' \in Seq(Call), flash' = flash
  PROVE  /\ TypeOK' /\ Frame /\ MtuKept /\ QueueKept /\ DataKept
         /\ \/ /\ SessionKept /\ StartKept /\ stack' = stack
               /\ client.ota = None \/ ~client.ota.waitingForMtu
            \/ MtuAwaited
<1>1. /\ "writeOtaStartWhenIdle" \in Runnable \ {"startOtaAfterMtu"}
      /\ "writeNextOtaData" \in Runnable \ {"startOtaAfterMtu"}
      /\ "writeNextPacket" \in Runnable \ {"startOtaAfterMtu"}
      /\ "writeOtaStartWhenIdle" # "writeNextOtaData"
  BY DEF Runnable
<1>2. \E refuse \in BOOLEAN : \E y : y = StartOtaAfterMtu(x, refuse) /\ Does(y)
  <2>1. PICK y0, y1 : y0 = StartOtaAfterMtu(x, FALSE) /\ y1 = StartOtaAfterMtu(x, TRUE)
    OBVIOUS
  <2>2. y0 \in Apps /\ y1 \in Apps /\ OtaOnly(x, y1)
    BY <2>1, StartOtaAfterMtuFacts
  <2>3. Become(y0) \/ Happens(x, "refusal", y1)
    BY <2>1 DEF Runs
  <2>4. Does(y0) \/ Does(y1)
    BY <2>2, <2>3, BecomeFacts, HappensFacts DEF OtaOnly
  <2>. QED  BY <2>1, <2>4
<1>3. PICK refuse \in BOOLEAN : \E y : y = StartOtaAfterMtu(x, refuse) /\ Does(y)
  BY <1>2
<1>4. PICK y : y = StartOtaAfterMtu(x, refuse) /\ Does(y)
  BY <1>3
<1>5. /\ y \in Apps /\ OtaOnly(x, y)
      /\ \/ (x.client.ota = None \/ ~x.client.ota.waitingForMtu) /\ y = x
         \/ x.client.ota # None /\ x.client.ota.waitingForMtu /\ AfterMtu(x, y)
  BY <1>4, StartOtaAfterMtuFacts
<1>6. TypeOK'
  BY <1>4, <1>5, DoesTypes DEF TypeOK
<1>7. Frame /\ MtuKept /\ QueueKept
  BY <1>1, <1>4, <1>5, OtaFrame DEF QueueKept
<1>8. CASE (x.client.ota = None \/ ~x.client.ota.waitingForMtu) /\ y = x
  BY <1>1, <1>4, <1>6, <1>7, <1>8 DEF Near, Does, SessionKept, StartKept, DataKept
<1>9. CASE x.client.ota # None /\ x.client.ota.waitingForMtu /\ AfterMtu(x, y)
  <2>0. PICK s : s = [x.client.ota EXCEPT !.waitingForMtu = FALSE]
    OBVIOUS
  <2>1. CASE GivesUp(x, y)
    <3>1. GaveUp /\ DataKept
      BY <1>1, <1>4, <2>1 DEF GivesUp, Near, Does, GaveUp, DataKept
    <3>. QED  BY <1>6, <1>7, <1>9, <3>1 DEF MtuAwaited, Near
  <2>2. CASE \E p \in Pdu : Streams(x, y, StartOp(p), [s EXCEPT !.pdu = p])
    <3>1. PICK p \in Pdu : Streams(x, y, StartOp(p), [s EXCEPT !.pdu = p])
      BY <2>2
    <3>2. Streamed(StartOp(p), [s EXCEPT !.pdu = p]) /\ DataKept /\ StartKept
      BY <1>1, <1>4, <3>1 DEF Streams, Near, Does, Streamed, DataKept, StartKept
    <3>. QED  BY <1>6, <1>7, <1>9, <2>0, <3>2 DEF MtuAwaited, Near
  <2>3. CASE Delays(x, y, s)
    <3>1. /\ Delayed(s) /\ DataKept
          /\ timers'.once["writeOtaStartWhenIdle"] = timers.once["writeOtaStartWhenIdle"] + 1
      BY <1>1, <1>4, <2>3 DEF Delays, Near, Does, Delayed, DataKept, KeepsTimers
    <3>. QED  BY <1>6, <1>7, <1>9, <2>0, <3>1 DEF MtuAwaited, Near
  <2>. QED  BY <1>9, <2>0, <2>1, <2>2, <2>3 DEF AfterMtu
<1>. QED  BY <1>5, <1>8, <1>9

LEMMA RunStartOtaAfterMtuFacts ==
  ASSUME TypeOK, RunStartOtaAfterMtu
  PROVE  /\ TypeOK' /\ Frame /\ MtuKept /\ QueueKept /\ DataKept
         /\ calls' = calls /\ flash' = flash
         /\ \/ /\ SessionKept /\ StartKept /\ stack' = stack
               /\ client.ota = None \/ ~client.ota.waitingForMtu
            \/ MtuAwaited
<1>1. PICK x : x = Fired("startOtaAfterMtu")
  OBVIOUS
<1>2. /\ timers.once["startOtaAfterMtu"] > 0 /\ "startOtaAfterMtu" \in Runnable
      /\ Runs(x, StartOtaAfterMtu) /\ calls' = calls /\ flash' = flash
  BY <1>1 DEF RunStartOtaAfterMtu, Due, Runnable
<1>3. /\ x \in Apps /\ Near(x)
      /\ \A q \in Runnable \ {"startOtaAfterMtu"} : x.timers.once[q] = timers.once[q]
  BY <1>1, <1>2, FiredFacts
<1>4. calls' \in Seq(Call)
  BY <1>2 DEF TypeOK
<1>. QED  BY <1>2, <1>3, <1>4, AwaitFacts

LEMMA RunWriteOtaStartFacts ==
  ASSUME TypeOK, RunWriteOtaStart
  PROVE  /\ TypeOK' /\ Frame /\ MtuKept /\ QueueKept /\ DataKept
         /\ calls' = calls /\ flash' = flash /\ StartDue > 0
         /\ \/ GaveUp
            \/ /\ StartDue' = StartDue - 1
               /\ \E p \in Pdu : Streamed(StartOp(p), [client.ota EXCEPT !.pdu = p])
            \/ StartKept /\ Delayed(client.ota)
<1>. DEFINE r == "writeOtaStartWhenIdle"
<1>1. /\ timers.once[r] > 0 /\ calls' = calls /\ flash' = flash
      /\ r \in Runnable /\ "writeNextPacket" \in Runnable \ {r}
      /\ "writeNextOtaData" \in Runnable \ {r}
  BY DEF RunWriteOtaStart, Due, Runnable
<1>2. PICK x : x = Fired(r)
  OBVIOUS
<1>3. /\ x \in Apps /\ Near(x) /\ x.timers.once[r] = timers.once[r] - 1
      /\ \A q \in Runnable \ {r} : x.timers.once[q] = timers.once[q]
  BY <1>1, <1>2, FiredFacts
<1>4. \E refuse \in BOOLEAN : \E y : y = WriteOtaStartWhenIdle(x, refuse) /\ Does(y)
  <2>1. PICK y0, y1 : y0 = WriteOtaStartWhenIdle(x, FALSE) /\ y1 = WriteOtaStartWhenIdle(x, TRUE)
    OBVIOUS
  <2>2. y0 \in Apps /\ y1 \in Apps /\ OtaOnly(x, y1)
    BY <1>3, <2>1, WriteOtaStartWhenIdleFacts
  <2>3. Become(y0) \/ Happens(x, "refusal", y1)
    BY <1>2, <2>1 DEF RunWriteOtaStart, Runs
  <2>4. Does(y0) \/ Does(y1)
    BY <1>3, <2>2, <2>3, BecomeFacts, HappensFacts DEF OtaOnly
  <2>. QED  BY <2>1, <2>4
<1>5. PICK refuse \in BOOLEAN : \E y : y = WriteOtaStartWhenIdle(x, refuse) /\ Does(y)
  BY <1>4
<1>6. PICK y : y = WriteOtaStartWhenIdle(x, refuse) /\ Does(y)
  BY <1>5
<1>7. /\ y \in Apps /\ OtaOnly(x, y)
      /\ GivesUp(x, y) \/ Starts(x, y) \/ Delays(x, y, x.client.ota)
  BY <1>3, <1>6, WriteOtaStartWhenIdleFacts
<1>8. TypeOK'
  BY <1>1, <1>6, <1>7, DoesTypes DEF TypeOK
<1>9. Frame /\ MtuKept /\ QueueKept
  BY <1>1, <1>3, <1>6, <1>7, OtaFrame DEF QueueKept
<1>10. timers.once[r] \in Nat
  BY <1>1 DEF TypeOK, Timers
<1>11. CASE GivesUp(x, y)
  <2>1. GaveUp /\ DataKept
    BY <1>1, <1>3, <1>6, <1>11 DEF GivesUp, Near, Does, GaveUp, DataKept
  <2>. QED  BY <1>1, <1>8, <1>9, <2>1 DEF StartDue
<1>12. CASE Starts(x, y)
  <2>1. PICK p \in Pdu : Streams(x, y, StartOp(p), [x.client.ota EXCEPT !.pdu = p])
    BY <1>12 DEF Starts
  <2>2. /\ Streamed(StartOp(p), [client.ota EXCEPT !.pdu = p]) /\ DataKept
        /\ StartDue' = StartDue - 1
    BY <1>1, <1>3, <1>6, <2>1 DEF Streams, Near, Does, Streamed, DataKept, StartDue
  <2>. QED  BY <1>1, <1>8, <1>9, <2>2 DEF StartDue
<1>13. CASE Delays(x, y, x.client.ota)
  <2>1. Delayed(client.ota) /\ DataKept /\ StartKept
    BY <1>1, <1>3, <1>6, <1>10, <1>13
    DEF Delays, KeepsTimers, Near, Does, Delayed, DataKept, StartKept
  <2>. QED  BY <1>1, <1>8, <1>9, <2>1 DEF StartDue
<1>. QED  BY <1>7, <1>11, <1>12, <1>13

LEMMA RunWriteNextOtaDataFacts ==
  ASSUME TypeOK, RunWriteNextOtaData, NEW s, s = client.ota
  PROVE  /\ TypeOK' /\ Frame /\ MtuKept /\ QueueKept
         /\ calls' = calls /\ flash' = flash /\ DataDue > 0
         /\ \/ GaveUp
            \/ /\ StartKept /\ DataDue' = DataDue - 1
               /\ \/ s.nextIndex >= Chunks(s.pdu) /\ Streamed(EndOp(s), [s EXCEPT !.endSent = TRUE])
                  \/ s.nextIndex < Chunks(s.pdu) /\ Streamed(DataOp(s), [s EXCEPT !.nextIndex = @ + 1])
<1>. DEFINE r == "writeNextOtaData"
<1>1. /\ timers.once[r] > 0 /\ calls' = calls /\ flash' = flash
      /\ r \in Runnable /\ "writeNextPacket" \in Runnable \ {r}
      /\ "writeOtaStartWhenIdle" \in Runnable \ {r}
  BY DEF RunWriteNextOtaData, Due, Runnable
<1>2. PICK x : x = Fired(r)
  OBVIOUS
<1>3. /\ x \in Apps /\ Near(x) /\ x.timers.once[r] = timers.once[r] - 1
      /\ \A q \in Runnable \ {r} : x.timers.once[q] = timers.once[q]
  BY <1>1, <1>2, FiredFacts
<1>4. \E refuse \in BOOLEAN : \E y : y = WriteNextOtaData(x, refuse) /\ Does(y)
  <2>1. PICK y0, y1 : y0 = WriteNextOtaData(x, FALSE) /\ y1 = WriteNextOtaData(x, TRUE)
    OBVIOUS
  <2>2. y0 \in Apps /\ y1 \in Apps /\ OtaOnly(x, y1)
    BY <1>3, <2>1, WriteNextOtaDataFacts
  <2>3. Become(y0) \/ Happens(x, "refusal", y1)
    BY <1>2, <2>1 DEF RunWriteNextOtaData, Runs
  <2>4. Does(y0) \/ Does(y1)
    BY <1>3, <2>2, <2>3, BecomeFacts, HappensFacts DEF OtaOnly
  <2>. QED  BY <2>1, <2>4
<1>5. PICK refuse \in BOOLEAN : \E y : y = WriteNextOtaData(x, refuse) /\ Does(y)
  BY <1>4
<1>6. PICK y : y = WriteNextOtaData(x, refuse) /\ Does(y)
  BY <1>5
<1>7. y \in Apps /\ OtaOnly(x, y) /\ (GivesUp(x, y) \/ Continues(x, y))
  BY <1>3, <1>6, WriteNextOtaDataFacts
<1>8. TypeOK'
  BY <1>1, <1>6, <1>7, DoesTypes DEF TypeOK
<1>9. Frame /\ MtuKept /\ QueueKept
  BY <1>1, <1>3, <1>6, <1>7, OtaFrame DEF QueueKept
<1>10. CASE GivesUp(x, y)
  <2>1. GaveUp
    BY <1>3, <1>6, <1>10 DEF GivesUp, Near, Does, GaveUp
  <2>. QED  BY <1>1, <1>8, <1>9, <2>1 DEF DataDue
<1>11. CASE Continues(x, y)
  <2>1. x.client.ota = s
    BY <1>3 DEF Near
  <2>2. \/ s.nextIndex >= Chunks(s.pdu) /\ Streams(x, y, EndOp(s), [s EXCEPT !.endSent = TRUE])
        \/ s.nextIndex < Chunks(s.pdu) /\ Streams(x, y, DataOp(s), [s EXCEPT !.nextIndex = @ + 1])
    BY <1>11, <2>1 DEF Continues
  <2>3. ASSUME NEW op, NEW t, Streams(x, y, op, t)
        PROVE  Streamed(op, t) /\ StartKept /\ DataDue' = DataDue - 1
    BY <1>1, <1>3, <1>6, <2>3 DEF Streams, Near, Does, Streamed, StartKept, DataDue
  <2>. QED  BY <1>1, <1>8, <1>9, <2>2, <2>3 DEF DataDue
<1>. QED  BY <1>7, <1>10, <1>11

LEMMA OnHostWriteFacts ==
  ASSUME TypeOK, OnHostWrite
  PROVE  /\ TypeOK' /\ Frame /\ MtuKept /\ SessionKept /\ StartKept /\ DataKept
         /\ Handles("host") /\ flash' = flash /\ stack' = stack
         /\ \/ ~client'.writeInProgress /\ client'.txQueue = 0
            \/ /\ client'.writeInProgress = client.writeInProgress
               /\ client'.txQueue = client.txQueue /\ timers'.once["writeNextPacket"] > 0
<1>1. PICK x, y : x = App /\ y = HostWritten(x)
  OBVIOUS
<1>2. x \in Apps /\ Near(x) /\ x.timers = timers
  BY <1>1, AppFacts, AppIsNear
<1>3. y \in Apps /\ QueueOnly(x, y) /\ Answers(x, y) /\ y.stack = x.stack
  BY <1>1, <1>2, HostWrittenFacts
<1>4. Handles("host") /\ Does(y) /\ flash' = flash
  BY <1>1, <1>3, BecomeFacts DEF OnHostWrite
<1>5. calls' \in Seq(Call)
  BY <1>4, HandlesFacts
<1>6. TypeOK'
  BY <1>3, <1>4, <1>5, DoesTypes DEF TypeOK
<1>7. Frame /\ MtuKept /\ SessionKept
  BY <1>2, <1>3, <1>4, QueueFrame
<1>8. /\ "writeOtaStartWhenIdle" \in Runnable \ {"writeNextPacket"}
      /\ "writeNextOtaData" \in Runnable \ {"writeNextPacket"}
      /\ timers.once["writeNextPacket"] \in Nat
  BY DEF Runnable, TypeOK, Timers
<1>9. StartKept /\ DataKept /\ stack' = stack
  BY <1>2, <1>3, <1>4, <1>8 DEF QueueOnly, KeepsTimers, Does, Near, StartKept, DataKept
<1>10. \/ ~client'.writeInProgress /\ client'.txQueue = 0
       \/ /\ client'.writeInProgress = client.writeInProgress
          /\ client'.txQueue = client.txQueue /\ timers'.once["writeNextPacket"] > 0
  BY <1>2, <1>3, <1>4, <1>8 DEF Answers, Does, Near
<1>. QED  BY <1>4, <1>6, <1>7, <1>9, <1>10

LEMMA OnOtaWriteFacts ==
  ASSUME TypeOK, OnOtaWrite
  PROVE  /\ TypeOK' /\ Frame /\ MtuKept /\ StartKept
         /\ Handles("ota") /\ flash' = flash /\ stack' = stack
         /\ \/ QueueKept
            \/ ~client'.writeInProgress /\ client'.txQueue = 0
            \/ /\ client'.writeInProgress = client.writeInProgress
               /\ client'.txQueue = client.txQueue /\ timers'.once["writeNextPacket"] > 0
         /\ \/ GaveUp /\ ~Head(calls).ok
            \/ SessionKept /\ DataKept /\ client.chars = NoLink
            \/ SessionKept /\ DataKept /\ client.ota # None /\ client.ota.endSent
            \/ /\ SessionKept /\ DataDue' = DataDue + 1 /\ Head(calls).ok
               /\ client.ota = None \/ ~client.ota.endSent
<1>1. PICK x, ok, y : x = App /\ ok = Head(calls).ok /\ y = OtaWritten(x, ok)
  OBVIOUS
<1>2. x \in Apps /\ Near(x) /\ x.timers = timers /\ x.client = client /\ x.history = history
  BY <1>1, AppFacts, AppIsNear
<1>3. Handles("ota") /\ Become(y) /\ flash' = flash
  BY <1>1 DEF OnOtaWrite
<1>4. calls' \in Seq(Call) /\ ok \in BOOLEAN
  BY <1>1, <1>3, HandlesFacts
<1>5. /\ y \in Apps
      /\ \/ x.client.chars = NoLink /\ QueueOnly(x, y) /\ Answers(x, y) /\ y.stack = x.stack
         \/ x.client.chars # NoLink /\ ~ok /\ OtaOnly(x, y) /\ GivesUp(x, y)
         \/ x.client.chars # NoLink /\ ok /\ x.client.ota # None /\ x.client.ota.endSent /\ y = x
         \/ /\ x.client.chars # NoLink /\ ok /\ (x.client.ota = None \/ ~x.client.ota.endSent)
            /\ y.client = x.client /\ y.stack = x.stack /\ y.verdict = x.verdict
            /\ y.history = x.history /\ KeepsTimers(x, y, "writeNextOtaData")
            /\ y.timers.once["writeNextOtaData"] = x.timers.once["writeNextOtaData"] + 1
  BY <1>1, <1>2, <1>4, OtaWrittenFacts
<1>6. Does(y)
  BY <1>3, <1>5, BecomeFacts
<1>7. TypeOK'
  BY <1>3, <1>4, <1>5, <1>6, DoesTypes DEF TypeOK
<1>8. /\ "writeOtaStartWhenIdle" \in Runnable \ {"writeNextPacket", "writeNextOtaData"}
      /\ "writeNextOtaData" \in Runnable \ {"writeNextPacket"}
      /\ "writeNextPacket" \in Runnable \ {"writeNextOtaData"}
      /\ timers.once["writeNextPacket"] \in Nat
  BY DEF Runnable, TypeOK, Timers
<1>9. CASE x.client.chars = NoLink /\ QueueOnly(x, y) /\ Answers(x, y) /\ y.stack = x.stack
  <2>1. Frame /\ MtuKept /\ SessionKept
    BY <1>2, <1>5, <1>6, <1>9, QueueFrame
  <2>2. StartKept /\ DataKept /\ stack' = stack
    BY <1>2, <1>6, <1>8, <1>9 DEF QueueOnly, KeepsTimers, Does, Near, StartKept, DataKept
  <2>3. \/ ~client'.writeInProgress /\ client'.txQueue = 0
        \/ /\ client'.writeInProgress = client.writeInProgress
           /\ client'.txQueue = client.txQueue /\ timers'.once["writeNextPacket"] > 0
    BY <1>2, <1>6, <1>8, <1>9 DEF Answers, Does, Near
  <2>. QED  BY <1>2, <1>3, <1>7, <1>9, <2>1, <2>2, <2>3
<1>10. CASE x.client.chars # NoLink /\ ~ok /\ OtaOnly(x, y) /\ GivesUp(x, y)
  <2>1. Frame /\ MtuKept /\ QueueKept
    BY <1>2, <1>5, <1>6, <1>10, OtaFrame DEF QueueKept
  <2>2. GaveUp /\ StartKept /\ stack' = stack
    BY <1>2, <1>6, <1>10 DEF GivesUp, Does, Near, GaveUp, StartKept
  <2>. QED  BY <1>1, <1>3, <1>7, <1>10, <2>1, <2>2
<1>11. CASE ok /\ x.client.ota # None /\ x.client.ota.endSent /\ y = x
  <2>1. Frame /\ MtuKept /\ QueueKept /\ SessionKept /\ StartKept /\ DataKept /\ stack' = stack
    BY <1>2, <1>6, <1>11 DEF Does, Near, Frame, MtuKept, QueueKept, SessionKept, StartKept, DataKept
  <2>. QED  BY <1>2, <1>3, <1>7, <1>11, <2>1
<1>12. CASE /\ ok /\ (x.client.ota = None \/ ~x.client.ota.endSent)
            /\ y.client = x.client /\ y.stack = x.stack /\ y.verdict = x.verdict
            /\ y.history = x.history /\ KeepsTimers(x, y, "writeNextOtaData")
            /\ y.timers.once["writeNextOtaData"] = x.timers.once["writeNextOtaData"] + 1
  <2>1. /\ Frame /\ MtuKept /\ QueueKept /\ SessionKept /\ StartKept /\ stack' = stack
        /\ DataDue' = DataDue + 1
    BY <1>2, <1>6, <1>8, <1>12
    DEF Does, Near, KeepsTimers, Frame, MtuKept, QueueKept, SessionKept, StartKept, DataDue
  <2>. QED  BY <1>1, <1>2, <1>3, <1>7, <1>12, <2>1
<1>. QED  BY <1>5, <1>9, <1>10, <1>11, <1>12

LEMMA OnOtaNotifyFacts ==
  ASSUME TypeOK, OnOtaNotify
  PROVE  /\ TypeOK' /\ Frame /\ MtuKept /\ QueueKept /\ StartKept /\ DataKept
         /\ Handles("result") /\ flash' = flash /\ stack' = stack /\ client'.ota = None
         /\ verdict' = "completed" /\ verdict # "completed" => Head(calls).ok
<1>1. PICK x : x = App
  OBVIOUS
<1>2. x \in Apps /\ Near(x) /\ x.timers = timers
  BY <1>1, AppFacts, AppIsNear
<1>3. Handles("result") /\ flash' = flash
  BY DEF OnOtaNotify
<1>4. calls' \in Seq(Call) /\ Head(calls).ok \in BOOLEAN
  BY <1>3, HandlesFacts
<1>5. CASE client.ota # None
  <2>1. PICK v : v = IF Head(calls).ok THEN "completed" ELSE "failed"
    OBVIOUS
  <2>2. v \in Verdict /\ None \in OtaSession \cup {None} /\ (v = "completed" => Head(calls).ok)
    BY <2>1 DEF Verdict
  <2>3. PICK y : Sets(x, None, v, y) /\ Become(y)
    <3>1. PICK y : y = [x EXCEPT !.client.ota = None, !.verdict = v]
      OBVIOUS
    <3>2. Become(y)
      BY <1>1, <1>5, <2>1, <3>1, AppFacts DEF OnOtaNotify, Updating
    <3>3. Sets(x, None, v, y)
      BY <1>2, <3>1 DEF Sets, Apps
    <3>. QED  BY <3>2, <3>3
  <2>4. /\ y \in Apps /\ OtaOnly(x, y) /\ y.client.ota = None /\ y.timers = x.timers
        /\ y.stack = x.stack /\ y.verdict = v
    BY <1>2, <2>2, <2>3, OtaFieldFacts
  <2>5. Does(y)
    BY <2>3, <2>4, BecomeFacts
  <2>6. TypeOK'
    BY <1>3, <1>4, <2>4, <2>5, DoesTypes DEF TypeOK
  <2>7. Frame /\ MtuKept /\ QueueKept
    BY <1>2, <2>4, <2>5, OtaFrame DEF QueueKept
  <2>8. StartKept /\ DataKept /\ stack' = stack /\ client'.ota = None /\ verdict' = v
    BY <1>2, <2>4, <2>5 DEF Does, Near, StartKept, DataKept
  <2>. QED  BY <1>3, <2>2, <2>6, <2>7, <2>8
<1>6. CASE client.ota = None
  <2>1. Become(x)
    BY <1>1, <1>6, AppFacts DEF OnOtaNotify, Updating
  <2>2. Does(x)
    BY <1>2, <2>1, BecomeFacts
  <2>3. TypeOK'
    BY <1>2, <1>3, <1>4, <2>2, DoesTypes DEF TypeOK
  <2>. QED
    BY <1>2, <1>3, <1>6, <2>2, <2>3
    DEF Does, Near, Frame, MtuKept, QueueKept, StartKept, DataKept
<1>. QED  BY <1>5, <1>6

\* The part of the channel that asking for the services leaves alone.
Base ==
  /\ client'.gatt = client.gatt /\ client'.connected = client.connected
  /\ client'.chars = client.chars /\ client'.debugReady = client.debugReady
  /\ client'.notifyQueue = client.notifyQueue
  /\ stack'.link = stack.link /\ stack'.state = stack.state
  /\ stack'.subscribed = stack.subscribed
  /\ history'.links = history.links /\ (history'.faults = 0 => history.faults = 0)

\* Services are asked for over link g, or were before.
Discovers(g) ==
  \/ /\ client.discoveryRequested \/ ~client.connected
     /\ client'.discoveryRequested = client.discoveryRequested /\ stack' = stack
  \/ /\ ~client.discoveryRequested /\ client.connected
     /\ client'.discoveryRequested /\ stack'.op = stack.op /\ stack'.mtu = stack.mtu
     /\ stack'.discovering = (stack.discovering \/ (g = stack.link /\ stack.state = "up"))

LEMMA DiscoverFrame ==
  ASSUME TypeOK, NEW x \in Apps, NEW g \in Link \cup {NoLink}, NEW y, y = DiscoverServices(x, g), Become(y),
         x.client.gatt = client.gatt, x.client.connected = client.connected,
         x.client.discoveryRequested = client.discoveryRequested, x.client.chars = client.chars,
         x.client.debugReady = client.debugReady, x.client.notifyQueue = client.notifyQueue,
         x.client.writeInProgress = client.writeInProgress, x.client.txQueue = client.txQueue,
         x.client.ota = client.ota, x.stack = stack, x.verdict = verdict, x.history = history,
         x.timers.once = timers.once, calls' \in Seq(Call), flash' = flash
  PROVE  /\ TypeOK' /\ Base /\ MtuKept /\ QueueKept /\ SessionKept /\ StartKept /\ DataKept
         /\ Discovers(g) /\ timers' = x.timers
<1>1. \/ (x.client.discoveryRequested \/ ~x.client.connected) /\ y = x
      \/ /\ ~x.client.discoveryRequested /\ x.client.connected
         /\ y \in Apps /\ y.client = [x.client EXCEPT !.discoveryRequested = TRUE]
         /\ y.timers = x.timers /\ y.verdict = x.verdict /\ y.history = x.history
         /\ KeepsLink(x, y) /\ y.stack.op = x.stack.op
         /\ y.stack.discovering = (x.stack.discovering \/ (g = x.stack.link /\ x.stack.state = "up"))
  BY DiscoverServicesFacts
<1>2. Does(y) /\ y \in Apps
  BY <1>1, BecomeFacts
<1>3. TypeOK'
  BY <1>2, DoesTypes DEF TypeOK
<1>4. CASE (x.client.discoveryRequested \/ ~x.client.connected) /\ y = x
  BY <1>2, <1>3, <1>4
  DEF Does, Base, MtuKept, QueueKept, SessionKept, StartKept, DataKept, Discovers
<1>5. CASE /\ ~x.client.discoveryRequested /\ x.client.connected
           /\ y.client = [x.client EXCEPT !.discoveryRequested = TRUE]
           /\ y.timers = x.timers /\ y.verdict = x.verdict /\ y.history = x.history
           /\ KeepsLink(x, y) /\ y.stack.op = x.stack.op
           /\ y.stack.discovering = (x.stack.discovering \/ (g = x.stack.link /\ x.stack.state = "up"))
  <2>1. x.client \in Client
    BY DEF Apps
  <2>2. PICK c : c = y.client
    OBVIOUS
  <2>3. /\ c.gatt = x.client.gatt /\ c.connected = x.client.connected
        /\ c.chars = x.client.chars /\ c.ota = x.client.ota
        /\ c.debugReady = x.client.debugReady /\ c.notifyQueue = x.client.notifyQueue
        /\ c.writeInProgress = x.client.writeInProgress /\ c.txQueue = x.client.txQueue
        /\ c.discoveryRequested
    BY <1>5, <2>1, <2>2 DEF Client
  <2>4. /\ client' = c /\ timers' = x.timers /\ verdict' = x.verdict /\ history' \in History
        /\ history'.links = x.history.links /\ (history'.faults = 0 => x.history.faults = 0)
    BY <1>2, <1>5, <2>2 DEF Does
  <2>5. /\ stack'.link = stack.link /\ stack'.state = stack.state /\ stack'.mtu = stack.mtu
        /\ stack'.mtuAsked = stack.mtuAsked /\ stack'.subscribed = stack.subscribed
        /\ stack'.op = stack.op
        /\ stack'.discovering = (stack.discovering \/ (g = stack.link /\ stack.state = "up"))
    BY <1>2, <1>5 DEF Does, KeepsLink
  <2>6. Base /\ MtuKept
    BY <2>3, <2>4, <2>5 DEF Base, MtuKept
  <2>7. QueueKept /\ SessionKept /\ StartKept /\ DataKept
    BY <2>3, <2>4 DEF QueueKept, SessionKept, StartKept, DataKept
  <2>8. Discovers(g)
    BY <1>5, <2>3, <2>4, <2>5 DEF Discovers
  <2>. QED  BY <1>3, <2>4, <2>6, <2>7, <2>8
<1>. QED  BY <1>1, <1>4, <1>5

LEMMA RunDiscoverServicesFacts ==
  ASSUME TypeOK, RunDiscoverServices
  PROVE  /\ TypeOK' /\ Base /\ MtuKept /\ QueueKept /\ SessionKept /\ StartKept /\ DataKept
         /\ calls' = calls /\ flash' = flash
         /\ \E g \in timers.discover : Discovers(g) /\ timers'.discover = timers.discover \ {g}
<1>1. PICK g \in timers.discover :
        Become(DiscoverServices([App EXCEPT !.timers.discover = @ \ {g}], g))
  BY DEF RunDiscoverServices
<1>2. calls' = calls /\ flash' = flash
  BY DEF RunDiscoverServices
<1>3. PICK t : t = [timers EXCEPT !.discover = timers.discover \ {g}]
  OBVIOUS
<1>4. timers \in Timers /\ App \in Apps /\ App.timers = timers
  BY AppFacts DEF TypeOK
<1>5. t \in Timers /\ t.once = timers.once /\ t.discover = timers.discover \ {g} /\ g \in Link
  BY <1>3, <1>4 DEF Timers
<1>6. PICK x, y : x = [App EXCEPT !.timers = t] /\ y = DiscoverServices(x, g)
  OBVIOUS
<1>7. Become(y)
  <2>1. x = [App EXCEPT !.timers.discover = @ \ {g}]
    BY <1>3, <1>4, <1>6 DEF Apps, Timers
  <2>. QED  BY <1>1, <1>6, <2>1
<1>8. /\ x \in Apps /\ x.client = client /\ x.timers = t /\ x.stack = stack
      /\ x.verdict = verdict /\ x.history = history
  BY <1>4, <1>5, <1>6, AppFacts DEF Apps
<1>9. calls' \in Seq(Call) /\ g \in Link \cup {NoLink}
  BY <1>2, <1>5 DEF TypeOK
<1>10. /\ TypeOK' /\ Base /\ MtuKept /\ QueueKept /\ SessionKept /\ StartKept /\ DataKept
       /\ Discovers(g) /\ timers' = x.timers
  BY <1>2, <1>5, <1>6, <1>7, <1>8, <1>9, DiscoverFrame
<1>. QED  BY <1>2, <1>5, <1>8, <1>10

LEMMA OnMtuChangedFacts ==
  ASSUME TypeOK, OnMtuChanged
  PROVE  /\ TypeOK' /\ Base /\ MtuKept /\ QueueKept /\ DataKept
         /\ Handles("mtu") /\ flash' = flash /\ timers'.discover = timers.discover
         /\ \/ Frame /\ MtuAwaited
            \/ Discovers(Head(calls).link) /\ SessionKept /\ StartKept
<1>0. PICK mtu \in MtuOfCall :
        LET z == IF Head(calls).ok THEN [App EXCEPT !.client.negotiatedMtu = mtu] ELSE App IN
        IF Updating(App) /\ client.ota.waitingForMtu THEN Runs(z, StartOtaAfterMtu)
        ELSE Become(DiscoverServices(z, Head(calls).link))
  BY Zenon DEF OnMtuChanged
<1>1. PICK x : x = IF Head(calls).ok THEN [App EXCEPT !.client.negotiatedMtu = mtu] ELSE App
  OBVIOUS
<1>2. /\ Handles("mtu") /\ flash' = flash
      /\ IF Updating(App) /\ client.ota.waitingForMtu THEN Runs(x, StartOtaAfterMtu)
         ELSE Become(DiscoverServices(x, Head(calls).link))
  BY <1>0, <1>1 DEF OnMtuChanged
<1>3. calls' \in Seq(Call) /\ Head(calls).link \in Link \cup {NoLink}
  BY <1>2, HandlesFacts
<1>4. PICK m : m = IF Head(calls).ok THEN mtu ELSE client.negotiatedMtu
  OBVIOUS
<1>5. PICK c : c = [client EXCEPT !.negotiatedMtu = m]
  OBVIOUS
<1>6. m \in Mtu /\ client \in Client
  <2>1. mtu \in Mtu
    BY <1>0 DEF MtuOfCall, TypeOK, Stack
  <2>. QED  BY <1>4, <2>1 DEF TypeOK, Client
<1>7. /\ c \in Client /\ c.gatt = client.gatt
      /\ c.connected = client.connected /\ c.discoveryRequested = client.discoveryRequested
      /\ c.chars = client.chars /\ c.ota = client.ota /\ c.debugReady = client.debugReady
      /\ c.notifyQueue = client.notifyQueue
      /\ c.writeInProgress = client.writeInProgress /\ c.txQueue = client.txQueue
  BY <1>5, <1>6 DEF Client
<1>8. App \in Apps
  BY AppFacts
<1>9. x = [App EXCEPT !.client = c]
  <2>1. CASE Head(calls).ok
    BY <1>1, <1>4, <1>5, <1>8, <2>1, AppFacts DEF Apps, Client
  <2>2. CASE ~Head(calls).ok
    <3>1. c = client
      BY <1>4, <1>5, <1>6, <2>2 DEF Client
    <3>. QED  BY <1>1, <1>8, <2>2, <3>1, AppFacts DEF Apps
  <2>. QED  BY <2>1, <2>2
<1>10. /\ x \in Apps /\ x.client = c /\ x.timers = timers /\ x.stack = stack
       /\ x.verdict = verdict /\ x.history = history
  BY <1>7, <1>8, <1>9, AppFacts DEF Apps
<1>11. CASE client.ota # None /\ client.ota.waitingForMtu
  <2>1. Runs(x, StartOtaAfterMtu)
    BY <1>2, <1>11, AppFacts DEF Updating
  <2>2. Near(x)
    BY <1>7, <1>10 DEF Near
  <2>3. \A q \in Runnable \ {"startOtaAfterMtu"} : x.timers.once[q] = timers.once[q]
    BY <1>10
  <2>4. /\ TypeOK' /\ Frame /\ MtuKept /\ QueueKept /\ DataKept
        /\ \/ /\ SessionKept /\ StartKept /\ stack' = stack
              /\ client.ota = None \/ ~client.ota.waitingForMtu
           \/ MtuAwaited
    BY <1>2, <1>3, <1>10, <2>1, <2>2, <2>3, AwaitFacts
  <2>. QED  BY <1>2, <1>11, <2>4 DEF Frame, Base
<1>12. CASE ~(client.ota # None /\ client.ota.waitingForMtu)
  <2>1. PICK g, y : g = Head(calls).link /\ y = DiscoverServices(x, g)
    OBVIOUS
  <2>2. Become(y)
    BY <1>2, <1>12, <2>1, AppFacts DEF Updating
  <2>3. /\ TypeOK' /\ Base /\ MtuKept /\ QueueKept /\ SessionKept /\ StartKept /\ DataKept
        /\ Discovers(g) /\ timers' = x.timers
    BY <1>2, <1>3, <1>7, <1>10, <2>1, <2>2, DiscoverFrame
  <2>. QED  BY <1>2, <1>10, <2>1, <2>3
<1>. QED  BY <1>11, <1>12

LEMMA OnConnectedFacts ==
  ASSUME TypeOK, CallsInv, OnConnected
  PROVE  /\ TypeOK' /\ Handles("connected") /\ flash' = flash /\ stack' = stack
         /\ history' = history /\ QueueKept /\ SessionKept /\ StartKept /\ DataKept
         /\ client'.gatt = client.gatt /\ client'.debugReady = client.debugReady
         /\ client'.connected /\ ~client'.discoveryRequested
         /\ timers'.discover = timers.discover \cup {Head(calls).link}
<1>1. Handles("connected") /\ flash' = flash
  BY DEF OnConnected
<1>2. calls' \in Seq(Call) /\ Head(calls).link \in Link
  <2>1. /\ calls' \in Seq(Call) /\ Head(calls).link \in Link \cup {NoLink}
        /\ Head(calls) = calls[1] /\ 1 \in DOMAIN calls /\ Head(calls).name = "connected"
    BY <1>1, HandlesFacts
  <2>. QED  BY <2>1 DEF CallsInv, Ordered
<1>3. PICK c, t : c = Connected(client) /\ t = [timers EXCEPT !.discover = @ \cup {Head(calls).link}]
  OBVIOUS
<1>4. client \in Client /\ timers \in Timers /\ App \in Apps
  BY AppFacts DEF TypeOK
<1>5. /\ client' = c /\ timers' = t /\ stack' = stack /\ verdict' = verdict
      /\ history' = history
  BY <1>3, <1>4, AppFacts DEF OnConnected, Become, Apps
<1>6. /\ c \in Client /\ c.gatt = client.gatt /\ c.debugReady = client.debugReady
      /\ c.connected /\ ~c.discoveryRequested /\ c.ota = client.ota
      /\ c.writeInProgress = client.writeInProgress /\ c.txQueue = client.txQueue
  BY <1>3, <1>4 DEF Connected, Client
<1>7. t.once = timers.once /\ t.discover = timers.discover \cup {Head(calls).link}
  BY <1>3, <1>4 DEF Timers
<1>8. t \in Timers
  BY <1>2, <1>3, <1>4 DEF Timers
<1>9. TypeOK'
  BY <1>1, <1>2, <1>5, <1>6, <1>8 DEF TypeOK
<1>. QED
  BY <1>1, <1>5, <1>6, <1>7, <1>9 DEF QueueKept, SessionKept, StartKept, DataKept

LEMMA OnDisconnectedFacts ==
  ASSUME TypeOK, OnDisconnected
  PROVE  /\ TypeOK' /\ Handles("disconnected") /\ flash' = flash /\ history' = history
         /\ timers' = timers /\ ~client'.debugReady /\ client'.ota = None
         /\ ~client'.writeInProgress /\ client'.txQueue = 0
         /\ \/ client.gatt = Head(calls).link /\ client'.gatt = NoLink /\ stack' = Closed
            \/ client.gatt # Head(calls).link /\ client'.gatt = client.gatt /\ stack' = stack
         /\ verdict' = "completed" /\ verdict # "completed" => client.ota # None /\ client.ota.endSent
<1>1. Handles("disconnected") /\ flash' = flash
  BY DEF OnDisconnected
<1>2. calls' \in Seq(Call)
  BY <1>1, HandlesFacts
<1>3. PICK v, d : v = VerdictOfLoss(client) /\ d = Dropped(client)
  OBVIOUS
<1>4. client \in Client /\ App \in Apps /\ verdict \in Verdict /\ 0 \in 0..Notified
  BY AppFacts DEF TypeOK, Notified
<1>5. /\ d \in Client /\ d.gatt = client.gatt /\ ~d.debugReady /\ d.ota = None
      /\ ~d.writeInProgress /\ d.txQueue = 0
  BY <1>3, <1>4 DEF Dropped, Client
<1>6. v \in Verdict /\ (v = "completed" => verdict = "completed" \/ (client.ota # None /\ client.ota.endSent))
  BY <1>3, <1>4 DEF VerdictOfLoss, Verdict
<1>7. PICK reset : reset = [App EXCEPT !.verdict = v, !.client = d]
  OBVIOUS
<1>8. reset = [App EXCEPT !.verdict = VerdictOfLoss(client), !.client = Dropped(@)]
  BY <1>3, <1>4, <1>7, AppFacts DEF Apps
<1>9. Become(IF client.gatt = Head(calls).link
             THEN [reset EXCEPT !.client.gatt = NoLink, !.stack = Closed] ELSE reset)
  BY <1>8 DEF OnDisconnected
<1>10. /\ reset \in Apps /\ reset.client = d /\ reset.timers = timers /\ reset.stack = stack
       /\ reset.verdict = v /\ reset.history = history
  BY <1>4, <1>5, <1>6, <1>7, AppFacts DEF Apps
<1>11. CASE client.gatt = Head(calls).link
  <2>1. PICK c, y : c = [d EXCEPT !.gatt = NoLink] /\ y = [reset EXCEPT !.client = c, !.stack = Closed]
    OBVIOUS
  <2>2. Become(y)
    BY <1>9, <1>10, <1>11, <2>1 DEF Apps
  <2>3. /\ c \in Client /\ c.gatt = NoLink /\ ~c.debugReady /\ c.ota = None
        /\ ~c.writeInProgress /\ c.txQueue = 0
    BY <1>5, <2>1 DEF Client
  <2>4. Closed \in Stack
    BY OpFacts DEF Closed, Stack, Mtu, Notified
  <2>5. /\ y \in Apps /\ y.client = c /\ y.timers = timers /\ y.stack = Closed
        /\ y.verdict = v /\ y.history = history
    BY <1>10, <2>1, <2>3, <2>4 DEF Apps
  <2>6. /\ client' = c /\ timers' = timers /\ stack' = Closed /\ verdict' = v
        /\ history' = history
    BY <2>2, <2>5 DEF Become
  <2>7. TypeOK'
    BY <1>1, <1>2, <1>6, <2>3, <2>4, <2>6 DEF TypeOK
  <2>. QED  BY <1>1, <1>6, <1>11, <2>3, <2>6, <2>7
<1>12. CASE client.gatt # Head(calls).link
  <2>1. /\ client' = d /\ timers' = timers /\ stack' = stack /\ verdict' = v
        /\ history' = history
    BY <1>9, <1>10, <1>12 DEF Become
  <2>2. TypeOK'
    BY <1>1, <1>2, <1>5, <1>6, <2>1 DEF TypeOK
  <2>. QED  BY <1>1, <1>5, <1>6, <1>12, <2>1, <2>2
<1>. QED  BY <1>11, <1>12

\* The subscriptions go on from x.
SubscribesOn(x) ==
  \E skipped \in 0..x.client.notifyQueue :
    /\ \E y : y = SubscribeNext(x, skipped) /\ Does(y)
    /\ ~Refuses(x, FALSE) => skipped = 0 \/ (skipped = 1 /\ history'.faults > 0)
    /\ Refuses(x, FALSE) => skipped = x.client.notifyQueue

LEMMA SubscribesFacts ==
  ASSUME NEW x \in Apps, Subscribes(x)
  PROVE  SubscribesOn(x)
<1>1. x.client.notifyQueue \in 0..3 /\ x.client.notifyQueue \in 0..x.client.notifyQueue
      /\ 0 \in 0..x.client.notifyQueue
      /\ (x.client.notifyQueue > 0 => 1 \in 0..x.client.notifyQueue)
  BY DEF Apps, Client, Notified
<1>2. CASE Refuses(x, FALSE)
  <2>1. PICK y : y = SubscribeNext(x, x.client.notifyQueue)
    OBVIOUS
  <2>2. y \in Apps /\ Become(y)
    BY <1>1, <1>2, <2>1, SubscribeNextFacts DEF Subscribes
  <2>. QED  BY <1>1, <1>2, <2>1, <2>2, BecomeFacts DEF SubscribesOn
<1>3. CASE ~Refuses(x, FALSE) /\ Become(SubscribeNext(x, 0))
  <2>1. PICK y : y = SubscribeNext(x, 0)
    OBVIOUS
  <2>2. y \in Apps /\ Become(y)
    BY <1>1, <1>3, <2>1, SubscribeNextFacts
  <2>. QED  BY <1>1, <1>3, <2>1, <2>2, BecomeFacts DEF SubscribesOn
<1>4. CASE ~Refuses(x, FALSE) /\ x.client.notifyQueue > 0 /\ Happens(x, "refusal", SubscribeNext(x, 1))
  <2>1. PICK y : y = SubscribeNext(x, 1)
    OBVIOUS
  <2>2. y \in Apps /\ Happens(x, "refusal", y) /\ y.history = x.history
    BY <1>1, <1>4, <2>1, SubscribeNextFacts
  <2>. QED  BY <1>1, <1>4, <2>1, <2>2, HappensFacts DEF SubscribesOn
<1>. QED  BY <1>2, <1>3, <1>4 DEF Subscribes

\* The channel becomes ready, or the next of n characteristics is asked for.
ReadyNow ==
  /\ client'.debugReady /\ StartKept /\ DataKept /\ SessionKept
  /\ \/ QueueKept /\ stack' = stack
     \/ /\ client'.txQueue = 0 \/ client'.writeInProgress
        /\ client'.writeInProgress = client.writeInProgress /\ stack' = stack
        /\ timers' = timers
     \/ QueueMoved
AskedNext(n) ==
  /\ client'.debugReady = client.debugReady /\ StartKept /\ DataKept /\ SessionKept /\ QueueKept
  /\ stack'.op = HostOp("descriptor")
  /\ client'.notifyQueue = n

\* What a handler that subscribes does to the channel; m are left, chars are
\* the characteristics it takes.
SubscribeStep(m, chars) ==
  /\ client'.gatt = client.gatt /\ client'.connected = client.connected
  /\ client'.discoveryRequested = client.discoveryRequested /\ client'.chars = chars
  /\ timers'.discover = timers.discover /\ history'.links = history.links
  /\ history'.faults = 0 => history.faults = 0
  /\ stack'.link = stack.link /\ stack'.state = stack.state /\ MtuKept
  /\ stack'.subscribed = stack.subscribed /\ stack'.discovering = stack.discovering
  /\ \/ /\ client.gatt = NoLink /\ client'.debugReady = client.debugReady /\ stack' = stack
        /\ QueueKept /\ SessionKept /\ StartKept /\ DataKept
     \/ /\ client.gatt # NoLink
        /\ \E skipped \in 0..m :
             /\ stack.op = Idle /\ stack.state # "connecting" =>
                  skipped = 0 \/ (skipped = 1 /\ history'.faults > 0)
             /\ stack.op # Idle => skipped = m
             /\ \/ skipped = m /\ ReadyNow
                \/ skipped < m /\ AskedNext(m - skipped - 1)

LEMMA SubscribeStepFacts ==
  ASSUME TypeOK, NEW x \in Apps, NEW chars, Subscribes(x), calls' \in Seq(Call), flash' = flash,
         x.client.gatt = client.gatt, x.client.connected = client.connected,
         x.client.discoveryRequested = client.discoveryRequested, x.client.chars = chars,
         x.client.debugReady = client.debugReady,
         x.client.writeInProgress = client.writeInProgress, x.client.txQueue = client.txQueue,
         x.client.ota = client.ota, x.stack = stack, x.verdict = verdict, x.history = history,
         x.timers = timers
  PROVE  TypeOK' /\ SubscribeStep(x.client.notifyQueue, chars)
<1>1. PICK skipped \in 0..x.client.notifyQueue :
        /\ \E y : y = SubscribeNext(x, skipped) /\ Does(y)
        /\ ~Refuses(x, FALSE) => skipped = 0 \/ (skipped = 1 /\ history'.faults > 0)
        /\ Refuses(x, FALSE) => skipped = x.client.notifyQueue
  BY SubscribesFacts DEF SubscribesOn
<1>2. PICK y : y = SubscribeNext(x, skipped) /\ Does(y)
  BY <1>1
<1>3. /\ y \in Apps /\ KeepsClient(x, y) /\ y.history = x.history
      /\ y.timers.discover = x.timers.discover
      /\ \/ x.client.gatt = NoLink /\ y = x
         \/ /\ x.client.gatt # NoLink /\ skipped = x.client.notifyQueue /\ Readies(x, y)
         \/ /\ x.client.gatt # NoLink /\ skipped < x.client.notifyQueue /\ Asks(x, y)
            /\ y.client.notifyQueue = x.client.notifyQueue - skipped - 1
  BY <1>2, SubscribeNextFacts
<1>4. TypeOK'
  BY <1>2, <1>3, DoesTypes DEF TypeOK
<1>5. PICK m : m = x.client.notifyQueue
  OBVIOUS
<1>6. /\ client'.gatt = client.gatt /\ client'.connected = client.connected
      /\ client'.discoveryRequested = client.discoveryRequested /\ client'.chars = chars
      /\ timers'.discover = timers.discover /\ history'.links = history.links
      /\ history'.faults = 0 => history.faults = 0
  BY <1>2, <1>3 DEF Does, KeepsClient
<1>7. /\ stack'.link = stack.link /\ stack'.state = stack.state /\ MtuKept
      /\ stack'.subscribed = stack.subscribed /\ stack'.discovering = stack.discovering
  BY <1>2, <1>3 DEF Does, Readies, Asks, KeepsLink, MtuKept
<1>8. /\ stack.op = Idle /\ stack.state # "connecting" => ~Refuses(x, FALSE)
      /\ stack.op # Idle => Refuses(x, FALSE)
  BY DEF Refuses
<1>9. CASE x.client.gatt = NoLink /\ y = x
  <2>1. /\ client'.debugReady = client.debugReady /\ stack' = stack
        /\ QueueKept /\ SessionKept /\ StartKept /\ DataKept
    BY <1>2, <1>9 DEF Does, QueueKept, SessionKept, StartKept, DataKept
  <2>. QED  BY <1>4, <1>6, <1>7, <1>9, <2>1 DEF SubscribeStep
<1>10. CASE x.client.gatt # NoLink /\ skipped = x.client.notifyQueue /\ Readies(x, y)
  <2>1. /\ "writeOtaStartWhenIdle" \in Runnable \ {"writeNextPacket"}
        /\ "writeNextOtaData" \in Runnable \ {"writeNextPacket"}
        /\ timers.once["writeNextPacket"] \in Nat
    BY DEF Runnable, TypeOK, Timers
  <2>2. client'.debugReady /\ StartKept /\ DataKept /\ SessionKept
    BY <1>2, <1>10, <2>1
    DEF Does, Readies, KeepsSession, KeepsTimers, StartKept, DataKept, SessionKept
  <2>3. Queues(x, y) => QueueMoved
    BY <1>2, <2>1 DEF Queues, Stops, Retries, Writes, QueueMoved, Does
  <2>4. ASSUME ~Queues(x, y)
        PROVE  \/ QueueKept /\ stack' = stack
               \/ /\ client'.txQueue = 0 \/ client'.writeInProgress
                  /\ client'.writeInProgress = client.writeInProgress /\ stack' = stack
                  /\ timers' = timers
    BY <1>2, <1>10, <2>4 DEF Readies, Does, QueueKept
  <2>5. ReadyNow
    BY <2>2, <2>3, <2>4 DEF ReadyNow
  <2>. QED  BY <1>1, <1>4, <1>6, <1>7, <1>8, <1>10, <2>5 DEF SubscribeStep
<1>11. CASE /\ x.client.gatt # NoLink /\ skipped < x.client.notifyQueue /\ Asks(x, y)
            /\ y.client.notifyQueue = x.client.notifyQueue - skipped - 1
  <2>1. AskedNext(x.client.notifyQueue - skipped - 1)
    BY <1>2, <1>11
    DEF Does, Asks, KeepsSession, AskedNext, StartKept, DataKept, SessionKept, QueueKept
  <2>. QED  BY <1>1, <1>4, <1>6, <1>7, <1>8, <1>11, <2>1 DEF SubscribeStep
<1>. QED  BY <1>3, <1>9, <1>10, <1>11

LEMMA OnDescriptorWriteFacts ==
  ASSUME TypeOK, OnDescriptorWrite
  PROVE  /\ TypeOK' /\ Handles("descriptor") /\ flash' = flash
         /\ SubscribeStep(client.notifyQueue, client.chars)
<1>1. Handles("descriptor") /\ flash' = flash /\ Subscribes(App)
  BY DEF OnDescriptorWrite
<1>2. calls' \in Seq(Call)
  BY <1>1, HandlesFacts
<1>3. PICK x : x = App
  OBVIOUS
<1>4. /\ x \in Apps /\ x.client = client /\ x.timers = timers /\ x.stack = stack
      /\ x.verdict = verdict /\ x.history = history /\ Subscribes(x)
  BY <1>1, <1>3, AppFacts
<1>5. TypeOK' /\ SubscribeStep(x.client.notifyQueue, client.chars)
  BY <1>1, <1>2, <1>4, SubscribeStepFacts
<1>. QED  BY <1>1, <1>4, <1>5

LEMMA OnServicesDiscoveredFacts ==
  ASSUME TypeOK, OnServicesDiscovered
  PROVE  /\ TypeOK' /\ Handles("services") /\ flash' = flash
         /\ \/ Head(calls).ok /\ SubscribeStep(Notified, Head(calls).link)
            \/ /\ ~Head(calls).ok /\ Frame /\ MtuKept /\ SessionKept /\ QueueKept
               /\ StartKept /\ DataKept /\ stack' = stack
<1>1. Handles("services") /\ flash' = flash
  BY DEF OnServicesDiscovered
<1>2. calls' \in Seq(Call) /\ Head(calls).link \in Link \cup {NoLink}
  BY <1>1, HandlesFacts
<1>3. App \in Apps /\ client \in Client
  BY AppFacts DEF TypeOK
<1>4. CASE Head(calls).ok
  <2>1. PICK c, x : /\ c = [client EXCEPT !.chars = Head(calls).link, !.notifyQueue = Notified]
                    /\ x = [App EXCEPT !.client = c]
    OBVIOUS
  <2>2. Notified \in 0..Notified
    BY DEF Notified
  <2>3. /\ c \in Client /\ c.gatt = client.gatt /\ c.connected = client.connected
        /\ c.discoveryRequested = client.discoveryRequested
        /\ c.chars = Head(calls).link /\ c.ota = client.ota
        /\ c.debugReady = client.debugReady /\ c.notifyQueue = Notified
        /\ c.writeInProgress = client.writeInProgress /\ c.txQueue = client.txQueue
    BY <1>2, <1>3, <2>1, <2>2 DEF Client
  <2>4. /\ x \in Apps /\ x.client = c /\ x.timers = timers /\ x.stack = stack
        /\ x.verdict = verdict /\ x.history = history
    BY <1>3, <2>1, <2>3, AppFacts DEF Apps
  <2>5. Subscribes(x)
    <3>1. x = [App EXCEPT !.client.chars = Head(calls).link, !.client.notifyQueue = Notified]
      BY <1>3, <2>1, AppFacts DEF Apps, Client
    <3>. QED  BY <1>4, <3>1 DEF OnServicesDiscovered
  <2>6. TypeOK' /\ SubscribeStep(x.client.notifyQueue, Head(calls).link)
    BY <1>1, <1>2, <2>3, <2>4, <2>5, SubscribeStepFacts
  <2>. QED  BY <1>1, <1>4, <2>3, <2>4, <2>6
<1>5. CASE ~Head(calls).ok
  <2>1. PICK x : x = App
    OBVIOUS
  <2>2. x \in Apps /\ Near(x) /\ x.timers = timers
    BY <1>3, <2>1, AppFacts, AppIsNear
  <2>3. Does(x)
    BY <1>5, <2>1, <2>2, BecomeFacts DEF OnServicesDiscovered
  <2>4. TypeOK'
    BY <1>1, <1>2, <2>2, <2>3, DoesTypes DEF TypeOK
  <2>. QED
    BY <1>1, <1>5, <2>2, <2>3, <2>4
    DEF Does, Near, Frame, MtuKept, QueueKept, SessionKept, StartKept, DataKept
<1>. QED  BY <1>4, <1>5

LEMMA ReleaseFacts ==
  ASSUME TypeOK, Release
  PROVE  /\ TypeOK' /\ calls' = calls /\ flash' = flash /\ history' = history /\ timers' = timers
         /\ stack' = Closed /\ verdict' = verdict /\ client'.gatt = NoLink /\ ~client'.debugReady
         /\ ~client'.writeInProgress /\ client'.txQueue = 0 /\ client'.ota = None
<1>1. PICK x, y : x = App /\ y = Disconnect(x)
  OBVIOUS
<1>2. x \in Apps /\ x.timers = timers /\ x.verdict = verdict /\ x.history = history
  BY <1>1, AppFacts
<1>3. /\ y \in Apps /\ y.timers = x.timers /\ y.stack = Closed /\ y.verdict = x.verdict
      /\ y.history = x.history /\ y.client.gatt = NoLink /\ ~y.client.debugReady
      /\ ~y.client.writeInProgress /\ y.client.txQueue = 0 /\ y.client.ota = None
  BY <1>1, <1>2, DisconnectFacts
<1>4. Become(y) /\ calls' = calls /\ flash' = flash
  BY <1>1 DEF Release
<1>5. Does(y)
  BY <1>3, <1>4, BecomeFacts
<1>6. TypeOK'
  BY <1>3, <1>4, <1>5, DoesTypes DEF TypeOK
<1>. QED  BY <1>2, <1>3, <1>4, <1>5, <1>6 DEF Does, Become

LEMMA OnFoundFacts ==
  ASSUME TypeOK, OnFound
  PROVE  /\ TypeOK' /\ Handles("found")
         /\ \/ /\ Frame /\ MtuKept /\ QueueKept /\ SessionKept /\ StartKept /\ DataKept
               /\ stack' = stack /\ flash' = flash
            \/ /\ ~client.debugReady /\ history'.links = history.links + 1
               /\ client'.gatt = history'.links /\ ~client'.debugReady
               /\ ~client'.writeInProgress /\ client'.txQueue = 0 /\ client'.ota = None
               /\ timers' = timers /\ verdict' = verdict /\ flash' = NoFlash
               /\ stack' = [Closed EXCEPT !.link = history'.links, !.state = "connecting"]
               /\ history.links + 1 \in Link
<1>1. PICK g, w : g = history.links + 1 /\ w = App
  OBVIOUS
<1>2. PICK x : x = Disconnect(w)
  OBVIOUS
<1>3. /\ w \in Apps /\ w.client = client /\ w.timers = timers /\ w.stack = stack
      /\ w.verdict = verdict /\ w.history = history /\ Near(w)
  BY <1>1, AppFacts, AppIsNear
<1>4. /\ x \in Apps /\ x.timers = timers /\ x.stack = Closed /\ x.verdict = verdict
      /\ x.history = history /\ x.client.gatt = NoLink /\ ~x.client.debugReady
      /\ ~x.client.writeInProgress /\ x.client.txQueue = 0 /\ x.client.ota = None
  BY <1>2, <1>3, DisconnectFacts
<1>5. Handles("found")
  BY DEF OnFound
<1>6. calls' \in Seq(Call)
  BY <1>5, HandlesFacts
<1>7. CASE client.debugReady \/ (client.gatt # NoLink /\ client.known) \/ history.links = MaxLinks
  <2>1. Become(w) /\ flash' = flash
    BY <1>1, <1>7 DEF OnFound
  <2>2. Does(w)
    BY <1>3, <2>1, BecomeFacts
  <2>3. TypeOK'
    BY <1>3, <1>6, <2>1, <2>2, DoesTypes DEF TypeOK
  <2>. QED
    BY <1>3, <1>5, <2>1, <2>2, <2>3
    DEF Does, Near, Frame, MtuKept, QueueKept, SessionKept, StartKept, DataKept
<1>8. CASE ~(client.debugReady \/ (client.gatt # NoLink /\ client.known) \/ history.links = MaxLinks)
  <2>1. history \in History /\ history.links \in 0..MaxLinks /\ MaxLinks \in Nat
    BY Numbers DEF TypeOK, History
  <2>2. g \in Link /\ g \in 0..MaxLinks /\ 0 \in 0..MaxCommands
    BY <1>1, <1>8, <2>1, Numbers DEF Link
  <2>3. PICK c, st, h : /\ c = [x.client EXCEPT !.gatt = g, !.known = TRUE]
                        /\ st = [Closed EXCEPT !.link = g, !.state = "connecting"]
                        /\ h = [history EXCEPT !.links = g, !.commands = 0]
    OBVIOUS
  <2>4. PICK y : y = [x EXCEPT !.client = c, !.stack = st, !.history = h]
    OBVIOUS
  <2>5. Become(y) /\ flash' = NoFlash
    <3>1. y = [x EXCEPT !.client.gatt = g, !.client.known = TRUE, !.stack = st,
                        !.history.links = g, !.history.commands = 0]
      BY <1>4, <2>3, <2>4 DEF Apps
    <3>. QED  BY <1>1, <1>2, <1>8, <2>3, <3>1 DEF OnFound
  <2>6. x.client \in Client
    BY <1>4 DEF Apps
  <2>7. /\ c \in Client /\ c.gatt = g /\ ~c.debugReady
        /\ ~c.writeInProgress /\ c.txQueue = 0 /\ c.ota = None
    BY <1>4, <2>2, <2>3, <2>6 DEF Client
  <2>8. Closed \in Stack
    BY OpFacts DEF Closed, Stack, Mtu, Notified
  <2>9. st \in Stack
    BY <2>2, <2>3, <2>8 DEF Stack
  <2>10. h \in History /\ h.links = g
    BY <2>1, <2>2, <2>3 DEF History
  <2>11. /\ y \in Apps /\ y.client = c /\ y.timers = timers /\ y.stack = st
         /\ y.verdict = verdict /\ y.history = h
    BY <1>4, <2>4, <2>7, <2>9, <2>10 DEF Apps
  <2>12. /\ client' = c /\ timers' = timers /\ stack' = st /\ verdict' = verdict /\ history' = h
    BY <2>5, <2>11 DEF Become
  <2>13. NoFlash \in Flash
    BY Numbers DEF NoFlash, Flash, Pdu
  <2>14. TypeOK'
    BY <1>6, <2>5, <2>7, <2>9, <2>10, <2>12, <2>13 DEF TypeOK
  <2>. QED  BY <1>1, <1>5, <1>8, <2>2, <2>3, <2>5, <2>7, <2>10, <2>12, <2>14
<1>. QED  BY <1>7, <1>8

LEMMA SendCommandFacts ==
  ASSUME TypeOK, SendCommand
  PROVE  /\ TypeOK' /\ Frame /\ MtuKept /\ SessionKept /\ StartKept /\ DataKept
         /\ client.debugReady /\ calls' = calls /\ flash' = flash
         /\ \/ QueueKept /\ stack' = stack
            \/ /\ client'.writeInProgress /\ client.writeInProgress
               /\ stack' = stack /\ timers' = timers
            \/ QueueMoved
<1>1. PICK n \in 1..2, refuse \in BOOLEAN :
        LET x == [App EXCEPT !.history.commands = @ + 1] IN
        IF refuse THEN stack.op = Idle /\ Happens(x, "refusal", SendPackets(x, n, TRUE))
        ELSE Become(SendPackets(x, n, FALSE))
  BY DEF SendCommand
<1>2. /\ client.debugReady /\ history.commands < MaxCommands
      /\ calls' = calls /\ flash' = flash
  BY DEF SendCommand
<1>3. PICK h : h = [history EXCEPT !.commands = @ + 1]
  OBVIOUS
<1>4. history \in History /\ history.commands \in 0..MaxCommands /\ MaxCommands \in Nat
  BY Numbers DEF TypeOK, History
<1>5. h \in History /\ h.links = history.links /\ h.faults = history.faults
  BY <1>2, <1>3, <1>4 DEF History
<1>6. PICK x : x = [App EXCEPT !.history = h]
  OBVIOUS
<1>7. App \in Apps
  BY AppFacts
<1>8. /\ x \in Apps /\ x.client = client /\ x.timers = timers /\ x.stack = stack
      /\ x.verdict = verdict /\ x.history = h
  BY <1>5, <1>6, <1>7, AppFacts DEF Apps
<1>9. Near(x)
  BY <1>5, <1>8 DEF Near
<1>10. x = [App EXCEPT !.history.commands = @ + 1]
  BY <1>3, <1>6, <1>7, AppFacts DEF Apps
<1>11. PICK y : y = SendPackets(x, n, refuse)
  OBVIOUS
<1>12. y \in Apps /\ QueueOnly(x, y) /\ Sends(x, y)
  BY <1>8, <1>11, SendPacketsFacts
<1>13. Become(y) \/ Happens(x, "refusal", y)
  BY <1>1, <1>10, <1>11
<1>14. Does(y)
  BY <1>8, <1>12, <1>13, BecomeFacts, HappensFacts DEF QueueOnly
<1>15. TypeOK'
  BY <1>2, <1>12, <1>14, DoesTypes DEF TypeOK
<1>16. Frame /\ MtuKept /\ SessionKept
  BY <1>8, <1>9, <1>12, <1>14, QueueFrame
<1>17. /\ "writeOtaStartWhenIdle" \in Runnable \ {"writeNextPacket"}
       /\ "writeNextOtaData" \in Runnable \ {"writeNextPacket"}
       /\ timers.once["writeNextPacket"] \in Nat
  BY DEF Runnable, TypeOK, Timers
<1>18. StartKept /\ DataKept
  BY <1>8, <1>12, <1>14, <1>17 DEF QueueOnly, KeepsTimers, Does, StartKept, DataKept
<1>19. Queues(x, y) => QueueMoved
  BY <1>8, <1>14, <1>17 DEF Queues, Stops, Retries, Writes, QueueMoved, Does
<1>20. ASSUME ~Queues(x, y)
       PROVE  \/ QueueKept /\ stack' = stack
              \/ /\ client'.writeInProgress /\ client.writeInProgress
                 /\ stack' = stack /\ timers' = timers
  BY <1>8, <1>12, <1>14, <1>20 DEF Sends, Does, QueueKept
<1>. QED  BY <1>2, <1>15, <1>16, <1>18, <1>19, <1>20

NewSession(waiting) ==
  [pdu |-> "full", waitingForMtu |-> waiting, nextIndex |-> 0, endSent |-> FALSE]

LEMMA StartOtaFacts ==
  ASSUME TypeOK, StartOta
  PROVE  /\ TypeOK' /\ Frame /\ calls' = calls /\ flash' = flash
         /\ client.debugReady /\ client.ota = None
         /\ client'.txQueue = 0 /\ ~client'.writeInProgress /\ verdict' = "running"
         /\ stack'.op = stack.op /\ stack.op.name \notin OtaOps
         /\ ~Posted(calls, "ota") /\ ~Posted(calls, "result") /\ DataDue' = 0
         /\ \/ client'.ota = NewSession(FALSE) /\ StartDue' = 1
            \/ client'.ota = NewSession(TRUE) /\ StartDue' = 0
<1>1. PICK s : s = NewSession(FALSE)
  OBVIOUS
<1>2. PICK c, h : /\ c = [client EXCEPT !.txQueue = 0, !.writeInProgress = FALSE, !.ota = s]
                  /\ h = [history EXCEPT !.updates = @ + 1]
  OBVIOUS
<1>3. PICK x : x = [App EXCEPT !.client = c, !.verdict = "running", !.history = h]
  OBVIOUS
<1>4. /\ client.debugReady /\ client.ota = None /\ history.updates < MaxUpdates
      /\ stack.op.name \notin OtaOps /\ calls' = calls /\ flash' = flash
      /\ ~Posted(calls, "ota") /\ ~Posted(calls, "result")
      /\ \A r \in Runnable \ {"writeNextPacket"} : timers.once[r] = 0
  BY AppFacts DEF StartOta, Updating, OtaOps, Posted
<1>5. PICK t : t = [s EXCEPT !.waitingForMtu = TRUE]
  OBVIOUS
<1>6. /\ s \in OtaSession /\ t \in OtaSession /\ t = NewSession(TRUE)
  BY <1>1, <1>5, Numbers DEF NewSession, OtaSession, Pdu
<1>7. client \in Client /\ history \in History /\ App \in Apps /\ stack \in Stack /\ timers \in Timers
  BY AppFacts DEF TypeOK
<1>8. /\ c \in Client /\ c.gatt = client.gatt /\ c.connected = client.connected
      /\ c.discoveryRequested = client.discoveryRequested /\ c.chars = client.chars
      /\ c.debugReady = client.debugReady /\ c.notifyQueue = client.notifyQueue
      /\ c.ota = s /\ c.txQueue = 0 /\ ~c.writeInProgress
  BY <1>2, <1>6, <1>7 DEF Client
<1>9. h \in History /\ h.links = history.links /\ h.faults = history.faults
  <2>1. history.updates \in 0..MaxUpdates /\ MaxUpdates \in Nat
    BY <1>7, Numbers DEF History
  <2>. QED  BY <1>2, <1>4, <1>7, <2>1 DEF History
<1>10. /\ x \in Apps /\ x.client = c /\ x.timers = timers /\ x.stack = stack
       /\ x.verdict = "running" /\ x.history = h
  BY <1>3, <1>7, <1>8, <1>9, AppFacts DEF Apps, Verdict
<1>11. PICK d, st : d = [c EXCEPT !.ota = t] /\ st = [stack EXCEPT !.mtuAsked = TRUE]
  OBVIOUS
<1>12. PICK m : m = [x EXCEPT !.client = d, !.stack = st]
  OBVIOUS
<1>13. /\ d \in Client /\ d.gatt = client.gatt /\ d.connected = client.connected
       /\ d.discoveryRequested = client.discoveryRequested /\ d.chars = client.chars
       /\ d.debugReady = client.debugReady /\ d.notifyQueue = client.notifyQueue
       /\ d.ota = t /\ d.txQueue = 0 /\ ~d.writeInProgress
  BY <1>6, <1>8, <1>11 DEF Client
<1>14. /\ st \in Stack /\ st.link = stack.link /\ st.state = stack.state /\ st.op = stack.op
       /\ st.subscribed = stack.subscribed /\ st.discovering = stack.discovering
  BY <1>7, <1>11 DEF Stack
<1>15. /\ m \in Apps /\ m.client = d /\ m.timers = timers /\ m.stack = st
       /\ m.verdict = "running" /\ m.history = h
  BY <1>10, <1>12, <1>13, <1>14 DEF Apps
<1>16. PICK y, z : y = Post(x, "writeOtaStartWhenIdle") /\ z = Post(m, "startOtaAfterMtu")
  OBVIOUS
<1>17. /\ "writeOtaStartWhenIdle" \in Runnable \ {"writeNextPacket", "startOtaAfterMtu"}
       /\ "writeNextOtaData" \in Runnable \ {"writeNextPacket", "startOtaAfterMtu", "writeOtaStartWhenIdle"}
       /\ "startOtaAfterMtu" \in Runnable
  BY DEF Runnable
<1>18. /\ y \in Apps /\ y.client = c /\ y.stack = stack /\ y.verdict = "running" /\ y.history = h
       /\ KeepsTimers(x, y, "writeOtaStartWhenIdle")
       /\ y.timers.once["writeOtaStartWhenIdle"] = x.timers.once["writeOtaStartWhenIdle"] + 1
  BY <1>10, <1>16, <1>17, PostFacts
<1>19. /\ z \in Apps /\ z.client = d /\ z.stack = st /\ z.verdict = "running" /\ z.history = h
       /\ KeepsTimers(m, z, "startOtaAfterMtu")
  BY <1>15, <1>16, <1>17, PostFacts
<1>20. Become(y) \/ Become(z) \/ Happens(x, "refusal", y)
  <2>1. x = [App EXCEPT !.client = c, !.verdict = "running", !.history.updates = @ + 1]
    BY <1>2, <1>3, <1>7, AppFacts DEF Apps
  <2>2. m = [x EXCEPT !.client.ota.waitingForMtu = TRUE, !.stack.mtuAsked = TRUE]
    BY <1>5, <1>6, <1>8, <1>10, <1>11, <1>12 DEF Apps, Client
  <2>. QED  BY <1>1, <1>2, <1>16, <2>1, <2>2 DEF StartOta, NewSession
<1>21. Does(y) \/ Does(z)
  BY <1>10, <1>18, <1>19, <1>20, BecomeFacts, HappensFacts
<1>22. TypeOK'
  BY <1>4, <1>18, <1>19, <1>21, DoesTypes DEF TypeOK
<1>23. CASE Does(y)
  <2>1. Frame /\ client'.txQueue = 0 /\ ~client'.writeInProgress /\ verdict' = "running"
        /\ stack'.op = stack.op /\ client'.ota = s
    BY <1>8, <1>9, <1>10, <1>18, <1>23 DEF Does, Frame, KeepsTimers
  <2>2. StartDue' = 1 /\ DataDue' = 0
    BY <1>4, <1>10, <1>17, <1>18, <1>23 DEF Does, KeepsTimers, StartDue, DataDue
  <2>. QED  BY <1>1, <1>4, <1>22, <2>1, <2>2
<1>24. CASE Does(z)
  <2>1. Frame /\ client'.txQueue = 0 /\ ~client'.writeInProgress /\ verdict' = "running"
        /\ stack'.op = stack.op /\ client'.ota = t
    BY <1>9, <1>13, <1>14, <1>15, <1>19, <1>24 DEF Does, Frame, KeepsTimers
  <2>2. StartDue' = 0 /\ DataDue' = 0
    BY <1>4, <1>15, <1>17, <1>19, <1>24 DEF Does, KeepsTimers, StartDue, DataDue
  <2>. QED  BY <1>4, <1>6, <1>22, <2>1, <2>2
<1>. QED  BY <1>21, <1>23, <1>24

CallNames == {"connected", "disconnected", "services", "descriptor", "mtu", "host", "ota", "result", "found"}

LEMMA CallsFacts ==
  ASSUME TypeOK, NEW name \in CallNames, NEW ok \in BOOLEAN, Calls(name, ok)
  PROVE  /\ Mine(name, ok) \in Call /\ calls' = Append(calls, Mine(name, ok)) /\ calls' \in Seq(Call)
         /\ Mine(name, ok).name = name /\ Mine(name, ok).ok = ok /\ Mine(name, ok).link = stack.link
<1>1. Mine(name, ok) \in Call
  BY DEF Mine, Call, CallNames, TypeOK, Stack
<1>2. calls' = Append(calls, Mine(name, ok))
  BY DEF Calls, Mine
<1>3. calls' \in Seq(Call)
  BY <1>1, <1>2 DEF TypeOK
<1>. QED  BY <1>1, <1>2, <1>3 DEF Mine

LEMMA FailsFacts ==
  ASSUME TypeOK, NEW fault, Fails(fault)
  PROVE  history' \in History /\ history'.links = history.links /\ history'.faults > 0
<1>1. /\ history \in History /\ history.faults \in 0..MaxFaults /\ history.faults < MaxFaults
      /\ MaxFaults \in Nat /\ history' = [history EXCEPT !.faults = @ + 1]
  BY Numbers DEF TypeOK, History, Fails
<1>. QED  BY <1>1 DEF History

LEMMA ScanFacts ==
  ASSUME TypeOK, Scan
  PROVE  /\ TypeOK' /\ Frame /\ MtuKept /\ QueueKept /\ SessionKept /\ StartKept /\ DataKept
         /\ Found(TRUE) \in Call /\ calls' = Append(calls, Found(TRUE)) /\ ~Posted(calls, "found")
         /\ flash' = flash /\ stack' = stack /\ stack.state # "up" /\ client' = client
<1>1. /\ calls' = Append(calls, Found(TRUE)) /\ ~Posted(calls, "found") /\ stack.state # "up"
      /\ UNCHANGED <<client, timers, stack, flash, verdict, history>>
  BY DEF Scan, Found, Posted
<1>2. Found(TRUE) \in Call
  BY DEF Found, Call
<1>3. TypeOK'
  <2>1. PICK c : c = Found(TRUE)
    OBVIOUS
  <2>2. c \in Call /\ calls' = Append(calls, c) /\ calls \in Seq(Call)
    BY <1>1, <1>2, <2>1 DEF TypeOK
  <2>3. calls' \in Seq(Call)
    BY <2>2
  <2>. QED  BY <1>1, <2>3 DEF TypeOK
<1>. QED
  BY <1>1, <1>2, <1>3 DEF Frame, MtuKept, QueueKept, SessionKept, StartKept, DataKept

LEMMA LinkUpFacts ==
  ASSUME TypeOK, LinkUp
  PROVE  /\ TypeOK' /\ stack.state = "connecting" /\ timers.discover = {}
         /\ \A k \in DOMAIN calls : calls[k].link \in {NoLink, stack.link}
         /\ stack' = [stack EXCEPT !.state = "up"] /\ client' = client /\ timers' = timers
         /\ flash' = flash /\ verdict' = verdict /\ history' = history
         /\ Mine("connected", TRUE) \in Call /\ calls' = Append(calls, Mine("connected", TRUE))
<1>1. /\ stack.state = "connecting" /\ timers.discover = {}
      /\ \A k \in DOMAIN calls : calls[k].link \in {NoLink, stack.link}
      /\ stack' = [stack EXCEPT !.state = "up"] /\ Calls("connected", TRUE)
      /\ client' = client /\ timers' = timers /\ flash' = flash /\ verdict' = verdict
      /\ history' = history
  BY DEF LinkUp
<1>2. /\ Mine("connected", TRUE) \in Call /\ calls' = Append(calls, Mine("connected", TRUE))
      /\ calls' \in Seq(Call)
  BY <1>1, CallsFacts DEF CallNames
<1>3. stack' \in Stack
  BY <1>1 DEF TypeOK, Stack
<1>4. TypeOK'
  BY <1>1, <1>2, <1>3 DEF TypeOK
<1>. QED  BY <1>1, <1>2, <1>4

LEMMA LinkDownFacts ==
  ASSUME TypeOK, LinkDown
  PROVE  /\ TypeOK' /\ stack.state \in {"connecting", "up"}
         /\ stack' = [Closed EXCEPT !.link = stack.link, !.state = "down"]
         /\ client' = client /\ timers' = timers
         /\ flash' = flash /\ verdict' = verdict /\ history' = history
         /\ Mine("disconnected", TRUE) \in Call
         /\ calls' = Append(calls, Mine("disconnected", TRUE))
<1>1. /\ stack.state \in {"connecting", "up"}
      /\ stack' = [Closed EXCEPT !.link = stack.link, !.state = "down"]
      /\ Calls("disconnected", TRUE)
      /\ client' = client /\ timers' = timers /\ flash' = flash /\ verdict' = verdict
      /\ history' = history
  BY DEF LinkDown
<1>2. /\ Mine("disconnected", TRUE) \in Call /\ calls' = Append(calls, Mine("disconnected", TRUE))
      /\ calls' \in Seq(Call)
  BY <1>1, CallsFacts DEF CallNames
<1>3. Closed \in Stack
  BY OpFacts DEF Closed, Stack, Mtu, Notified
<1>4. stack' \in Stack
  BY <1>1, <1>3 DEF TypeOK, Stack
<1>5. TypeOK'
  BY <1>1, <1>2, <1>4 DEF TypeOK
<1>. QED  BY <1>1, <1>2, <1>5

LEMMA ServicesFoundFacts ==
  ASSUME TypeOK, ServicesFound
  PROVE  /\ TypeOK' /\ stack.discovering /\ stack' = [stack EXCEPT !.discovering = FALSE]
         /\ client' = client /\ timers' = timers /\ flash' = flash /\ verdict' = verdict
         /\ history'.links = history.links /\ (history'.faults = 0 => history.faults = 0)
         /\ \E ok \in BOOLEAN :
              /\ Mine("services", ok) \in Call /\ calls' = Append(calls, Mine("services", ok))
              /\ history'.faults = 0 => ok
<1>1. PICK ok \in BOOLEAN : Calls("services", ok) /\ (IF ok THEN UNCHANGED history ELSE Fails("discovery"))
  BY DEF ServicesFound
<1>2. /\ stack.discovering /\ stack' = [stack EXCEPT !.discovering = FALSE]
      /\ client' = client /\ timers' = timers /\ flash' = flash /\ verdict' = verdict
  BY DEF ServicesFound
<1>3. /\ Mine("services", ok) \in Call /\ calls' = Append(calls, Mine("services", ok))
      /\ calls' \in Seq(Call)
  BY <1>1, CallsFacts DEF CallNames
<1>4. /\ history' \in History /\ history'.links = history.links
      /\ history'.faults = 0 => history.faults = 0 /\ ok
  <2>1. CASE ok
    BY <1>1, <2>1 DEF TypeOK
  <2>2. CASE ~ok
    BY <1>1, <2>2, FailsFacts
  <2>. QED  BY <2>1, <2>2
<1>5. stack' \in Stack
  BY <1>2 DEF TypeOK, Stack
<1>6. TypeOK'
  BY <1>2, <1>3, <1>4, <1>5 DEF TypeOK
<1>. QED  BY <1>2, <1>3, <1>4, <1>6

LEMMA MtuSettledFacts ==
  ASSUME TypeOK, MtuSettled
  PROVE  /\ TypeOK' /\ stack.mtuAsked /\ Frame /\ QueueKept /\ SessionKept /\ StartKept /\ DataKept
         /\ stack'.op = stack.op /\ flash' = flash /\ client' = client
         /\ \E ok \in BOOLEAN : Mine("mtu", ok) \in Call /\ calls' = Append(calls, Mine("mtu", ok))
<1>1. PICK ok \in BOOLEAN : Calls("mtu", ok) /\ (IF ok THEN UNCHANGED history ELSE Fails("mtu"))
  BY DEF MtuSettled
<1>2. /\ stack.mtuAsked
      /\ client' = client /\ timers' = timers /\ flash' = flash /\ verdict' = verdict
  BY DEF MtuSettled
<1>3. PICK mtu \in {stack.mtu, "large"} : stack' = [stack EXCEPT !.mtuAsked = FALSE, !.mtu = mtu]
  BY DEF MtuSettled
<1>4. /\ Mine("mtu", ok) \in Call /\ calls' = Append(calls, Mine("mtu", ok))
      /\ calls' \in Seq(Call)
  BY <1>1, CallsFacts DEF CallNames
<1>5. /\ history' \in History /\ history'.links = history.links
      /\ history'.faults = 0 => history.faults = 0
  <2>1. CASE ok
    BY <1>1, <2>1 DEF TypeOK
  <2>2. CASE ~ok
    BY <1>1, <2>2, FailsFacts
  <2>. QED  BY <2>1, <2>2
<1>6. stack \in Stack /\ mtu \in Mtu
  BY <1>3 DEF TypeOK, Stack, Mtu
<1>7. /\ stack' \in Stack /\ stack'.link = stack.link /\ stack'.state = stack.state
      /\ stack'.op = stack.op /\ stack'.subscribed = stack.subscribed
      /\ stack'.discovering = stack.discovering
  BY <1>3, <1>6 DEF Stack
<1>8. TypeOK'
  BY <1>2, <1>4, <1>5, <1>7 DEF TypeOK
<1>9. Frame /\ QueueKept /\ SessionKept /\ StartKept /\ DataKept
  BY <1>2, <1>5, <1>7 DEF Frame, QueueKept, SessionKept, StartKept, DataKept
<1>. QED  BY <1>2, <1>4, <1>7, <1>8, <1>9

LEMMA ResultFacts ==
  ASSUME TypeOK, Result
  PROVE  /\ TypeOK' /\ Frame /\ MtuKept /\ QueueKept /\ SessionKept /\ StartKept /\ DataKept
         /\ stack' = stack /\ client' = client /\ stack.state = "up"
         /\ flash.state \in {"begun", "ended"} /\ flash' = [flash EXCEPT !.state = "over"]
         /\ \E ok \in BOOLEAN :
              /\ Mine("result", ok) \in Call /\ calls' = Append(calls, Mine("result", ok))
              /\ ok => flash.state = "ended"
<1>1. PICK ok \in BOOLEAN :
        /\ Calls("result", ok) /\ (IF ok THEN UNCHANGED history ELSE Fails("result"))
        /\ ok => flash.state = "ended"
  BY DEF Result
<1>2. /\ stack.state = "up" /\ flash.state \in {"begun", "ended"}
      /\ flash' = [flash EXCEPT !.state = "over"]
      /\ client' = client /\ timers' = timers /\ stack' = stack /\ verdict' = verdict
  BY DEF Result
<1>3. /\ Mine("result", ok) \in Call /\ calls' = Append(calls, Mine("result", ok))
      /\ calls' \in Seq(Call)
  BY <1>1, CallsFacts DEF CallNames
<1>4. /\ history' \in History /\ history'.links = history.links
      /\ history'.faults = 0 => history.faults = 0
  <2>1. CASE ok
    BY <1>1, <2>1 DEF TypeOK
  <2>2. CASE ~ok
    BY <1>1, <2>2, FailsFacts
  <2>. QED  BY <2>1, <2>2
<1>5. flash' \in Flash
  BY <1>2 DEF TypeOK, Flash
<1>6. TypeOK'
  BY <1>2, <1>3, <1>4, <1>5 DEF TypeOK
<1>7. Frame /\ MtuKept /\ QueueKept /\ SessionKept /\ StartKept /\ DataKept
  BY <1>2, <1>4 DEF Frame, MtuKept, QueueKept, SessionKept, StartKept, DataKept
<1>. QED  BY <1>1, <1>2, <1>3, <1>6, <1>7

\* What the answer to a write is called.
Answer(op) == IF op.name \in {"host", "descriptor"} THEN op.name ELSE "ota"

LEMMA ReceivedFacts ==
  ASSUME TypeOK, OpInv, NEW f, f = Received(flash, stack.op)
  PROVE  /\ f \in Flash /\ ~f.spoilt
         /\ stack.op.name = "start" =>
              f.state = "begun" /\ f.pdu = stack.op.pdu /\ f.chunks = 0
         /\ stack.op.name = "data" =>
              \/ flash.state = "over" /\ f = flash
              \/ flash.state = "begun" /\ f = [flash EXCEPT !.chunks = @ + 1]
         /\ stack.op.name = "end" =>
              \/ flash.state = "over" /\ f = flash
              \/ flash.state = "begun" /\ f = [flash EXCEPT !.state = "ended"]
         /\ stack.op.name \notin OtaOps => f = flash
<1>1. flash \in Flash /\ ~flash.spoilt /\ stack.op \in Op
  BY DEF TypeOK, OpInv, Stack
<1>2. CASE stack.op.name = "start"
  <2>1. f = [flash EXCEPT !.state = "begun", !.pdu = stack.op.pdu, !.chunks = 0]
    BY <1>2 DEF Received
  <2>. QED  BY <1>1, <1>2, <2>1, Numbers DEF Flash, Op, OtaOps
<1>3. CASE stack.op.name = "data" /\ flash.state = "over"
  <2>1. f = [flash EXCEPT !.spoilt = FALSE]
    BY <1>3 DEF Received
  <2>2. f = flash
    BY <1>1, <2>1 DEF Flash
  <2>. QED  BY <1>1, <1>3, <2>2 DEF OtaOps
<1>4. CASE stack.op.name = "data" /\ flash.state # "over"
  <2>1. /\ flash.state = "begun" /\ flash.pdu = stack.op.pdu
        /\ flash.chunks = stack.op.index /\ stack.op.index < Chunks(stack.op.pdu)
    BY <1>4 DEF OpInv
  <2>2. f = [flash EXCEPT !.chunks = @ + 1]
    BY <1>4, <2>1 DEF Received
  <2>3. /\ flash.chunks \in 0..FallbackChunks /\ Chunks(stack.op.pdu) \in 0..FallbackChunks
        /\ FallbackChunks \in Nat
    BY <1>1, Numbers DEF Flash, Op
  <2>4. flash.chunks + 1 \in 0..FallbackChunks
    BY <2>1, <2>3
  <2>5. f \in Flash /\ ~f.spoilt
    BY <1>1, <2>2, <2>4 DEF Flash
  <2>. QED  BY <1>4, <2>1, <2>2, <2>5 DEF OtaOps
<1>5. CASE stack.op.name = "end" /\ flash.state = "over"
  <2>1. f = [flash EXCEPT !.spoilt = FALSE]
    BY <1>5 DEF Received
  <2>2. f = flash
    BY <1>1, <2>1 DEF Flash
  <2>. QED  BY <1>1, <1>5, <2>2 DEF OtaOps
<1>6. CASE stack.op.name = "end" /\ flash.state # "over"
  <2>1. /\ flash.state = "begun" /\ flash.pdu = stack.op.pdu
        /\ flash.chunks = stack.op.index /\ flash.chunks = Chunks(flash.pdu)
    BY <1>6 DEF OpInv, Full
  <2>2. f = [flash EXCEPT !.state = "ended"]
    BY <1>6, <2>1 DEF Received
  <2>3. f \in Flash /\ ~f.spoilt
    BY <1>1, <2>2 DEF Flash
  <2>. QED  BY <1>6, <2>1, <2>2, <2>3 DEF OtaOps
<1>7. CASE stack.op.name \notin OtaOps
  BY <1>1, <1>7 DEF Received, OtaOps
<1>. QED  BY <1>2, <1>3, <1>4, <1>5, <1>6, <1>7 DEF OtaOps

LEMMA DescriptorMeansSubscribing ==
  ASSUME StageInv, stack.state = "up", stack.op.name = "descriptor"
  PROVE  Subscribing
<1>1. Idle.name # "descriptor"
  BY OpFacts
<1>. QED
  BY <1>1
  DEF StageInv, Starting, Waiting, Discovering, Discovered, Undiscovered, Subscribed, Ready, Silent

LEMMA WrittenFacts ==
  ASSUME TypeOK, StageInv, OpInv, Written
  PROVE  /\ TypeOK' /\ stack.op # Idle /\ stack.op.name # "none" /\ stack.state = "up"
         /\ client' = client /\ timers' = timers /\ verdict' = verdict
         /\ stack'.link = stack.link /\ stack'.state = stack.state /\ MtuKept
         /\ stack'.discovering = stack.discovering /\ stack'.op = Idle
         /\ history'.links = history.links /\ (history'.faults = 0 => history.faults = 0)
         /\ \E ok \in BOOLEAN :
              /\ Mine(Answer(stack.op), ok) \in Call
              /\ calls' = Append(calls, Mine(Answer(stack.op), ok))
              /\ flash' = IF ok THEN Received(flash, stack.op) ELSE flash
              /\ ok /\ stack.op.name = "descriptor" => stack'.subscribed = stack.subscribed + 1
              /\ stack.op.name # "descriptor" => stack'.subscribed = stack.subscribed
              /\ ~ok => history'.faults > 0 /\ stack'.subscribed = stack.subscribed
<1>1. stack \in Stack /\ stack.op \in Op /\ stack.state = "up" /\ stack.op # Idle
      /\ stack.subscribed \in 0..3 /\ Idle \in Op
      /\ client' = client /\ timers' = timers /\ verdict' = verdict
  BY OpFacts DEF TypeOK, Stack, Written, Notified
<1>2. PICK done : done = [stack EXCEPT !.op = Idle]
  OBVIOUS
<1>3. PICK ok \in BOOLEAN :
        /\ Calls(Answer(stack.op), ok)
        /\ ok => /\ stack' = IF stack.op.name = "descriptor" THEN [done EXCEPT !.subscribed = @ + 1] ELSE done
                 /\ flash' = Received(flash, stack.op) /\ UNCHANGED history
        /\ ~ok => stack' = done /\ flash' = flash /\ Fails("write")
  BY <1>2 DEF Written, Answer
<1>4. Answer(stack.op) \in CallNames
  BY DEF Answer, CallNames
<1>5. /\ Mine(Answer(stack.op), ok) \in Call
      /\ calls' = Append(calls, Mine(Answer(stack.op), ok)) /\ calls' \in Seq(Call)
  BY <1>3, <1>4, CallsFacts
<1>6. stack.op.name # "none"
  BY <1>1 DEF OpInv
<1>7. PICK f : f = Received(flash, stack.op)
  OBVIOUS
<1>8. f \in Flash
  BY <1>7, ReceivedFacts
<1>9. /\ done \in Stack /\ done.link = stack.link /\ done.state = stack.state
      /\ done.mtuAsked = stack.mtuAsked /\ done.discovering = stack.discovering
      /\ done.op = Idle /\ done.subscribed = stack.subscribed
  BY <1>1, <1>2 DEF Stack
<1>10. stack.op.name = "descriptor" => stack.subscribed + 1 \in 0..Notified
  <2>1. ASSUME stack.op.name = "descriptor"
        PROVE  stack.subscribed + 1 \in 0..Notified
    <3>1. Subscribing
      BY <1>1, <2>1, DescriptorMeansSubscribing
    <3>2. stack.subscribed + client.notifyQueue <= 2 /\ client.notifyQueue \in 0..Notified
      BY <3>1 DEF Subscribing, TypeOK, Client
    <3>. QED  BY <1>1, <3>2 DEF Notified
  <2>. QED  BY <2>1
<1>11. /\ stack' \in Stack /\ stack'.link = stack.link /\ stack'.state = stack.state /\ MtuKept
       /\ stack'.discovering = stack.discovering /\ stack'.op = Idle
       /\ ok /\ stack.op.name = "descriptor" => stack'.subscribed = stack.subscribed + 1
       /\ stack.op.name # "descriptor" \/ ~ok => stack'.subscribed = stack.subscribed
  <2>1. CASE ok /\ stack.op.name = "descriptor"
    <3>1. stack' = [done EXCEPT !.subscribed = stack.subscribed + 1]
      BY <1>3, <1>9, <2>1
    <3>. QED  BY <1>9, <1>10, <2>1, <3>1 DEF Stack, MtuKept
  <2>2. CASE ~(ok /\ stack.op.name = "descriptor")
    <3>1. stack' = done
      BY <1>3, <2>2
    <3>. QED  BY <1>9, <2>2, <3>1 DEF MtuKept
  <2>. QED  BY <2>1, <2>2
<1>12. /\ history' \in History /\ history'.links = history.links
       /\ history'.faults = 0 => history.faults = 0
       /\ ~ok => history'.faults > 0
  <2>1. CASE ok
    BY <1>3, <2>1 DEF TypeOK
  <2>2. CASE ~ok
    BY <1>3, <2>2, FailsFacts
  <2>. QED  BY <2>1, <2>2
<1>13. flash' = (IF ok THEN f ELSE flash)
  BY <1>3, <1>7
<1>14. flash' \in Flash
  BY <1>8, <1>13 DEF TypeOK
<1>15. TypeOK'
  BY <1>1, <1>5, <1>11, <1>12, <1>14 DEF TypeOK
<1>. QED  BY <1>1, <1>5, <1>6, <1>7, <1>11, <1>12, <1>13, <1>15

-----------------------------------------------------------------------------
(* The channel. *)

LEMMA ReadyIsTheLast ==
  ASSUME StageInv, stack.state = "up", client.debugReady
  PROVE  Ready
BY DEF StageInv, Starting, Waiting, Discovering, Discovered, Undiscovered, Subscribing, Subscribed,
  Silent, Quiet

\* The stage a link that is up has reached, by the call that is handled next.
LEMMA HeadTellsStage ==
  ASSUME TypeOK, StageInv, stack.state = "up", calls # <<>>
  PROVE  /\ Head(calls).name = "connected" => Starting /\ Tail(calls) = <<>> /\ Head(calls).link = stack.link
         /\ Head(calls).name = "found" => Starting /\ Tail(calls) = <<Mine("connected", TRUE)>>
         /\ Head(calls).name = "services" =>
              /\ Discovered /\ Tail(calls) = <<>> /\ Head(calls).link = stack.link
              /\ history.faults = 0 => Head(calls).ok
         /\ Head(calls).name = "descriptor" => Subscribed /\ Tail(calls) = <<>>
         /\ Head(calls).name \in {"host", "ota", "result", "mtu"} => Ready
         /\ Head(calls).name # "disconnected"
<1>1. CASE Starting
  <2>1. CASE calls = <<Mine("connected", TRUE)>>
    <3>1. Head(calls) = Mine("connected", TRUE) /\ Tail(calls) = <<>>
      BY <2>1
    <3>. QED  BY <1>1, <3>1 DEF Mine
  <2>2. CASE \E ok \in BOOLEAN : calls = <<Found(ok), Mine("connected", TRUE)>>
    <3>1. PICK ok \in BOOLEAN : calls = <<Found(ok), Mine("connected", TRUE)>>
      BY <2>2
    <3>2. PICK a, b : a = Found(ok) /\ b = Mine("connected", TRUE)
      OBVIOUS
    <3>3. calls = <<a, b>>
      BY <3>1, <3>2
    <3>4. Head(calls) = a /\ Tail(calls) = <<b>>
      BY <3>3
    <3>5. Head(calls).name = "found"
      BY <3>2, <3>4 DEF Found
    <3>6. Tail(calls) = <<Mine("connected", TRUE)>>
      BY <3>2, <3>4
    <3>. QED  BY <1>1, <3>5, <3>6
  <2>. QED  BY <1>1, <2>1, <2>2 DEF Starting
<1>2. CASE Discovered
  <2>1. PICK ok \in BOOLEAN : calls = <<Mine("services", ok)>> /\ (history.faults = 0 => ok)
    BY <1>2 DEF Discovered
  <2>2. Head(calls) = Mine("services", ok) /\ Tail(calls) = <<>>
    BY <2>1
  <2>. QED  BY <1>2, <2>1, <2>2 DEF Mine
<1>3. CASE Subscribed
  <2>1. PICK ok \in BOOLEAN : calls = <<Mine("descriptor", ok)>>
    BY <1>3 DEF Subscribed
  <2>2. Head(calls) = Mine("descriptor", ok) /\ Tail(calls) = <<>>
    BY <2>1
  <2>. QED  BY <1>3, <2>2 DEF Mine
<1>4. CASE Ready
  <2>1. Head(calls) = calls[1] /\ 1 \in DOMAIN calls
    BY TailFacts DEF TypeOK
  <2>2. Head(calls).name \in {"host", "ota", "result", "mtu"}
    BY <1>4, <2>1 DEF Ready
  <2>. QED  BY <1>4, <2>2
<1>. QED  BY <1>1, <1>2, <1>3, <1>4 DEF StageInv, Waiting, Discovering, Undiscovered, Subscribing

LEMMA HandlesOrdered ==
  ASSUME TypeOK, CallsInv, NEW name, Handles(name)
  PROVE  Ordered(calls', history.links)
<1>1. calls # <<>> /\ calls \in Seq(Call) /\ calls' = Tail(calls)
  BY HandlesFacts
<1>2. history.links \in Nat
  BY Numbers DEF TypeOK, History
<1>3. PICK r : r = calls'
  OBVIOUS
<1>4. Ordered(r, history.links)
  BY <1>1, <1>2, <1>3, OrderedTail DEF CallsInv
<1>. QED  BY <1>3, <1>4

LEMMA ChannelCalm ==
  ASSUME TypeOK, ChannelInv, TypeOK', Frame, Ordered(calls', history.links),
         ~client.debugReady => client'.txQueue = 0 /\ client'.ota = None,
         ~client.debugReady /\ stack.state # "down" => stack' = stack /\ flash' = flash,
         stack.state = "connecting" => calls' = calls \/ (calls # <<>> /\ calls' = Tail(calls)),
         stack.state = "up" /\ ~client.debugReady => calls' = calls,
         stack.state = "up" /\ client.debugReady =>
           /\ stack'.op.name # "descriptor"
           /\ \A k \in DOMAIN calls' : calls'[k].name \in {"host", "ota", "result", "mtu"}
  PROVE  ChannelInv'
<1>1. LinkInv /\ CallsInv /\ ConnectingInv /\ StageInv
  BY DEF ChannelInv
<1>2. LinkInv'
  BY <1>1 DEF LinkInv, Frame
<1>3. CallsInv'
  BY DEF CallsInv, Frame
<1>4. ConnectingInv'
  <2>1. SUFFICES ASSUME stack.state = "connecting" PROVE ConnectingInv'
    BY DEF ConnectingInv, Frame
  <2>2. ~client.debugReady /\ stack' = stack /\ flash' = flash
    BY <1>1, <2>1 DEF LinkInv
  <2>3. \A k \in DOMAIN calls :
          calls[k].link # stack.link /\ calls[k].name \in {"connected", "disconnected", "mtu", "found"}
    BY <1>1, <2>1 DEF ConnectingInv
  <2>4. \A k \in DOMAIN calls' :
          calls'[k].link # stack.link /\ calls'[k].name \in {"connected", "disconnected", "mtu", "found"}
    <3>1. CASE calls' = calls
      BY <2>3, <3>1
    <3>2. CASE calls # <<>> /\ calls' = Tail(calls)
      <4>1. \A k \in DOMAIN Tail(calls) : k + 1 \in DOMAIN calls /\ Tail(calls)[k] = calls[k + 1]
        BY <3>2, TailFacts DEF TypeOK
      <4>. QED  BY <2>3, <3>2, <4>1
    <3>. QED  BY <2>1, <3>1, <3>2
  <2>. QED  BY <1>1, <2>1, <2>2, <2>4 DEF ConnectingInv
<1>5. StageInv'
  <2>1. SUFFICES ASSUME stack.state = "up" PROVE StageInv'
    BY DEF StageInv, Frame
  <2>2. CASE client.debugReady
    <3>1. Ready
      BY <1>1, <2>1, <2>2, ReadyIsTheLast
    <3>2. Ready'
      BY <2>1, <2>2, <3>1 DEF Ready, Asked, Frame
    <3>. QED  BY <3>2 DEF StageInv
  <2>3. CASE ~client.debugReady
    <3>1. stack' = stack /\ flash' = flash /\ calls' = calls
      BY <2>1, <2>3
    <3>2. Silent => Silent'
      BY <3>1 DEF Silent, Quiet, Frame
    <3>3. Starting => Starting'
      BY <3>1, <3>2 DEF Starting, Frame, Mine
    <3>4. Waiting => Waiting'
      BY <3>1, <3>2 DEF Waiting, Frame
    <3>5. Discovering => Discovering'
      BY <3>1, <3>2 DEF Discovering, Frame
    <3>6. Discovered => Discovered'
      BY <3>1, <3>2 DEF Discovered, Frame, Asked, Mine
    <3>7. Undiscovered => Undiscovered'
      <4>1. history.faults \in Nat /\ history'.faults \in Nat
        BY Numbers DEF TypeOK, History
      <4>. QED  BY <3>1, <3>2, <4>1 DEF Undiscovered, Frame, Asked
    <3>8. Subscribing => Subscribing'
      BY <3>1 DEF Subscribing, Quiet, Frame, Asked
    <3>9. Subscribed => Subscribed'
      BY <3>1, <3>2 DEF Subscribed, Frame, Asked, Mine
    <3>. QED
      BY <1>1, <2>1, <2>3, <3>3, <3>4, <3>5, <3>6, <3>7, <3>8, <3>9 DEF StageInv, Ready
  <2>. QED  BY <2>2, <2>3
<1>. QED  BY <1>2, <1>3, <1>4, <1>5 DEF ChannelInv

\* A handler of the ready channel, or one of a link that is over.
LEMMA ChannelHandled ==
  ASSUME TypeOK, ChannelInv, TypeOK', Frame, NEW name, Handles(name),
         stack.state = "up" => Ready,
         ~client.debugReady => client'.txQueue = 0 /\ client'.ota = None,
         ~client.debugReady /\ stack.state # "down" => stack' = stack /\ flash' = flash,
         stack'.op = stack.op \/ stack'.op.name # "descriptor"
  PROVE  ChannelInv'
<1>1. calls # <<>> /\ calls \in Seq(Call) /\ calls' = Tail(calls)
  BY HandlesFacts
<1>2. Ordered(calls', history.links)
  BY HandlesOrdered DEF ChannelInv
<1>3. stack.state = "up" =>
        /\ client.debugReady /\ stack'.op.name # "descriptor"
        /\ \A k \in DOMAIN calls' : calls'[k].name \in {"host", "ota", "result", "mtu"}
  <2>1. \A k \in DOMAIN Tail(calls) : k + 1 \in DOMAIN calls /\ Tail(calls)[k] = calls[k + 1]
    BY <1>1, TailFacts
  <2>. QED  BY <1>1, <2>1 DEF Ready
<1>. QED  BY <1>1, <1>2, <1>3, ChannelCalm

\* A Runnable or the user: what is posted stays as it is.
LEMMA ChannelUnposted ==
  ASSUME TypeOK, ChannelInv, TypeOK', Frame, calls' = calls,
         ~client.debugReady => client'.txQueue = 0 /\ client'.ota = None,
         ~client.debugReady /\ stack.state # "down" => stack' = stack /\ flash' = flash,
         stack'.op = stack.op \/ stack'.op.name # "descriptor"
  PROVE  ChannelInv'
<1>1. Ordered(calls', history.links)
  BY DEF ChannelInv, CallsInv
<1>2. stack.state = "up" /\ client.debugReady =>
        /\ stack'.op.name # "descriptor"
        /\ \A k \in DOMAIN calls' : calls'[k].name \in {"host", "ota", "result", "mtu"}
  BY ReadyIsTheLast DEF ChannelInv, Ready
<1>. QED  BY <1>1, <1>2, ChannelCalm

\* Without a link that is up, the stages do not matter.
LEMMA ChannelNotUp ==
  ASSUME TypeOK, ChannelInv, TypeOK', stack.state # "up", stack' = stack, flash' = flash,
         client'.gatt = client.gatt, history'.links = history.links,
         Ordered(calls', history.links),
         calls' = calls \/ (calls # <<>> /\ calls' = Tail(calls)),
         client'.debugReady => client.debugReady,
         ~client'.debugReady => client'.txQueue = 0 /\ client'.ota = None
  PROVE  ChannelInv'
<1>1. LinkInv /\ CallsInv /\ ConnectingInv
  BY DEF ChannelInv
<1>2. LinkInv'
  BY <1>1 DEF LinkInv
<1>3. CallsInv'
  BY DEF CallsInv
<1>4. ConnectingInv'
  <2>1. SUFFICES ASSUME stack.state = "connecting" PROVE ConnectingInv'
    BY DEF ConnectingInv
  <2>2. \A k \in DOMAIN calls :
          calls[k].link # stack.link /\ calls[k].name \in {"connected", "disconnected", "mtu", "found"}
    BY <1>1, <2>1 DEF ConnectingInv
  <2>3. \A k \in DOMAIN calls' :
          calls'[k].link # stack.link /\ calls'[k].name \in {"connected", "disconnected", "mtu", "found"}
    <3>1. CASE calls' = calls
      BY <2>2, <3>1
    <3>2. CASE calls # <<>> /\ calls' = Tail(calls)
      <4>1. \A k \in DOMAIN Tail(calls) : k + 1 \in DOMAIN calls /\ Tail(calls)[k] = calls[k + 1]
        BY <3>2, TailFacts DEF TypeOK
      <4>. QED  BY <2>2, <3>2, <4>1
    <3>. QED  BY <3>1, <3>2
  <2>. QED  BY <1>1, <2>1, <2>3 DEF ConnectingInv
<1>5. StageInv'
  BY DEF StageInv
<1>. QED  BY <1>2, <1>3, <1>4, <1>5 DEF ChannelInv

LEMMA StackEquals ==
  ASSUME NEW a \in Stack, NEW b \in Stack, a.link = b.link, a.state = b.state, a.mtu = b.mtu,
         a.op = b.op, a.discovering = b.discovering, a.mtuAsked = b.mtuAsked,
         a.subscribed = b.subscribed
  PROVE  a = b
BY DEF Stack

LEMMA ChannelHandlers ==
  ASSUME TypeOK, ChannelInv, OnHostWrite \/ OnOtaWrite \/ OnOtaNotify
  PROVE  ChannelInv'
<1>1. LinkInv /\ StageInv
  BY DEF ChannelInv
<1>2. CASE OnHostWrite
  <2>1. /\ TypeOK' /\ Frame /\ MtuKept /\ SessionKept /\ StartKept /\ DataKept
        /\ Handles("host") /\ flash' = flash /\ stack' = stack
        /\ \/ ~client'.writeInProgress /\ client'.txQueue = 0
           \/ /\ client'.writeInProgress = client.writeInProgress
              /\ client'.txQueue = client.txQueue /\ timers'.once["writeNextPacket"] > 0
    BY <1>2, OnHostWriteFacts
  <2>2. stack.state = "up" => Ready
    BY <1>1, <2>1, HandlesFacts, HeadTellsStage
  <2>3. ~client.debugReady => client'.txQueue = 0 /\ client'.ota = None
    BY <1>1, <2>1 DEF LinkInv, SessionKept
  <2>. QED  BY <2>1, <2>2, <2>3, ChannelHandled
<1>3. CASE OnOtaWrite
  <2>1. /\ TypeOK' /\ Frame /\ Handles("ota") /\ flash' = flash /\ stack' = stack
        /\ client'.txQueue = client.txQueue \/ client'.txQueue = 0
        /\ client'.ota = client.ota \/ client'.ota = None
    BY <1>3, OnOtaWriteFacts DEF QueueKept, GaveUp, SessionKept
  <2>2. stack.state = "up" => Ready
    BY <1>1, <2>1, HandlesFacts, HeadTellsStage
  <2>3. ~client.debugReady => client'.txQueue = 0 /\ client'.ota = None
    BY <1>1, <2>1 DEF LinkInv
  <2>. QED  BY <2>1, <2>2, <2>3, ChannelHandled
<1>4. CASE OnOtaNotify
  <2>1. /\ TypeOK' /\ Frame /\ Handles("result") /\ flash' = flash /\ stack' = stack
        /\ client'.txQueue = client.txQueue /\ client'.ota = None
    BY <1>4, OnOtaNotifyFacts DEF QueueKept
  <2>2. stack.state = "up" => Ready
    BY <1>1, <2>1, HandlesFacts, HeadTellsStage
  <2>3. ~client.debugReady => client'.txQueue = 0 /\ client'.ota = None
    BY <1>1, <2>1 DEF LinkInv
  <2>. QED  BY <2>1, <2>2, <2>3, ChannelHandled
<1>. QED  BY <1>2, <1>3, <1>4

LEMMA StreamedOps ==
  ASSUME NEW p, NEW s
  PROVE  /\ StartOp(p).name = "start" /\ StartOp(p).pdu = p /\ StartOp(p).index = 0
         /\ EndOp(s).name = "end" /\ EndOp(s).pdu = s.pdu /\ EndOp(s).index = Chunks(s.pdu)
         /\ DataOp(s).name = "data" /\ DataOp(s).pdu = s.pdu /\ DataOp(s).index = s.nextIndex
BY DEF StartOp, EndOp, DataOp

LEMMA MtuAwaitedOp ==
  ASSUME MtuAwaited
  PROVE  client.ota # None /\ (stack'.op = stack.op \/ stack'.op.name = "start")
<1>1. CASE GaveUp
  BY <1>1 DEF GaveUp, MtuAwaited
<1>2. CASE ~GaveUp
  <2>1. PICK s : s = [client.ota EXCEPT !.waitingForMtu = FALSE]
    OBVIOUS
  <2>2. (\E p \in Pdu : Streamed(StartOp(p), [s EXCEPT !.pdu = p])) \/ Delayed(s)
    BY <1>2, <2>1 DEF MtuAwaited
  <2>3. CASE Delayed(s)
    BY <2>3 DEF Delayed
  <2>4. CASE \E p \in Pdu : Streamed(StartOp(p), [s EXCEPT !.pdu = p])
    <3>1. PICK p \in Pdu : Streamed(StartOp(p), [s EXCEPT !.pdu = p])
      BY <2>4
    <3>2. client.ota # None /\ stack'.op = StartOp(p)
      BY <3>1 DEF Streamed
    <3>. QED  BY <3>2, StreamedOps
  <2>. QED  BY <2>2, <2>3, <2>4
<1>. QED  BY <1>1, <1>2

LEMMA ChannelOnMtu ==
  ASSUME TypeOK, ChannelInv, OnMtuChanged
  PROVE  ChannelInv'
<1>1. LinkInv /\ StageInv
  BY DEF ChannelInv
<1>2. /\ TypeOK' /\ Base /\ MtuKept /\ QueueKept /\ DataKept
      /\ Handles("mtu") /\ flash' = flash /\ timers'.discover = timers.discover
      /\ \/ Frame /\ MtuAwaited
         \/ Discovers(Head(calls).link) /\ SessionKept /\ StartKept
  BY OnMtuChangedFacts
<1>3. stack.state = "up" => Ready
  BY <1>1, <1>2, HandlesFacts, HeadTellsStage
<1>4. CASE Frame /\ MtuAwaited
  <2>1. client.debugReady /\ (stack'.op = stack.op \/ stack'.op.name # "descriptor")
    BY <1>1, <1>4, MtuAwaitedOp DEF LinkInv
  <2>. QED  BY <1>2, <1>3, <1>4, <2>1, ChannelHandled
<1>5. CASE Discovers(Head(calls).link) /\ SessionKept /\ StartKept
  <2>1. ~client.debugReady => client'.txQueue = 0 /\ client'.ota = None
    BY <1>1, <1>2, <1>5 DEF LinkInv, QueueKept, SessionKept
  <2>2. CASE stack.state = "up"
    <3>1. Ready
      BY <1>3, <2>2
    <3>2. client'.discoveryRequested = client.discoveryRequested /\ stack' = stack
      BY <1>5, <3>1 DEF Discovers, Ready, Asked
    <3>3. Frame
      BY <1>2, <3>2 DEF Base, Frame
    <3>. QED  BY <1>2, <2>1, <3>1, <3>2, <3>3, ChannelHandled
  <2>3. CASE stack.state # "up"
    <3>1. stack' = stack
      <4>1. CASE ~client.discoveryRequested /\ client.connected
        <5>1. stack' \in Stack /\ stack \in Stack
          BY <1>2 DEF TypeOK
        <5>2. stack'.discovering = stack.discovering
          BY <1>5, <2>3, <4>1, <5>1 DEF Discovers, Stack
        <5>3. /\ stack'.op = stack.op /\ stack'.mtu = stack.mtu /\ stack'.link = stack.link
              /\ stack'.state = stack.state /\ stack'.mtuAsked = stack.mtuAsked
              /\ stack'.subscribed = stack.subscribed
          BY <1>2, <1>5, <4>1 DEF Discovers, Base, MtuKept
        <5>. QED  BY <5>1, <5>2, <5>3, StackEquals
      <4>2. CASE client.discoveryRequested \/ ~client.connected
        BY <1>5, <4>2 DEF Discovers
      <4>. QED  BY <4>1, <4>2
    <3>2. calls # <<>> /\ calls' = Tail(calls) /\ Ordered(calls', history.links)
      BY <1>2, HandlesFacts, HandlesOrdered DEF ChannelInv
    <3>. QED  BY <1>2, <2>1, <2>3, <3>1, <3>2, ChannelNotUp DEF Base
  <2>. QED  BY <2>2, <2>3
<1>. QED  BY <1>2, <1>4, <1>5

LEMMA ChannelOnConnected ==
  ASSUME TypeOK, ChannelInv, OnConnected
  PROVE  ChannelInv'
<1>1. LinkInv /\ StageInv /\ CallsInv
  BY DEF ChannelInv
<1>2. /\ TypeOK' /\ Handles("connected") /\ flash' = flash /\ stack' = stack
      /\ history' = history /\ QueueKept /\ SessionKept
      /\ client'.gatt = client.gatt /\ client'.debugReady = client.debugReady
      /\ client'.connected /\ ~client'.discoveryRequested
      /\ timers'.discover = timers.discover \cup {Head(calls).link}
  BY <1>1, OnConnectedFacts
<1>3. calls # <<>> /\ calls' = Tail(calls) /\ Ordered(calls', history.links)
  BY <1>1, <1>2, HandlesFacts, HandlesOrdered
<1>4. ~client'.debugReady => client'.txQueue = 0 /\ client'.ota = None
  BY <1>1, <1>2 DEF LinkInv, QueueKept, SessionKept
<1>5. CASE stack.state # "up"
  BY <1>2, <1>3, <1>4, <1>5, ChannelNotUp
<1>6. CASE stack.state = "up"
  <2>1. Starting /\ Tail(calls) = <<>> /\ Head(calls).link = stack.link
    BY <1>1, <1>2, <1>3, <1>6, HandlesFacts, HeadTellsStage
  <2>2. Waiting'
    BY <1>2, <1>3, <2>1 DEF Starting, Waiting, Silent, Quiet
  <2>3. LinkInv'
    BY <1>1, <1>2, <1>4 DEF LinkInv
  <2>4. CallsInv' /\ ConnectingInv' /\ StageInv'
    BY <1>2, <1>3, <1>6, <2>2 DEF CallsInv, ConnectingInv, StageInv
  <2>. QED  BY <2>3, <2>4 DEF ChannelInv
<1>. QED  BY <1>5, <1>6

LEMMA ClosedFacts ==
  /\ Closed.link = NoLink /\ Closed.state = "none" /\ Closed.op = Idle /\ ~Closed.discovering
  /\ Closed.subscribed = 0 /\ ~Closed.mtuAsked
BY DEF Closed

\* The client closes its link.
LEMMA ChannelClosed ==
  ASSUME TypeOK, TypeOK', ChannelInv, stack' = Closed, client'.gatt = NoLink, ~client'.debugReady,
         client'.txQueue = 0, client'.ota = None, history'.links = history.links,
         Ordered(calls', history.links)
  PROVE  ChannelInv'
<1>1. history'.links \in Nat
  BY Numbers DEF TypeOK, History
<1>2. LinkInv'
  BY <1>1, ClosedFacts DEF LinkInv, NoLink
<1>3. CallsInv' /\ ConnectingInv' /\ StageInv'
  BY ClosedFacts DEF CallsInv, ConnectingInv, StageInv
<1>. QED  BY <1>2, <1>3 DEF ChannelInv

LEMMA ChannelOnDisconnected ==
  ASSUME TypeOK, ChannelInv, OnDisconnected
  PROVE  ChannelInv' /\ stack.state # "up"
<1>1. LinkInv /\ StageInv /\ CallsInv
  BY DEF ChannelInv
<1>2. /\ TypeOK' /\ Handles("disconnected") /\ flash' = flash /\ history' = history
      /\ timers' = timers /\ ~client'.debugReady /\ client'.ota = None /\ client'.txQueue = 0
      /\ \/ client.gatt = Head(calls).link /\ client'.gatt = NoLink /\ stack' = Closed
         \/ client.gatt # Head(calls).link /\ client'.gatt = client.gatt /\ stack' = stack
  BY OnDisconnectedFacts
<1>3. calls # <<>> /\ calls' = Tail(calls) /\ Ordered(calls', history.links)
  BY <1>1, <1>2, HandlesFacts, HandlesOrdered
<1>4. stack.state # "up"
  BY <1>1, <1>2, <1>3, HandlesFacts, HeadTellsStage
<1>5. CASE client'.gatt = NoLink /\ stack' = Closed
  BY <1>2, <1>3, <1>4, <1>5, ChannelClosed
<1>6. CASE client'.gatt = client.gatt /\ stack' = stack
  BY <1>2, <1>3, <1>4, <1>6, ChannelNotUp
<1>. QED  BY <1>2, <1>4, <1>5, <1>6

\* Subscribing on a link that is over changes no stage.
LEMMA SubscribeDown ==
  ASSUME TypeOK, ChannelInv, TypeOK', flash' = flash, NEW m \in 0..Notified, NEW chars,
         SubscribeStep(m, chars), stack.state \notin {"up", "connecting"},
         Ordered(calls', history.links)
  PROVE  ChannelInv'
<1>1. LinkInv
  BY DEF ChannelInv
<1>2. /\ client'.gatt = client.gatt /\ history'.links = history.links
      /\ stack'.link = stack.link /\ stack'.state = stack.state
      /\ stack'.discovering = stack.discovering
  BY DEF SubscribeStep
<1>3. CASE client.gatt = NoLink
  <2>1. client'.debugReady = client.debugReady /\ stack' = stack /\ QueueKept /\ SessionKept
    BY <1>3 DEF SubscribeStep
  <2>. QED
    BY <1>1, <1>2, <2>1
    DEF ChannelInv, LinkInv, CallsInv, ConnectingInv, StageInv, QueueKept, SessionKept
<1>4. CASE client.gatt # NoLink
  <2>1. stack.state = "down"
    BY <1>1, <1>4, ClosedFacts DEF LinkInv, TypeOK, Stack
  <2>2. ReadyNow \/ \E n : AskedNext(n)
    BY <1>4 DEF SubscribeStep
  <2>3. \/ client'.debugReady
        \/ ~client'.debugReady /\ client'.txQueue = 0 /\ client'.ota = None
    BY <1>1, <2>2 DEF LinkInv, ReadyNow, AskedNext, QueueKept, SessionKept
  <2>4. LinkInv'
    BY <1>1, <1>2, <1>4, <2>1, <2>3 DEF LinkInv
  <2>. QED  BY <1>2, <2>1, <2>4 DEF ChannelInv, CallsInv, ConnectingInv, StageInv
<1>. QED  BY <1>3, <1>4

\* Subscribing on a link that is up: m characteristics are left.
LEMMA SubscribeUp ==
  ASSUME TypeOK, ChannelInv, TypeOK', flash' = flash, NEW m \in 0..Notified,
         SubscribeStep(m, stack.link), stack.state = "up", Silent, Asked,
         stack.subscribed + m <= 3, history.faults = 0 => stack.subscribed + m = 3,
         calls' = <<>>, Ordered(calls', history.links)
  PROVE  ChannelInv'
<1>1. LinkInv
  BY DEF ChannelInv
<1>2. /\ client'.gatt = client.gatt /\ client'.discoveryRequested = client.discoveryRequested
      /\ client'.chars = stack.link /\ timers'.discover = timers.discover
      /\ history'.links = history.links /\ (history'.faults = 0 => history.faults = 0)
      /\ stack'.link = stack.link /\ stack'.state = stack.state /\ MtuKept
      /\ stack'.subscribed = stack.subscribed /\ stack'.discovering = stack.discovering
  BY DEF SubscribeStep
<1>3. client.gatt # NoLink /\ stack.op = Idle
  BY <1>1 DEF LinkInv, Silent
<1>4. PICK skipped \in 0..m :
        /\ skipped = 0 \/ (skipped = 1 /\ history'.faults > 0)
        /\ \/ skipped = m /\ ReadyNow
           \/ skipped < m /\ AskedNext(m - skipped - 1)
  BY <1>3 DEF SubscribeStep
<1>5. m \in Nat /\ stack.subscribed \in Nat /\ history'.faults \in Nat
  BY Numbers DEF TypeOK, Stack, Notified, History
<1>6. CASE skipped = m /\ ReadyNow
  <2>1. client'.debugReady /\ (stack' = stack \/ QueueMoved)
    BY <1>6 DEF ReadyNow
  <2>2. stack'.op.name # "descriptor"
    BY <1>3, <2>1, OpFacts DEF QueueMoved
  <2>3. history'.faults = 0 => stack'.subscribed = 3
    BY <1>2, <1>4, <1>5, <1>6
  <2>4. Ready'
    BY <1>2, <2>1, <2>2, <2>3 DEF Ready, Asked
  <2>5. LinkInv'
    BY <1>1, <1>2, <2>1 DEF LinkInv
  <2>. QED  BY <1>2, <2>4, <2>5 DEF ChannelInv, CallsInv, ConnectingInv, StageInv
<1>7. CASE skipped < m /\ AskedNext(m - skipped - 1)
  <2>1. /\ client'.debugReady = client.debugReady /\ SessionKept /\ QueueKept
        /\ stack'.op = HostOp("descriptor") /\ client'.notifyQueue = m - skipped - 1
    BY <1>7 DEF AskedNext
  <2>2. /\ stack'.subscribed + client'.notifyQueue <= 2
        /\ history'.faults = 0 => stack'.subscribed + client'.notifyQueue = 2
    BY <1>2, <1>4, <1>5, <2>1
  <2>3. Subscribing'
    BY <1>2, <2>1, <2>2 DEF Subscribing, Silent, Quiet, Asked, MtuKept
  <2>4. LinkInv'
    BY <1>1, <1>2, <2>1 DEF LinkInv, SessionKept, QueueKept, Silent, Quiet
  <2>. QED  BY <1>2, <2>3, <2>4 DEF ChannelInv, CallsInv, ConnectingInv, StageInv
<1>. QED  BY <1>4, <1>6, <1>7

\* A call that cannot be pending while the stack connects.
LEMMA NotConnecting ==
  ASSUME TypeOK, ChannelInv, NEW name, Handles(name),
         name \notin {"connected", "disconnected", "mtu", "found"}
  PROVE  stack.state # "connecting"
BY HandlesFacts DEF ChannelInv, ConnectingInv

LEMMA ChannelOnServices ==
  ASSUME TypeOK, ChannelInv, OnServicesDiscovered
  PROVE  ChannelInv'
<1>1. LinkInv /\ StageInv /\ CallsInv
  BY DEF ChannelInv
<1>2. /\ TypeOK' /\ Handles("services") /\ flash' = flash
      /\ \/ Head(calls).ok /\ SubscribeStep(Notified, Head(calls).link)
         \/ /\ ~Head(calls).ok /\ Frame /\ MtuKept /\ SessionKept /\ QueueKept
            /\ StartKept /\ DataKept /\ stack' = stack
  BY OnServicesDiscoveredFacts
<1>3. calls # <<>> /\ calls' = Tail(calls) /\ Ordered(calls', history.links)
  BY <1>1, <1>2, HandlesFacts, HandlesOrdered
<1>4. stack.state # "connecting"
  BY <1>2, NotConnecting
<1>5. Notified \in 0..Notified /\ Notified = 3
  BY DEF Notified
<1>6. CASE stack.state # "up" /\ Head(calls).ok /\ SubscribeStep(Notified, Head(calls).link)
  <2>1. stack.state \notin {"up", "connecting"}
    BY <1>4, <1>6
  <2>. QED  BY <1>2, <1>3, <1>5, <1>6, <2>1, SubscribeDown
<1>7. CASE stack.state # "up" /\ ~Head(calls).ok /\ Frame /\ SessionKept /\ QueueKept /\ stack' = stack
  <2>1. ~client'.debugReady => client'.txQueue = 0 /\ client'.ota = None
    BY <1>1, <1>7 DEF LinkInv, Frame, QueueKept, SessionKept
  <2>. QED  BY <1>2, <1>3, <1>7, <2>1, ChannelNotUp DEF Frame
<1>8. CASE stack.state = "up"
  <2>1. /\ Discovered /\ Tail(calls) = <<>> /\ Head(calls).link = stack.link
        /\ history.faults = 0 => Head(calls).ok
    BY <1>1, <1>2, <1>3, <1>8, HandlesFacts, HeadTellsStage
  <2>2. CASE Head(calls).ok /\ SubscribeStep(Notified, Head(calls).link)
    <3>1. Silent /\ Asked /\ stack.subscribed = 0
      BY <2>1 DEF Discovered
    <3>2. SubscribeStep(Notified, stack.link)
      BY <2>1, <2>2
    <3>3. stack.subscribed + Notified = 3
      BY <1>5, <3>1
    <3>. QED  BY <1>2, <1>3, <1>5, <1>8, <2>1, <3>1, <3>2, <3>3, SubscribeUp
  <2>3. CASE ~Head(calls).ok /\ Frame /\ MtuKept /\ SessionKept /\ QueueKept /\ stack' = stack
    <3>1. history'.faults > 0
      BY <2>1, <2>3, <1>2, Numbers DEF Frame, TypeOK, History
    <3>2. Undiscovered'
      BY <1>2, <1>3, <2>1, <2>3, <3>1
      DEF Discovered, Undiscovered, Silent, Quiet, Asked, Frame
    <3>3. LinkInv'
      BY <1>1, <2>3 DEF LinkInv, Frame, QueueKept, SessionKept
    <3>. QED
      BY <1>3, <1>8, <2>3, <3>2, <3>3
      DEF ChannelInv, CallsInv, ConnectingInv, StageInv, Frame
  <2>. QED  BY <1>2, <2>2, <2>3
<1>. QED  BY <1>2, <1>6, <1>7, <1>8

LEMMA ChannelOnDescriptor ==
  ASSUME TypeOK, ChannelInv, OnDescriptorWrite
  PROVE  ChannelInv'
<1>1. LinkInv /\ StageInv /\ CallsInv
  BY DEF ChannelInv
<1>2. /\ TypeOK' /\ Handles("descriptor") /\ flash' = flash
      /\ SubscribeStep(client.notifyQueue, client.chars)
  BY OnDescriptorWriteFacts
<1>3. calls # <<>> /\ calls' = Tail(calls) /\ Ordered(calls', history.links)
  BY <1>1, <1>2, HandlesFacts, HandlesOrdered
<1>4. stack.state # "connecting"
  BY <1>2, NotConnecting
<1>5. client.notifyQueue \in 0..Notified
  BY DEF TypeOK, Client
<1>6. CASE stack.state # "up"
  <2>1. stack.state \notin {"up", "connecting"}
    BY <1>4, <1>6
  <2>. QED  BY <1>2, <1>3, <1>5, <2>1, SubscribeDown
<1>7. CASE stack.state = "up"
  <2>1. Subscribed /\ Tail(calls) = <<>>
    BY <1>1, <1>2, <1>3, <1>7, HandlesFacts, HeadTellsStage
  <2>2. /\ Silent /\ Asked /\ client.chars = stack.link
        /\ stack.subscribed + client.notifyQueue <= 3
        /\ history.faults = 0 => stack.subscribed + client.notifyQueue = 3
    BY <2>1 DEF Subscribed
  <2>3. SubscribeStep(client.notifyQueue, stack.link)
    BY <1>2, <2>2
  <2>. QED  BY <1>2, <1>3, <1>5, <1>7, <2>1, <2>2, <2>3, SubscribeUp
<1>. QED  BY <1>6, <1>7

LEMMA ChannelOnFound ==
  ASSUME TypeOK, ChannelInv, OnFound
  PROVE  ChannelInv'
<1>1. LinkInv /\ StageInv /\ CallsInv
  BY DEF ChannelInv
<1>2. /\ TypeOK' /\ Handles("found")
      /\ \/ /\ Frame /\ MtuKept /\ QueueKept /\ SessionKept
            /\ stack' = stack /\ flash' = flash
         \/ /\ ~client.debugReady /\ history'.links = history.links + 1
            /\ client'.gatt = history'.links /\ ~client'.debugReady
            /\ ~client'.writeInProgress /\ client'.txQueue = 0 /\ client'.ota = None
            /\ timers' = timers /\ flash' = NoFlash
            /\ stack' = [Closed EXCEPT !.link = history'.links, !.state = "connecting"]
  BY OnFoundFacts
<1>3. /\ calls # <<>> /\ calls' = Tail(calls) /\ Ordered(calls', history.links)
      /\ calls \in Seq(Call) /\ Head(calls) = calls[1] /\ 1 \in DOMAIN calls
      /\ Head(calls).name = "found"
  BY <1>1, <1>2, HandlesFacts, HandlesOrdered
<1>4. history.links \in Nat
  BY Numbers DEF TypeOK, History
<1>5. CASE Frame /\ MtuKept /\ QueueKept /\ SessionKept /\ stack' = stack /\ flash' = flash
  <2>1. ~client'.debugReady => client'.txQueue = 0 /\ client'.ota = None
    BY <1>1, <1>5 DEF LinkInv, Frame, QueueKept, SessionKept
  <2>2. CASE stack.state # "up"
    BY <1>2, <1>3, <1>5, <2>1, <2>2, ChannelNotUp DEF Frame
  <2>3. CASE stack.state = "up"
    <3>1. Starting /\ calls' = <<Mine("connected", TRUE)>>
      BY <1>1, <1>3, <2>3, HeadTellsStage
    <3>2. Starting'
      BY <1>5, <3>1 DEF Starting, Silent, Quiet, Frame, Mine
    <3>3. LinkInv'
      BY <1>1, <1>5, <2>1 DEF LinkInv, Frame
    <3>. QED
      BY <1>3, <1>5, <2>3, <3>2, <3>3
      DEF ChannelInv, CallsInv, ConnectingInv, StageInv, Frame
  <2>. QED  BY <2>2, <2>3
<1>6. CASE /\ ~client.debugReady /\ history'.links = history.links + 1
           /\ client'.gatt = history'.links /\ ~client'.debugReady
           /\ ~client'.writeInProgress /\ client'.txQueue = 0 /\ client'.ota = None
           /\ timers' = timers /\ flash' = NoFlash
           /\ stack' = [Closed EXCEPT !.link = history'.links, !.state = "connecting"]
  <2>1. PICK n, q : n = history'.links /\ q = calls'
    OBVIOUS
  <2>2. n \in Nat /\ n = history.links + 1 /\ n # NoLink /\ q \in Seq(Call)
    BY <1>2, <1>4, <1>6, <2>1 DEF NoLink, TypeOK
  <2>3. /\ stack' = [Closed EXCEPT !.link = n, !.state = "connecting"]
        /\ stack'.link = n /\ stack'.state = "connecting" /\ ~stack'.discovering
    BY <1>6, <2>1 DEF Closed
  <2>4. LinkInv'
    BY <1>6, <2>1, <2>2, <2>3 DEF LinkInv
  <2>5. Ordered(q, history.links) /\ Ordered(q, n)
    <3>1. PICK m \in Nat : m = history.links
      BY <1>4
    <3>2. m <= n /\ Ordered(q, m)
      BY <1>3, <2>1, <2>2, <3>1
    <3>3. Ordered(q, n)
      BY <2>2, <3>1, <3>2, OrderedLater
    <3>. QED  BY <3>1, <3>2, <3>3
  <2>6. CallsInv'
    BY <2>1, <2>5 DEF CallsInv
  <2>7. \A k \in DOMAIN q : q[k].link # n /\ q[k].name \in {"connected", "disconnected", "mtu"}
    <3>1. ASSUME NEW k \in DOMAIN q
          PROVE  q[k].link # n /\ q[k].name \in {"connected", "disconnected", "mtu"}
      <4>1. k \in Nat \ {0} /\ k + 1 \in DOMAIN calls /\ q[k] = calls[k + 1]
        BY <1>3, <2>1, <3>1, TailFacts
      <4>2. calls[k + 1].name \in {"connected", "disconnected", "mtu"}
        BY <1>1, <1>3, <4>1 DEF CallsInv, Ordered
      <4>3. q[k].link <= history.links /\ q[k] \in Call
        BY <2>2, <2>5, <3>1 DEF Ordered
      <4>4. q[k].link \in Nat
        BY <4>3, BoundAssumption DEF Call, Link, NoLink
      <4>. QED  BY <1>4, <2>2, <4>1, <4>2, <4>3, <4>4
    <3>. QED  BY <3>1
  <2>8. ConnectingInv'
    BY <1>6, <2>1, <2>3, <2>7 DEF ConnectingInv
  <2>9. StageInv'
    BY <2>3 DEF StageInv
  <2>. QED  BY <2>4, <2>6, <2>8, <2>9 DEF ChannelInv
<1>. QED  BY <1>2, <1>5, <1>6

LEMMA ChannelRunDiscover ==
  ASSUME TypeOK, ChannelInv, RunDiscoverServices
  PROVE  ChannelInv'
<1>1. LinkInv /\ StageInv /\ CallsInv
  BY DEF ChannelInv
<1>2. /\ TypeOK' /\ Base /\ MtuKept /\ QueueKept /\ SessionKept
      /\ calls' = calls /\ flash' = flash
  BY RunDiscoverServicesFacts
<1>3. PICK g \in timers.discover : Discovers(g) /\ timers'.discover = timers.discover \ {g}
  BY RunDiscoverServicesFacts
<1>4. ~client'.debugReady => client'.txQueue = 0 /\ client'.ota = None
  BY <1>1, <1>2 DEF LinkInv, Base, QueueKept, SessionKept
<1>5. CASE stack.state # "up"
  <2>1. stack' = stack
    <3>1. CASE ~client.discoveryRequested /\ client.connected
      <4>1. stack' \in Stack /\ stack \in Stack
        BY <1>2 DEF TypeOK
      <4>2. stack'.discovering = stack.discovering
        BY <1>3, <1>5, <3>1, <4>1 DEF Discovers, Stack
      <4>3. /\ stack'.op = stack.op /\ stack'.mtu = stack.mtu /\ stack'.link = stack.link
            /\ stack'.state = stack.state /\ stack'.mtuAsked = stack.mtuAsked
            /\ stack'.subscribed = stack.subscribed
        BY <1>2, <1>3, <3>1 DEF Discovers, Base, MtuKept
      <4>. QED  BY <4>1, <4>2, <4>3, StackEquals
    <3>2. CASE client.discoveryRequested \/ ~client.connected
      BY <1>3, <3>2 DEF Discovers
    <3>. QED  BY <3>1, <3>2
  <2>2. Ordered(calls', history.links)
    BY <1>1, <1>2 DEF CallsInv
  <2>. QED  BY <1>2, <1>4, <1>5, <2>1, <2>2, ChannelNotUp DEF Base
<1>6. CASE stack.state = "up"
  <2>1. Waiting
    BY <1>1, <1>3, <1>6
    DEF StageInv, Starting, Discovering, Discovered, Undiscovered, Subscribing, Subscribed, Ready,
      Asked
  <2>2. g = stack.link /\ timers'.discover = {}
    BY <1>3, <2>1 DEF Waiting
  <2>3. client'.discoveryRequested /\ stack'.op = stack.op /\ stack'.discovering
    BY <1>3, <1>6, <2>1, <2>2 DEF Discovers, Waiting
  <2>4. Discovering'
    BY <1>2, <2>1, <2>2, <2>3 DEF Waiting, Discovering, Silent, Quiet, Base, MtuKept
  <2>5. LinkInv'
    BY <1>1, <1>2, <1>4, <1>6 DEF LinkInv, Base
  <2>. QED
    BY <1>1, <1>2, <1>6, <2>4, <2>5
    DEF ChannelInv, CallsInv, ConnectingInv, StageInv, Base
<1>. QED  BY <1>5, <1>6

LEMMA ChannelRun ==
  ASSUME TypeOK, ChannelInv,
         \/ RunWriteNextPacket \/ RunStartOtaAfterMtu \/ RunWriteOtaStart \/ RunWriteNextOtaData
         \/ SendCommand \/ StartOta
  PROVE  ChannelInv'
<1>1. LinkInv
  BY DEF ChannelInv
<1>2. CASE RunWriteNextPacket
  <2>1. /\ TypeOK' /\ Frame /\ SessionKept /\ calls' = calls /\ flash' = flash /\ QueueMoved
        /\ client.txQueue = 0 => stack' = stack /\ client'.txQueue = 0
    BY <1>2, RunWriteNextPacketFacts
  <2>2. ~client.debugReady => client'.txQueue = 0 /\ client'.ota = None /\ stack' = stack
    BY <1>1, <2>1 DEF LinkInv, SessionKept
  <2>3. stack'.op = stack.op \/ stack'.op.name # "descriptor"
    BY <2>1, OpFacts DEF QueueMoved
  <2>. QED  BY <2>1, <2>2, <2>3, ChannelUnposted
<1>3. CASE RunStartOtaAfterMtu
  <2>1. /\ TypeOK' /\ Frame /\ QueueKept /\ calls' = calls /\ flash' = flash
        /\ \/ SessionKept /\ stack' = stack
           \/ MtuAwaited
    BY <1>3, RunStartOtaAfterMtuFacts
  <2>2. CASE SessionKept /\ stack' = stack
    BY <1>1, <2>1, <2>2, ChannelUnposted DEF LinkInv, SessionKept, QueueKept
  <2>3. CASE MtuAwaited
    <3>1. client.debugReady /\ (stack'.op = stack.op \/ stack'.op.name # "descriptor")
      BY <1>1, <2>3, MtuAwaitedOp DEF LinkInv
    <3>. QED  BY <2>1, <3>1, ChannelUnposted
  <2>. QED  BY <2>1, <2>2, <2>3
<1>4. CASE RunWriteOtaStart
  <2>1. /\ TypeOK' /\ Frame /\ QueueKept /\ calls' = calls /\ flash' = flash
        /\ \/ GaveUp
           \/ \E p \in Pdu : Streamed(StartOp(p), [client.ota EXCEPT !.pdu = p])
           \/ Delayed(client.ota)
    BY <1>4, RunWriteOtaStartFacts
  <2>2. CASE GaveUp
    BY <1>1, <2>1, <2>2, ChannelUnposted DEF LinkInv, GaveUp, QueueKept
  <2>3. CASE Delayed(client.ota)
    BY <1>1, <2>1, <2>3, ChannelUnposted DEF LinkInv, Delayed, QueueKept
  <2>4. CASE \E p \in Pdu : Streamed(StartOp(p), [client.ota EXCEPT !.pdu = p])
    <3>1. PICK p \in Pdu : Streamed(StartOp(p), [client.ota EXCEPT !.pdu = p])
      BY <2>4
    <3>2. client.ota # None /\ stack'.op.name # "descriptor"
      BY <3>1, StreamedOps DEF Streamed
    <3>. QED  BY <1>1, <2>1, <3>2, ChannelUnposted DEF LinkInv
  <2>. QED  BY <2>1, <2>2, <2>3, <2>4
<1>5. CASE RunWriteNextOtaData
  <2>1. PICK s : s = client.ota
    OBVIOUS
  <2>2. /\ TypeOK' /\ Frame /\ QueueKept /\ calls' = calls /\ flash' = flash
        /\ \/ GaveUp
           \/ Streamed(EndOp(s), [s EXCEPT !.endSent = TRUE])
           \/ Streamed(DataOp(s), [s EXCEPT !.nextIndex = @ + 1])
    BY <1>5, <2>1, RunWriteNextOtaDataFacts
  <2>3. CASE GaveUp
    BY <1>1, <2>2, <2>3, ChannelUnposted DEF LinkInv, GaveUp, QueueKept
  <2>4. CASE ~GaveUp
    <3>1. client.ota # None /\ stack'.op.name # "descriptor"
      BY <2>2, <2>4, StreamedOps DEF Streamed
    <3>. QED  BY <1>1, <2>2, <3>1, ChannelUnposted DEF LinkInv
  <2>. QED  BY <2>3, <2>4
<1>6. CASE SendCommand
  <2>1. /\ TypeOK' /\ Frame /\ client.debugReady /\ calls' = calls /\ flash' = flash
        /\ stack' = stack \/ QueueMoved
    BY <1>6, SendCommandFacts
  <2>2. stack'.op = stack.op \/ stack'.op.name # "descriptor"
    BY <2>1, OpFacts DEF QueueMoved
  <2>. QED  BY <2>1, <2>2, ChannelUnposted
<1>7. CASE StartOta
  <2>1. /\ TypeOK' /\ Frame /\ client.debugReady /\ calls' = calls /\ flash' = flash
        /\ stack'.op = stack.op
    BY <1>7, StartOtaFacts
  <2>. QED  BY <2>1, ChannelUnposted
<1>. QED  BY <1>2, <1>3, <1>4, <1>5, <1>6, <1>7

LEMMA ChannelRelease ==
  ASSUME TypeOK, ChannelInv, Release
  PROVE  ChannelInv'
<1>1. /\ TypeOK' /\ calls' = calls /\ history' = history
      /\ stack' = Closed /\ client'.gatt = NoLink /\ ~client'.debugReady
      /\ client'.txQueue = 0 /\ client'.ota = None
  BY ReleaseFacts
<1>2. Ordered(calls', history.links)
  BY <1>1 DEF ChannelInv, CallsInv
<1>. QED  BY <1>1, <1>2, ChannelClosed

LEMMA AppendOne ==
  ASSUME NEW d \in Call, NEW c \in Call
  PROVE  Append(<<d>>, c) = <<d, c>>
<1>1. <<d>> \in Seq(Call) /\ <<d, c>> \in Seq(Call)
  OBVIOUS
<1>2. PICK q \in Seq(Call) : q = Append(<<d>>, c)
  BY <1>1, AppendProperties
<1>5. PICK r \in Seq(Call) : r = <<d, c>>
  BY <1>1
<1>3. Len(q) = 2 /\ Len(r) = 2 /\ \A i \in 1..2 : q[i] = r[i]
  BY <1>1, <1>2, <1>5
<1>4. q = r
  BY <1>3, SeqEqual
<1>. QED  BY <1>2, <1>4, <1>5

LEMMA ChannelScan ==
  ASSUME TypeOK, ChannelInv, Scan
  PROVE  ChannelInv'
<1>1. LinkInv /\ ConnectingInv /\ CallsInv
  BY DEF ChannelInv
<1>2. /\ TypeOK' /\ Frame /\ SessionKept /\ QueueKept
      /\ Found(TRUE) \in Call /\ calls' = Append(calls, Found(TRUE)) /\ ~Posted(calls, "found")
      /\ flash' = flash /\ stack' = stack /\ stack.state # "up" /\ client' = client
  BY ScanFacts
<1>0. history.links \in Nat
  BY Numbers DEF TypeOK, History
<1>3. PICK n \in Nat, c \in Call : n = history.links /\ c = Found(TRUE)
  BY <1>0, <1>2
<1>4. c.name = "found" /\ c.link = NoLink /\ calls \in Seq(Call) /\ calls' = Append(calls, c)
  BY <1>2, <1>3 DEF Found, TypeOK
<1>5. PICK r : r = calls'
  OBVIOUS
<1>6. Ordered(r, n)
  <2>0. c.link <= n
    <3>1. c.link = 0
      BY <1>4 DEF NoLink
    <3>. QED  BY <3>1
  <2>1. Ordered(calls, n) /\ c.link <= n /\ ~Posted(calls, "found")
    <3>1. Ordered(calls, n)
      BY <1>1, <1>3 DEF CallsInv
    <3>. QED  BY <1>2, <2>0, <3>1
  <2>. QED  BY <1>3, <1>4, <1>5, <2>1, OrderedAppend
<1>7. CallsInv'
  BY <1>2, <1>3, <1>5, <1>6 DEF CallsInv, Frame
<1>8. LinkInv'
  BY <1>1, <1>2 DEF LinkInv, Frame
<1>9. stack.state = "connecting" =>
        \A k \in DOMAIN r :
          r[k].link # stack.link /\ r[k].name \in {"connected", "disconnected", "mtu", "found"}
  <2>1. ASSUME stack.state = "connecting", NEW k \in DOMAIN r
        PROVE  r[k].link # stack.link /\ r[k].name \in {"connected", "disconnected", "mtu", "found"}
    <3>1. (k \in DOMAIN calls /\ r[k] = calls[k]) \/ r[k] = c
      BY <1>4, <1>5, <2>1, AppendFacts
    <3>. QED  BY <1>1, <1>4, <2>1, <3>1 DEF ConnectingInv, LinkInv
  <2>. QED  BY <2>1
<1>10. ConnectingInv'
  BY <1>1, <1>2, <1>5, <1>9 DEF ConnectingInv
<1>11. StageInv'
  BY <1>2 DEF StageInv
<1>. QED  BY <1>7, <1>8, <1>10, <1>11 DEF ChannelInv

LEMMA ChannelLinkUp ==
  ASSUME TypeOK, ChannelInv, LinkUp
  PROVE  ChannelInv'
<1>1. LinkInv /\ ConnectingInv /\ CallsInv
  BY DEF ChannelInv
<1>2. /\ TypeOK' /\ stack.state = "connecting" /\ timers.discover = {}
      /\ \A k \in DOMAIN calls : calls[k].link \in {NoLink, stack.link}
      /\ stack' = [stack EXCEPT !.state = "up"] /\ client' = client /\ timers' = timers
      /\ flash' = flash /\ history' = history
      /\ Mine("connected", TRUE) \in Call /\ calls' = Append(calls, Mine("connected", TRUE))
  BY LinkUpFacts
<1>0. history.links \in Nat
  BY Numbers DEF TypeOK, History
<1>3. PICK n \in Nat, c \in Call : n = history.links /\ c = Mine("connected", TRUE)
  BY <1>0, <1>2
<1>4. /\ c.name = "connected" /\ c.link = stack.link /\ calls \in Seq(Call)
      /\ calls' = Append(calls, c)
  BY <1>2, <1>3 DEF Mine, TypeOK
<1>5. PICK r : r = calls'
  OBVIOUS
<1>6. stack.link # NoLink /\ stack.link <= n
  BY <1>1, <1>2, <1>3 DEF LinkInv
<1>7. Ordered(r, n)
  BY <1>1, <1>3, <1>4, <1>5, <1>6, OrderedAppend DEF CallsInv
<1>8. CallsInv'
  BY <1>2, <1>3, <1>5, <1>7 DEF CallsInv
<1>9. /\ stack'.link = stack.link /\ stack'.state = "up" /\ stack'.op = Idle
      /\ ~stack'.discovering /\ ~stack'.mtuAsked /\ stack'.subscribed = 0
      /\ flash = NoFlash /\ ~client.debugReady
  <2>1. stack = [Closed EXCEPT !.link = stack.link, !.state = "connecting"] /\ flash = NoFlash
    BY <1>1, <1>2 DEF ConnectingInv
  <2>2. stack.op = Idle /\ ~stack.discovering /\ ~stack.mtuAsked /\ stack.subscribed = 0
    BY <2>1 DEF Closed
  <2>3. stack \in Stack
    BY DEF TypeOK
  <2>4. ~client.debugReady
    BY <1>1, <1>2 DEF LinkInv
  <2>. QED  BY <1>2, <2>1, <2>2, <2>3, <2>4 DEF Stack
<1>10. LinkInv'
  BY <1>1, <1>2, <1>9 DEF LinkInv
<1>11. \A k \in DOMAIN calls : calls[k].link = NoLink /\ calls[k].name = "found"
  BY <1>1, <1>2 DEF ConnectingInv, CallsInv, Ordered
<1>12. calls = <<>> \/ \E ok \in BOOLEAN : calls = <<Found(ok)>>
  <2>1. CASE Len(calls) >= 2
    <3>1. 1 \in DOMAIN calls /\ 2 \in DOMAIN calls
      BY <1>4, <2>1
    <3>. QED  BY <1>1, <1>11, <3>1 DEF CallsInv, Ordered
  <2>2. CASE Len(calls) = 1
    <3>1. 1 \in DOMAIN calls /\ calls[1] \in Call /\ calls = <<calls[1]>>
      BY <1>4, <2>2
    <3>2. calls[1].ok \in BOOLEAN /\ calls[1] = Found(calls[1].ok)
      BY <1>11, <3>1 DEF Call, Found
    <3>. QED  BY <3>1, <3>2
  <2>3. CASE Len(calls) = 0
    BY <1>4, <2>3
  <2>4. Len(calls) >= 2 \/ Len(calls) = 1 \/ Len(calls) = 0
    <3>1. PICK k \in Nat : k = Len(calls)
      BY <1>4, LenProperties
    <3>2. k >= 2 \/ k = 1 \/ k = 0
      OBVIOUS
    <3>. QED  BY <3>1, <3>2
  <2>. QED  BY <2>1, <2>2, <2>3, <2>4
<1>13. Mine("connected", TRUE)' = c
  BY <1>3, <1>9 DEF Mine
<1>14. calls' = <<c>> \/ \E ok \in BOOLEAN : calls' = <<Found(ok), c>>
  <2>1. CASE calls = <<>>
    BY <1>4, <2>1
  <2>2. CASE \E ok \in BOOLEAN : calls = <<Found(ok)>>
    <3>1. PICK ok \in BOOLEAN : calls = <<Found(ok)>>
      BY <2>2
    <3>2. PICK d \in Call : d = Found(ok)
      BY DEF Found, Call
    <3>3. calls = <<d>> /\ calls' = Append(<<d>>, c)
      BY <1>4, <3>1, <3>2
    <3>4. Append(<<d>>, c) = <<d, c>>
      BY AppendOne
    <3>5. calls' = <<d, c>>
      BY <3>3, <3>4
    <3>. QED  BY <3>2, <3>5
  <2>. QED  BY <1>12, <2>1, <2>2
<1>15. Starting'
  <2>1. Silent'
    BY <1>2, <1>9 DEF Silent, Quiet
  <2>. QED  BY <1>2, <1>9, <1>13, <1>14, <2>1 DEF Starting, Found
<1>16. ConnectingInv' /\ StageInv'
  BY <1>9, <1>15 DEF ConnectingInv, StageInv
<1>. QED  BY <1>8, <1>10, <1>16 DEF ChannelInv

LEMMA ChannelLinkDown ==
  ASSUME TypeOK, ChannelInv, LinkDown
  PROVE  ChannelInv'
<1>1. LinkInv /\ CallsInv
  BY DEF ChannelInv
<1>2. /\ TypeOK' /\ stack.state \in {"connecting", "up"}
      /\ stack' = [Closed EXCEPT !.link = stack.link, !.state = "down"]
      /\ client' = client /\ flash' = flash /\ history' = history
      /\ Mine("disconnected", TRUE) \in Call
      /\ calls' = Append(calls, Mine("disconnected", TRUE))
  BY LinkDownFacts
<1>0. history.links \in Nat
  BY Numbers DEF TypeOK, History
<1>3. PICK n \in Nat, c \in Call : n = history.links /\ c = Mine("disconnected", TRUE)
  BY <1>0, <1>2
<1>4. /\ c.name = "disconnected" /\ c.link = stack.link /\ calls \in Seq(Call)
      /\ calls' = Append(calls, c)
  BY <1>2, <1>3 DEF Mine, TypeOK
<1>5. PICK r : r = calls'
  OBVIOUS
<1>6. stack.link # NoLink /\ stack.link <= n
  BY <1>1, <1>2, <1>3 DEF LinkInv
<1>7. Ordered(r, n)
  BY <1>1, <1>3, <1>4, <1>5, <1>6, OrderedAppend DEF CallsInv
<1>8. CallsInv'
  BY <1>2, <1>3, <1>5, <1>7 DEF CallsInv
<1>9. stack'.link = stack.link /\ stack'.state = "down" /\ ~stack'.discovering
  BY <1>2 DEF Closed
<1>10. LinkInv'
  BY <1>1, <1>2, <1>9 DEF LinkInv
<1>11. ConnectingInv' /\ StageInv'
  BY <1>9 DEF ConnectingInv, StageInv
<1>. QED  BY <1>8, <1>10, <1>11 DEF ChannelInv

LEMMA ChannelServicesFound ==
  ASSUME TypeOK, ChannelInv, ServicesFound
  PROVE  ChannelInv'
<1>1. LinkInv /\ StageInv /\ CallsInv
  BY DEF ChannelInv
<1>2. /\ TypeOK' /\ stack.discovering /\ stack' = [stack EXCEPT !.discovering = FALSE]
      /\ client' = client /\ timers' = timers /\ flash' = flash
      /\ history'.links = history.links /\ (history'.faults = 0 => history.faults = 0)
  BY ServicesFoundFacts
<1>3. PICK ok \in BOOLEAN : /\ Mine("services", ok) \in Call
                            /\ calls' = Append(calls, Mine("services", ok))
                            /\ history'.faults = 0 => ok
  BY ServicesFoundFacts
<1>4. stack.state = "up"
  BY <1>1, <1>2 DEF LinkInv
<1>5. Discovering
  BY <1>1, <1>2, <1>4
  DEF StageInv, Starting, Waiting, Discovered, Undiscovered, Subscribing, Subscribed, Ready, Asked
<1>6. stack \in Stack
  BY DEF TypeOK
<1>7. /\ stack'.link = stack.link /\ stack'.state = "up" /\ ~stack'.discovering
      /\ stack'.op = stack.op /\ stack'.mtuAsked = stack.mtuAsked
      /\ stack'.subscribed = stack.subscribed
  BY <1>2, <1>4, <1>6 DEF Stack
<1>8. PICK c \in Call : c = Mine("services", ok)
  BY <1>3
<1>9. calls' = <<c>> /\ Mine("services", ok)' = c /\ c.link = stack.link /\ c.name = "services"
  BY <1>3, <1>5, <1>7, <1>8 DEF Discovering, Mine
<1>10. Discovered'
  <2>1. Silent' /\ Asked' /\ stack'.subscribed = 0
    BY <1>2, <1>5, <1>7 DEF Discovering, Silent, Quiet, Asked
  <2>. QED  BY <1>3, <1>9, <2>1 DEF Discovered
<1>11. LinkInv'
  BY <1>1, <1>2, <1>4, <1>7 DEF LinkInv
<1>12. CallsInv'
  <2>1. stack.link <= history.links /\ stack.link # NoLink
    BY <1>1, <1>4 DEF LinkInv
  <2>. QED  BY <1>2, <1>9, <2>1 DEF CallsInv, Ordered
<1>13. ConnectingInv' /\ StageInv'
  BY <1>7, <1>10 DEF ConnectingInv, StageInv
<1>. QED  BY <1>11, <1>12, <1>13 DEF ChannelInv

\* What a link that is ready, or over, posts about itself.
LEMMA ChannelPosts ==
  ASSUME TypeOK, ChannelInv, TypeOK', Frame, NEW c \in Call, calls' = Append(calls, c),
         c.link = stack.link, c.name \in {"host", "ota", "result", "mtu"},
         c.name = "mtu" \/ stack.state = "up",
         stack.state = "up" => Ready /\ stack'.op.name # "descriptor",
         stack.state \notin {"none", "connecting"},
         client' = client
  PROVE  ChannelInv'
<1>1. LinkInv /\ CallsInv
  BY DEF ChannelInv
<1>2. PICK n \in Nat : n = history.links
  BY Numbers DEF TypeOK, History
<1>3. PICK r : r = calls'
  OBVIOUS
<1>4. calls \in Seq(Call) /\ r = Append(calls, c) /\ Ordered(calls, n)
  BY <1>1, <1>2, <1>3 DEF TypeOK, CallsInv
<1>5. c.link # NoLink /\ c.link <= n /\ c.name # "found"
  BY <1>1, <1>2 DEF LinkInv, TypeOK, Stack
<1>6. c.name \in {"connected", "disconnected", "mtu"} \/ ~Posted(calls, "found")
  BY DEF Ready, Posted
<1>7. Ordered(r, n)
  BY <1>2, <1>4, <1>5, <1>6, OrderedAppend
<1>8. stack.state = "up" =>
        \A k \in DOMAIN r : r[k].name \in {"host", "ota", "result", "mtu"}
  <2>1. ASSUME stack.state = "up", NEW k \in DOMAIN r
        PROVE  r[k].name \in {"host", "ota", "result", "mtu"}
    <3>1. (k \in DOMAIN calls /\ r[k] = calls[k]) \/ r[k] = c
      BY <1>4, <2>1, AppendFacts
    <3>. QED  BY <2>1, <3>1 DEF Ready
  <2>. QED  BY <2>1
<1>9. ~client.debugReady => client'.txQueue = 0 /\ client'.ota = None
  BY <1>1 DEF LinkInv
<1>10. ~client.debugReady => stack.state = "down"
  BY DEF Ready, TypeOK, Stack
<1>. QED  BY <1>2, <1>3, <1>7, <1>8, <1>9, <1>10, ChannelCalm

LEMMA ChannelMtuSettled ==
  ASSUME TypeOK, ChannelInv, MtuSettled
  PROVE  ChannelInv'
<1>1. /\ TypeOK' /\ stack.mtuAsked /\ Frame /\ stack'.op = stack.op /\ client' = client
  BY MtuSettledFacts
<1>2. PICK ok \in BOOLEAN : Mine("mtu", ok) \in Call /\ calls' = Append(calls, Mine("mtu", ok))
  BY MtuSettledFacts
<1>3. PICK c \in Call : c = Mine("mtu", ok)
  BY <1>2
<1>4. c.name = "mtu" /\ c.link = stack.link /\ calls' = Append(calls, c)
  BY <1>2, <1>3 DEF Mine
<1>5. stack.state = "up" => Ready
  BY <1>1
  DEF ChannelInv, StageInv, Starting, Waiting, Discovering, Discovered, Undiscovered, Subscribing,
    Subscribed, Silent, Quiet
<1>6. stack.state \notin {"none", "connecting"}
  <2>1. stack.state # "none"
    BY <1>1, ClosedFacts DEF ChannelInv, LinkInv
  <2>2. stack.state # "connecting"
    BY <1>1 DEF ChannelInv, ConnectingInv, Closed
  <2>. QED  BY <2>1, <2>2
<1>7. stack.state = "up" => stack'.op.name # "descriptor"
  BY <1>1, <1>5 DEF Ready
<1>. QED  BY <1>1, <1>4, <1>5, <1>6, <1>7, ChannelPosts

LEMMA ChannelResult ==
  ASSUME TypeOK, ChannelInv, Result
  PROVE  ChannelInv'
<1>1. /\ TypeOK' /\ Frame /\ stack' = stack /\ client' = client /\ stack.state = "up"
      /\ flash.state \in {"begun", "ended"}
  BY ResultFacts
<1>2. PICK ok \in BOOLEAN : /\ Mine("result", ok) \in Call
                            /\ calls' = Append(calls, Mine("result", ok))
  BY ResultFacts
<1>3. PICK c \in Call : c = Mine("result", ok)
  BY <1>2
<1>4. c.name = "result" /\ c.link = stack.link /\ calls' = Append(calls, c)
  BY <1>2, <1>3 DEF Mine
<1>5. flash # NoFlash
  BY <1>1 DEF NoFlash
<1>6. Ready
  BY <1>1, <1>5
  DEF ChannelInv, StageInv, Starting, Waiting, Discovering, Discovered, Undiscovered, Subscribing,
    Subscribed, Silent, Quiet
<1>7. stack'.op.name # "descriptor"
  BY <1>1, <1>6 DEF Ready
<1>. QED  BY <1>1, <1>4, <1>6, <1>7, ChannelPosts

LEMMA ChannelWritten ==
  ASSUME TypeOK, ChannelInv, OpInv, Written
  PROVE  ChannelInv'
<1>1. LinkInv /\ CallsInv /\ StageInv
  BY DEF ChannelInv
<1>2. /\ TypeOK' /\ stack.op # Idle /\ stack.op.name # "none" /\ stack.state = "up"
      /\ client' = client /\ timers' = timers
      /\ stack'.link = stack.link /\ stack'.state = stack.state /\ MtuKept
      /\ stack'.discovering = stack.discovering /\ stack'.op = Idle
      /\ history'.links = history.links /\ (history'.faults = 0 => history.faults = 0)
  BY <1>1, WrittenFacts
<1>3. PICK ok \in BOOLEAN :
        /\ Mine(Answer(stack.op), ok) \in Call
        /\ calls' = Append(calls, Mine(Answer(stack.op), ok))
        /\ flash' = IF ok THEN Received(flash, stack.op) ELSE flash
        /\ ok /\ stack.op.name = "descriptor" => stack'.subscribed = stack.subscribed + 1
        /\ stack.op.name # "descriptor" => stack'.subscribed = stack.subscribed
        /\ ~ok => history'.faults > 0 /\ stack'.subscribed = stack.subscribed
  BY <1>1, WrittenFacts
<1>4. PICK c \in Call : c = Mine(Answer(stack.op), ok)
  BY <1>3
<1>5. c.name = Answer(stack.op) /\ c.link = stack.link /\ c.ok = ok /\ calls' = Append(calls, c)
  BY <1>3, <1>4 DEF Mine
<1>6. CASE stack.op.name = "descriptor"
  <2>1. Subscribing
    BY <1>1, <1>2, <1>6, DescriptorMeansSubscribing
  <2>2. c.name = "descriptor"
    BY <1>5, <1>6 DEF Answer
  <2>3. calls' = <<c>>
    BY <1>5, <2>1 DEF Subscribing
  <2>4. Mine("descriptor", ok)' = c
    BY <1>2, <1>4, <1>5, <2>2 DEF Mine, Answer
  <2>5. flash' = NoFlash
    <3>1. flash = NoFlash
      BY <2>1 DEF Subscribing, Quiet
    <3>2. Received(flash, stack.op) = flash
      BY <1>6 DEF Received
    <3>. QED  BY <1>3, <3>1, <3>2
  <2>6. /\ stack'.subscribed + client'.notifyQueue <= 3
        /\ history'.faults = 0 => stack'.subscribed + client'.notifyQueue = 3
    <3>1. PICK a \in Nat, b \in Nat : a = stack.subscribed /\ b = client.notifyQueue
      BY DEF TypeOK, Stack, Client, Notified
    <3>2. a + b <= 2 /\ (history.faults = 0 => a + b = 2)
      BY <2>1, <3>1 DEF Subscribing
    <3>3. client'.notifyQueue = b
      BY <1>2, <3>1
    <3>4. CASE ok
      <4>1. stack'.subscribed = a + 1
        BY <1>3, <1>6, <3>1, <3>4
      <4>. QED  BY <1>2, <3>2, <3>3, <4>1
    <3>5. CASE ~ok
      <4>1. stack'.subscribed = a /\ history'.faults # 0
        BY <1>2, <1>3, <3>1, <3>5 DEF TypeOK, History
      <4>. QED  BY <3>2, <3>3, <4>1
    <3>. QED  BY <3>4, <3>5
  <2>7. Silent' /\ Asked' /\ client'.chars = stack'.link
    BY <1>2, <2>1, <2>5 DEF Silent, Quiet, Subscribing, Asked, MtuKept
  <2>8. Subscribed'
    BY <2>3, <2>4, <2>6, <2>7 DEF Subscribed
  <2>9. stack'.state # "none" /\ stack'.state # "connecting"
    BY <1>2
  <2>10. ConnectingInv' /\ StageInv'
    BY <2>8, <2>9 DEF ConnectingInv, StageInv
  <2>11. LinkInv'
    BY <1>1, <1>2 DEF LinkInv
  <2>12. CallsInv'
    <3>1. stack.link <= history.links /\ stack.link # NoLink
      BY <1>1, <1>2 DEF LinkInv
    <3>. QED  BY <1>2, <1>5, <2>2, <2>3, <3>1 DEF CallsInv, Ordered
  <2>. QED  BY <2>10, <2>11, <2>12 DEF ChannelInv
<1>7. CASE stack.op.name # "descriptor"
  <2>1. Ready
    BY <1>1, <1>2, <1>7, OpFacts
    DEF StageInv, Starting, Waiting, Discovering, Discovered, Undiscovered, Subscribing,
      Subscribed, Silent
  <2>2. c.name \in {"host", "ota"}
    BY <1>5, <1>7 DEF Answer
  <2>3. Frame
    BY <1>2, <1>3, <1>7 DEF Frame
  <2>4. stack'.op.name # "descriptor"
    BY <1>2, OpFacts
  <2>. QED  BY <1>2, <1>5, <2>1, <2>2, <2>3, <2>4, ChannelPosts
<1>. QED  BY <1>6, <1>7

\* Every step keeps the channel as it should be.
LEMMA ChannelStep ==
  ASSUME TypeOK, ChannelInv, OpInv, Next
  PROVE  TypeOK' /\ ChannelInv'
<1>1. CallsInv /\ StageInv
  BY DEF ChannelInv
<1>2. CASE OnConnected
  BY <1>1, <1>2, OnConnectedFacts, ChannelOnConnected
<1>3. CASE OnDisconnected
  BY <1>3, OnDisconnectedFacts, ChannelOnDisconnected
<1>4. CASE OnServicesDiscovered
  BY <1>4, OnServicesDiscoveredFacts, ChannelOnServices
<1>5. CASE OnDescriptorWrite
  BY <1>5, OnDescriptorWriteFacts, ChannelOnDescriptor
<1>6. CASE OnMtuChanged
  BY <1>6, OnMtuChangedFacts, ChannelOnMtu
<1>7. CASE OnHostWrite
  BY <1>7, OnHostWriteFacts, ChannelHandlers
<1>8. CASE OnOtaWrite
  BY <1>8, OnOtaWriteFacts, ChannelHandlers
<1>9. CASE OnOtaNotify
  BY <1>9, OnOtaNotifyFacts, ChannelHandlers
<1>10. CASE OnFound
  BY <1>10, OnFoundFacts, ChannelOnFound
<1>11. CASE RunDiscoverServices
  BY <1>11, RunDiscoverServicesFacts, ChannelRunDiscover
<1>12. CASE RunWriteNextPacket
  BY <1>12, RunWriteNextPacketFacts, ChannelRun
<1>13. CASE RunStartOtaAfterMtu
  BY <1>13, RunStartOtaAfterMtuFacts, ChannelRun
<1>14. CASE RunWriteOtaStart
  BY <1>14, RunWriteOtaStartFacts, ChannelRun
<1>15. CASE RunWriteNextOtaData
  BY <1>15, RunWriteNextOtaDataFacts, ChannelRun
<1>16. CASE SendCommand
  BY <1>16, SendCommandFacts, ChannelRun
<1>17. CASE StartOta
  BY <1>17, StartOtaFacts, ChannelRun
<1>18. CASE Release
  BY <1>18, ReleaseFacts, ChannelRelease
<1>19. CASE Scan
  BY <1>19, ScanFacts, ChannelScan
<1>20. CASE LinkUp
  BY <1>20, LinkUpFacts, ChannelLinkUp
<1>21. CASE LinkDown
  BY <1>21, LinkDownFacts, ChannelLinkDown
<1>22. CASE ServicesFound
  BY <1>22, ServicesFoundFacts, ChannelServicesFound
<1>23. CASE MtuSettled
  BY <1>23, MtuSettledFacts, ChannelMtuSettled
<1>24. CASE Written
  BY <1>1, <1>24, WrittenFacts, ChannelWritten
<1>25. CASE Result
  BY <1>25, ResultFacts, ChannelResult
<1>. QED
  BY <1>2, <1>3, <1>4, <1>5, <1>6, <1>7, <1>8, <1>9, <1>10, <1>11, <1>12, <1>13, <1>14, <1>15,
    <1>16, <1>17, <1>18, <1>19, <1>20, <1>21, <1>22, <1>23, <1>24, <1>25
  DEF Next, Handle, Run, Environment

-----------------------------------------------------------------------------
(* The packet queue. *)

\* How a step keeps the queue moving.
QueueHolds ==
  \/ ~client'.writeInProgress /\ client'.txQueue = 0
  \/ /\ client'.writeInProgress
     /\ timers'.once["writeNextPacket"] > 0 \/ stack'.op.name = "host"
  \/ /\ client'.writeInProgress = client.writeInProgress
     /\ client'.txQueue = client.txQueue \/ client'.txQueue = 0 \/ client'.writeInProgress
     /\ \/ stack'.state = "down"
        \/ timers'.once["writeNextPacket"] > 0
        \/ /\ stack.state # "down"
           /\ timers'.once["writeNextPacket"] = timers.once["writeNextPacket"]
           /\ stack.op.name = "host" => stack'.op.name = "host" \/ Posted(calls', "host")
           /\ Posted(calls, "host") => Posted(calls', "host")

LEMMA QueueStays ==
  ASSUME TypeOK, TypeOK', QueueInv, QueueHolds
  PROVE  QueueInv'
<1>1. client'.txQueue > 0 => client'.writeInProgress
  <2>1. client'.txQueue \in Nat /\ client.txQueue \in Nat
    BY DEF TypeOK, Client
  <2>. QED  BY <2>1 DEF QueueInv, QueueHolds
<1>2. stack'.state # "down" /\ client'.writeInProgress =>
        \/ stack'.op.name = "host" \/ timers'.once["writeNextPacket"] > 0 \/ Posted(calls', "host")
  <2>1. PICK b, d, h : /\ b = timers.once["writeNextPacket"] /\ d = timers'.once["writeNextPacket"]
                       /\ h = client'.writeInProgress
    OBVIOUS
  <2>. QED  BY <2>1 DEF QueueInv, QueueHolds
<1>3. Posted(calls', "host") = Posted(calls, "host")'
  BY DEF Posted
<1>. QED  BY <1>1, <1>2, <1>3 DEF QueueInv

\* What was posted stays posted until it is handled.
LEMMA PostedHandled ==
  ASSUME TypeOK, NEW name, Handles(name), NEW other, other # name
  PROVE  Posted(calls, other) <=> Posted(calls', other)
<1>1. PICK q, r : q = calls /\ r = calls'
  OBVIOUS
<1>2. q \in Seq(Call) /\ q # <<>> /\ r = Tail(q) /\ Head(q).name = name
  BY <1>1, HandlesFacts
<1>3. Posted(q, other) <=> Posted(r, other)
  BY <1>2, PostedTail
<1>. QED  BY <1>1, <1>3

LEMMA PostedPosts ==
  ASSUME TypeOK, NEW c \in Call, calls' = Append(calls, c), NEW name
  PROVE  Posted(calls', name) <=> Posted(calls, name) \/ c.name = name
<1>1. PICK q, r : q = calls /\ r = calls'
  OBVIOUS
<1>2. q \in Seq(Call) /\ r = Append(q, c)
  BY <1>1 DEF TypeOK
<1>3. Posted(r, name) <=> Posted(q, name) \/ c.name = name
  BY <1>2, PostedAppend
<1>. QED  BY <1>1, <1>3

LEMMA QueueMovedHolds ==
  ASSUME QueueMoved
  PROVE  QueueHolds
BY OpFacts DEF QueueMoved, QueueHolds

LEMMA QueueSubscribed ==
  ASSUME TypeOK, ChannelInv, NEW name, name # "host", Handles(name),
         NEW m \in 0..Notified, NEW chars, SubscribeStep(m, chars),
         stack.state = "up" => stack.op = Idle, stack.state # "connecting"
  PROVE  QueueHolds
<1>1. Posted(calls, "host") => Posted(calls', "host")
  BY PostedHandled
<1>2. stack'.state = stack.state
  BY DEF SubscribeStep
<1>3. CASE QueueKept /\ stack' = stack
  BY <1>1, <1>3 DEF QueueHolds, QueueKept
<1>4. CASE client.gatt # NoLink
  <2>1. stack.state # "none"
    BY <1>4, ClosedFacts DEF ChannelInv, LinkInv
  <2>2. stack.state = "down" \/ (stack.state = "up" /\ stack.op.name # "host")
    BY <2>1, OpFacts DEF TypeOK, Stack
  <2>3. PICK skipped \in 0..m : \/ skipped = m /\ ReadyNow
                                \/ skipped < m /\ AskedNext(m - skipped - 1)
    BY <1>4 DEF SubscribeStep
  <2>4. CASE AskedNext(m - skipped - 1)
    BY <1>1, <1>2, <2>2, <2>4 DEF AskedNext, QueueHolds, QueueKept
  <2>5. CASE ReadyNow
    <3>1. CASE QueueMoved
      BY <3>1, QueueMovedHolds
    <3>2. CASE /\ client'.txQueue = 0 \/ client'.writeInProgress
               /\ client'.writeInProgress = client.writeInProgress /\ stack' = stack
               /\ timers' = timers
      BY <1>1, <1>2, <2>2, <3>2 DEF QueueHolds
    <3>. QED  BY <1>3, <2>5, <3>1, <3>2 DEF ReadyNow
  <2>. QED  BY <2>3, <2>4, <2>5
<1>. QED  BY <1>3, <1>4 DEF SubscribeStep

\* A write for the update takes the stack only when it is idle.
LEMMA UpdateLeavesQueue ==
  ASSUME TypeOK, QueueKept, stack'.state = stack.state, calls' = calls \/ Handles("mtu"),
         \/ stack' = stack \/ stack'.op = stack.op \/ stack.op = Idle
  PROVE  QueueHolds
<1>1. Posted(calls, "host") => Posted(calls', "host")
  BY PostedHandled
<1>. QED  BY <1>1, OpFacts DEF QueueHolds, QueueKept

LEMMA QueueStep ==
  ASSUME TypeOK, ChannelInv, OpInv, QueueInv, Next
  PROVE  QueueInv'
<1>1. LinkInv /\ CallsInv /\ StageInv /\ TypeOK'
  BY ChannelStep DEF ChannelInv
<1>2. CASE OnConnected
  <2>1. QueueKept /\ stack' = stack /\ Handles("connected")
    BY <1>1, <1>2, OnConnectedFacts
  <2>2. Posted(calls, "host") => Posted(calls', "host")
    BY <2>1, PostedHandled
  <2>3. QueueHolds
    BY <2>1, <2>2 DEF QueueHolds, QueueKept
  <2>. QED  BY <1>1, <2>3, QueueStays
<1>3. CASE OnDisconnected \/ Release
  <2>1. QueueHolds
    BY <1>3, OnDisconnectedFacts, ReleaseFacts DEF QueueHolds
  <2>. QED  BY <1>1, <2>1, QueueStays
<1>4. CASE OnServicesDiscovered
  <2>1. Handles("services") /\ stack.state # "connecting"
    BY <1>4, OnServicesDiscoveredFacts, NotConnecting
  <2>2. Head(calls).name = "services" /\ calls # <<>>
    BY <2>1, HandlesFacts
  <2>3. stack.state = "up" => stack.op = Idle
    BY <1>1, <2>2, HeadTellsStage DEF Discovered, Silent
  <2>4. CASE Frame /\ QueueKept /\ stack' = stack
    <3>1. Posted(calls, "host") => Posted(calls', "host")
      BY <2>1, PostedHandled
    <3>2. QueueHolds
      BY <2>4, <3>1 DEF QueueHolds, QueueKept
    <3>. QED  BY <1>1, <3>2, QueueStays
  <2>5. CASE SubscribeStep(Notified, Head(calls).link)
    <3>1. PICK g : g = Head(calls).link
      OBVIOUS
    <3>2. Notified \in 0..Notified /\ SubscribeStep(Notified, g)
      BY <2>5, <3>1 DEF Notified
    <3>3. QueueHolds
      BY <2>1, <2>3, <3>2, QueueSubscribed
    <3>. QED  BY <1>1, <3>3, QueueStays
  <2>. QED  BY <1>4, <2>4, <2>5, OnServicesDiscoveredFacts
<1>5. CASE OnDescriptorWrite
  <2>1. /\ Handles("descriptor") /\ stack.state # "connecting"
        /\ SubscribeStep(client.notifyQueue, client.chars)
    BY <1>5, OnDescriptorWriteFacts, NotConnecting
  <2>2. Head(calls).name = "descriptor" /\ calls # <<>>
    BY <2>1, HandlesFacts
  <2>3. stack.state = "up" => stack.op = Idle
    BY <1>1, <2>2, HeadTellsStage DEF Subscribed, Silent
  <2>4. PICK m \in 0..Notified : m = client.notifyQueue
    BY DEF TypeOK, Client
  <2>5. PICK g : g = client.chars
    OBVIOUS
  <2>6. QueueHolds
    BY <2>1, <2>3, <2>4, <2>5, QueueSubscribed
  <2>. QED  BY <1>1, <2>6, QueueStays
<1>6. CASE OnMtuChanged
  <2>1. /\ Base /\ QueueKept /\ Handles("mtu")
        /\ MtuAwaited \/ Discovers(Head(calls).link)
    BY <1>6, OnMtuChangedFacts
  <2>2. stack' = stack \/ stack'.op = stack.op \/ stack.op = Idle
    BY <2>1 DEF MtuAwaited, GaveUp, Streamed, Delayed, Discovers
  <2>3. QueueHolds
    BY <2>1, <2>2, UpdateLeavesQueue DEF Base
  <2>. QED  BY <1>1, <2>3, QueueStays
<1>7. CASE OnHostWrite
  <2>1. QueueHolds
    BY <1>7, OnHostWriteFacts DEF QueueHolds
  <2>. QED  BY <1>1, <2>1, QueueStays
<1>8. CASE OnOtaWrite
  <2>1. Handles("ota") /\ stack' = stack
    BY <1>8, OnOtaWriteFacts
  <2>2. Posted(calls, "host") => Posted(calls', "host")
    BY <2>1, PostedHandled
  <2>3. \/ QueueKept
        \/ ~client'.writeInProgress /\ client'.txQueue = 0
        \/ /\ client'.writeInProgress = client.writeInProgress
           /\ client'.txQueue = client.txQueue /\ timers'.once["writeNextPacket"] > 0
    BY <1>8, OnOtaWriteFacts
  <2>4. QueueHolds
    BY <2>1, <2>2, <2>3 DEF QueueHolds, QueueKept
  <2>. QED  BY <1>1, <2>4, QueueStays
<1>9. CASE OnOtaNotify
  <2>1. QueueKept /\ stack' = stack /\ Handles("result")
    BY <1>9, OnOtaNotifyFacts
  <2>2. Posted(calls, "host") => Posted(calls', "host")
    BY <2>1, PostedHandled
  <2>3. QueueHolds
    BY <2>1, <2>2 DEF QueueHolds, QueueKept
  <2>. QED  BY <1>1, <2>3, QueueStays
<1>10. CASE OnFound
  <2>1. Handles("found")
    BY <1>10, OnFoundFacts
  <2>2. Posted(calls, "host") => Posted(calls', "host")
    BY <2>1, PostedHandled
  <2>3. \/ QueueKept /\ stack' = stack
        \/ ~client'.writeInProgress /\ client'.txQueue = 0
    BY <1>10, OnFoundFacts
  <2>4. QueueHolds
    BY <2>2, <2>3 DEF QueueHolds, QueueKept
  <2>. QED  BY <1>1, <2>4, QueueStays
<1>11. CASE RunDiscoverServices
  <2>1. Base /\ QueueKept /\ calls' = calls
    BY <1>11, RunDiscoverServicesFacts
  <2>2. stack' = stack \/ stack'.op = stack.op
    BY <1>11, RunDiscoverServicesFacts DEF Discovers
  <2>3. QueueHolds
    BY <2>1, <2>2, UpdateLeavesQueue DEF Base
  <2>. QED  BY <1>1, <2>3, QueueStays
<1>12. CASE RunWriteNextPacket
  BY <1>1, <1>12, RunWriteNextPacketFacts, QueueMovedHolds, QueueStays
<1>13. CASE RunStartOtaAfterMtu
  <2>1. Frame /\ QueueKept /\ calls' = calls /\ (stack' = stack \/ MtuAwaited)
    BY <1>13, RunStartOtaAfterMtuFacts
  <2>2. stack' = stack \/ stack'.op = stack.op \/ stack.op = Idle
    BY <2>1 DEF MtuAwaited, GaveUp, Streamed, Delayed
  <2>3. QueueHolds
    BY <2>1, <2>2, UpdateLeavesQueue DEF Frame
  <2>. QED  BY <1>1, <2>3, QueueStays
<1>14. CASE RunWriteOtaStart
  <2>1. Frame /\ QueueKept /\ calls' = calls
    BY <1>14, RunWriteOtaStartFacts
  <2>2. stack' = stack \/ stack'.op = stack.op \/ stack.op = Idle
    BY <1>14, RunWriteOtaStartFacts DEF GaveUp, Streamed, Delayed
  <2>3. QueueHolds
    BY <2>1, <2>2, UpdateLeavesQueue DEF Frame
  <2>. QED  BY <1>1, <2>3, QueueStays
<1>15. CASE RunWriteNextOtaData
  <2>1. PICK s : s = client.ota
    OBVIOUS
  <2>2. /\ Frame /\ QueueKept /\ calls' = calls
        /\ \/ GaveUp
           \/ Streamed(EndOp(s), [s EXCEPT !.endSent = TRUE])
           \/ Streamed(DataOp(s), [s EXCEPT !.nextIndex = @ + 1])
    BY <1>15, <2>1, RunWriteNextOtaDataFacts
  <2>3. stack' = stack \/ stack'.op = stack.op \/ stack.op = Idle
    BY <2>2 DEF GaveUp, Streamed
  <2>4. QueueHolds
    BY <2>2, <2>3, UpdateLeavesQueue DEF Frame
  <2>. QED  BY <1>1, <2>4, QueueStays
<1>16. CASE SendCommand
  <2>1. /\ calls' = calls
        /\ \/ QueueKept /\ stack' = stack
           \/ /\ client'.writeInProgress /\ client.writeInProgress
              /\ stack' = stack /\ timers' = timers
           \/ QueueMoved
    BY <1>16, SendCommandFacts
  <2>2. CASE QueueMoved
    BY <1>1, <2>2, QueueMovedHolds, QueueStays
  <2>3. CASE QueueKept /\ stack' = stack
    <3>1. QueueHolds
      BY <2>1, <2>3 DEF QueueHolds, QueueKept
    <3>. QED  BY <1>1, <3>1, QueueStays
  <2>4. CASE /\ client'.writeInProgress /\ client.writeInProgress
             /\ stack' = stack /\ timers' = timers
    <3>1. QueueInv
      OBVIOUS
    <3>. QED  BY <2>1, <2>4, <3>1 DEF QueueInv, Posted
  <2>. QED  BY <2>1, <2>2, <2>3, <2>4
<1>17. CASE StartOta
  <2>1. QueueHolds
    BY <1>17, StartOtaFacts DEF QueueHolds
  <2>. QED  BY <1>1, <2>1, QueueStays
<1>18. CASE LinkDown
  <2>1. client' = client /\ stack'.state = "down"
    BY <1>18, LinkDownFacts DEF Closed
  <2>2. QueueHolds
    BY <2>1 DEF QueueHolds
  <2>. QED  BY <1>1, <2>2, QueueStays
<1>19. CASE Scan \/ LinkUp \/ ServicesFound \/ MtuSettled \/ Result \/ Written
  <2>1. /\ client' = client /\ timers' = timers
        /\ stack.state = "down" => stack'.state = "down"
    <3>1. stack \in Stack
      BY DEF TypeOK
    <3>2. CASE LinkUp
      BY <3>2, LinkUpFacts
    <3>3. CASE Scan \/ MtuSettled \/ Result
      BY <3>3, ScanFacts, MtuSettledFacts, ResultFacts DEF Frame, Scan, MtuSettled, Result
    <3>4. CASE ServicesFound
      BY <3>1, <3>4, ServicesFoundFacts DEF Stack
    <3>5. CASE Written
      BY <1>1, <3>5, WrittenFacts
    <3>. QED  BY <1>19, <3>2, <3>3, <3>4, <3>5
  <2>2. \E c \in Call : calls' = Append(calls, c)
    BY <1>1, <1>19, ScanFacts, LinkUpFacts, ServicesFoundFacts, MtuSettledFacts, ResultFacts,
      WrittenFacts
  <2>3. Posted(calls, "host") => Posted(calls', "host")
    BY <2>2, PostedPosts
  <2>4. stack.op.name = "host" => stack'.op.name = "host" \/ Posted(calls', "host")
    <3>1. stack \in Stack
      BY DEF TypeOK
    <3>2. CASE Written /\ stack.op.name = "host"
      <4>1. PICK ok \in BOOLEAN : /\ Mine(Answer(stack.op), ok) \in Call
                                  /\ calls' = Append(calls, Mine(Answer(stack.op), ok))
        BY <1>1, <3>2, WrittenFacts
      <4>2. PICK c \in Call : c = Mine(Answer(stack.op), ok)
        BY <4>1
      <4>3. c.name = "host" /\ calls' = Append(calls, c)
        BY <3>2, <4>1, <4>2 DEF Mine, Answer
      <4>. QED  BY <4>3, PostedPosts
    <3>3. CASE Scan \/ MtuSettled \/ Result
      BY <3>3, ScanFacts, MtuSettledFacts, ResultFacts
    <3>4. CASE ServicesFound \/ LinkUp
      BY <3>1, <3>4, ServicesFoundFacts, LinkUpFacts DEF Stack
    <3>. QED  BY <1>19, <3>2, <3>3, <3>4
  <2>5. QueueHolds
    BY <2>1, <2>3, <2>4 DEF QueueHolds
  <2>. QED  BY <1>1, <2>5, QueueStays
<1>. QED
  BY <1>2, <1>3, <1>4, <1>5, <1>6, <1>7, <1>8, <1>9, <1>10, <1>11, <1>12, <1>13, <1>14, <1>15,
    <1>16, <1>17, <1>18, <1>19
  DEF Next, Handle, Run, Environment

-----------------------------------------------------------------------------
(* The update: steps that leave it alone, and steps that drop it. *)

\* The answers and results posted are the same, in the same order.
Before(q, k) == \E j \in DOMAIN q : j < k /\ q[j].name = "result"
OnlyAnswer(q, k) == k \in DOMAIN q /\ \A j \in DOMAIN q : q[j].name = "ota" <=> j = k
SameAnswers(q, r) ==
  /\ Posted(q, "ota") <=> Posted(r, "ota")
  /\ Posted(q, "result") <=> Posted(r, "result")
  /\ \A j \in DOMAIN r : r[j].name = "result" => \E i \in DOMAIN q : q[i] = r[j]
  /\ \A k : OnlyAnswer(q, k) =>
       \E i : OnlyAnswer(r, i) /\ r[i] = q[k] /\ (Before(q, k) => Before(r, i))

LEMMA SameItself ==
  ASSUME NEW q
  PROVE  SameAnswers(q, q)
BY DEF SameAnswers, OnlyAnswer

LEMMA SameTail ==
  ASSUME NEW q \in Seq(Call), q # <<>>, Head(q).name \notin {"ota", "result"}, NEW r, r = Tail(q)
  PROVE  SameAnswers(q, r)
<1>1. (Posted(q, "ota") <=> Posted(r, "ota")) /\ (Posted(q, "result") <=> Posted(r, "result"))
  BY PostedTail
<1>2. \A j \in DOMAIN r : r[j].name = "result" => \E i \in DOMAIN q : q[i] = r[j]
  BY TailFacts
<1>3. ASSUME NEW k, OnlyAnswer(q, k)
      PROVE  \E i : OnlyAnswer(r, i) /\ r[i] = q[k] /\ (Before(q, k) => Before(r, i))
  <2>1. k \in Nat /\ k # 1 /\ k - 1 \in DOMAIN r /\ r[k - 1] = q[k]
    BY <1>3, TailFacts DEF OnlyAnswer
  <2>2. ASSUME NEW j \in DOMAIN r
        PROVE  r[j].name = "ota" <=> j = k - 1
    <3>1. j \in Nat /\ j + 1 \in DOMAIN q /\ r[j] = q[j + 1]
      BY <2>2, TailFacts
    <3>. QED  BY <1>3, <2>1, <3>1 DEF OnlyAnswer
  <2>3. Before(q, k) => Before(r, k - 1)
    <3>1. ASSUME NEW j \in DOMAIN q, j < k, q[j].name = "result"
          PROVE  Before(r, k - 1)
      <4>1. j # 1 /\ j \in Nat
        BY <3>1, TailFacts
      <4>2. j - 1 \in DOMAIN r /\ r[j - 1] = q[j] /\ j - 1 < k - 1
        BY <2>1, <3>1, <4>1, TailFacts
      <4>. QED  BY <3>1, <4>2 DEF Before
    <3>. QED  BY <3>1 DEF Before
  <2>. QED  BY <2>1, <2>2, <2>3 DEF OnlyAnswer
<1>. QED  BY <1>1, <1>2, <1>3 DEF SameAnswers

LEMMA SameAppend ==
  ASSUME NEW q \in Seq(Call), NEW c \in Call, c.name \notin {"ota", "result"}, NEW r, r = Append(q, c)
  PROVE  SameAnswers(q, r)
<1>1. (Posted(q, "ota") <=> Posted(r, "ota")) /\ (Posted(q, "result") <=> Posted(r, "result"))
  BY PostedAppend
<1>2. \A j \in DOMAIN r : r[j].name = "result" => \E i \in DOMAIN q : q[i] = r[j]
  BY AppendFacts
<1>3. ASSUME NEW k, OnlyAnswer(q, k)
      PROVE  \E i : OnlyAnswer(r, i) /\ r[i] = q[k] /\ (Before(q, k) => Before(r, i))
  <2>1. k \in DOMAIN r /\ r[k] = q[k]
    BY <1>3, AppendFacts DEF OnlyAnswer
  <2>2. \A j \in DOMAIN r : r[j].name = "ota" <=> j = k
    BY <1>3, AppendFacts DEF OnlyAnswer
  <2>3. Before(q, k) => Before(r, k)
    BY AppendFacts DEF Before
  <2>. QED  BY <2>1, <2>2, <2>3 DEF OnlyAnswer
<1>. QED  BY <1>1, <1>2, <1>3 DEF SameAnswers

LEMMA SameHandled ==
  ASSUME TypeOK, NEW name, name \notin {"ota", "result"}, Handles(name)
  PROVE  SameAnswers(calls, calls')
<1>1. PICK q, r : q = calls /\ r = calls'
  OBVIOUS
<1>2. q \in Seq(Call) /\ q # <<>> /\ r = Tail(q) /\ Head(q).name = name
  BY <1>1, HandlesFacts
<1>3. SameAnswers(q, r)
  BY <1>2, SameTail
<1>. QED  BY <1>1, <1>3

LEMMA SamePosts ==
  ASSUME TypeOK, NEW c \in Call, c.name \notin {"ota", "result"}, calls' = Append(calls, c)
  PROVE  SameAnswers(calls, calls')
<1>1. PICK q, r : q = calls /\ r = calls'
  OBVIOUS
<1>2. q \in Seq(Call) /\ r = Append(q, c)
  BY <1>1 DEF TypeOK
<1>3. SameAnswers(q, r)
  BY <1>2, SameAppend
<1>. QED  BY <1>1, <1>3

\* The stack's write is the same, none, or as little an OTA packet as before.
SameWrite ==
  \/ stack'.op = stack.op
  \/ stack'.op = Idle
  \/ /\ stack.op.name \notin OtaOps
     /\ stack'.op.name \notin OtaOps /\ stack'.op.name # "none"

LEMMA WriteCases ==
  ASSUME SameWrite
  PROVE  /\ stack'.op.name \in OtaOps => stack'.op = stack.op
         /\ stack.op.name \notin OtaOps => stack'.op.name \notin OtaOps
BY OpFacts DEF SameWrite, OtaOps

\* A step that has nothing to do with the update.
LEMMA UpdateCalm ==
  ASSUME TypeOK, UpdateInv, client'.ota = client.ota, StartKept, DataKept, flash' = flash, SameWrite,
         stack'.state = "up" => stack.state = "up" \/ flash = NoFlash,
         SameAnswers(calls, calls')
  PROVE  UpdateInv'
<1>1. OpInv /\ SessionInv /\ ResultInv
  BY DEF UpdateInv
<1>2. /\ stack'.op.name \in OtaOps => stack'.op = stack.op
      /\ stack.op.name \notin OtaOps => stack'.op.name \notin OtaOps
  BY WriteCases
<1>3. /\ Posted(calls, "ota")' = Posted(calls', "ota")
      /\ Posted(calls, "result")' = Posted(calls', "result")
      /\ StartDue' = StartDue /\ DataDue' = DataDue
  BY DEF Posted, StartKept, DataKept, StartDue, DataDue
<1>4. /\ Posted(calls', "ota") <=> Posted(calls, "ota")
      /\ Posted(calls', "result") <=> Posted(calls, "result")
  BY DEF SameAnswers
<1>5. ResultPosted' <=> ResultPosted
  BY <1>3, <1>4 DEF ResultPosted
<1>6. OpInv'
  <2>1. ~flash'.spoilt /\ (stack'.op.name = "none" => stack'.op = Idle)
    BY <1>1, OpFacts DEF OpInv, SameWrite
  <2>2. stack'.op.name = "data" =>
          \/ flash'.state = "over"
          \/ /\ flash'.state = "begun" /\ flash'.pdu = stack'.op.pdu
             /\ flash'.chunks = stack'.op.index /\ stack'.op.index < Chunks(stack'.op.pdu)
    BY <1>1, <1>2 DEF OpInv, OtaOps
  <2>3. stack'.op.name = "end" =>
          \/ flash'.state = "over"
          \/ /\ flash'.state = "begun" /\ flash'.pdu = stack'.op.pdu
             /\ flash'.chunks = stack'.op.index /\ Full'
             /\ stack'.state = "up" => client'.ota # None /\ client'.ota.endSent
    BY <1>1, <1>2 DEF OpInv, OtaOps, Full, NoFlash
  <2>. QED  BY <2>1, <2>2, <2>3 DEF OpInv
<1>7. ResultInv'
  <2>1. stack'.state = "up" /\ flash'.state = "ended" =>
          client'.ota # None /\ client'.ota.endSent /\ ~Posted(calls', "result")
    BY <1>1, <1>4 DEF ResultInv, NoFlash
  <2>2. ASSUME NEW k \in DOMAIN calls', calls'[k].name = "result", calls'[k].ok
        PROVE  /\ flash'.state = "over" /\ Full' /\ stack'.op.name # "start"
               /\ client'.ota # None => client'.ota.endSent
    <3>1. PICK i \in DOMAIN calls : calls[i] = calls'[k]
      BY <2>2 DEF SameAnswers
    <3>2. /\ flash.state = "over" /\ Full /\ stack.op.name # "start"
          /\ client.ota # None => client.ota.endSent
      BY <1>1, <2>2, <3>1 DEF ResultInv
    <3>. QED  BY <1>2, <3>2 DEF Full, OtaOps
  <2>. QED  BY <1>3, <2>1, <2>2 DEF ResultInv
<1>8. SessionInv'
  <2>1. SUFFICES ASSUME NEW s, s = client.ota, s # None
                 PROVE  /\ \/ AtMtu(s)' \/ AtStart(s)' \/ AtWrite(s)'
                           \/ AtAnswer(s)' \/ AtNext(s)' \/ AtRest(s)'
                        /\ s.endSent => flash'.state # "none" /\ Full'
    BY DEF SessionInv, AtMtu, AtStart, AtWrite, AtAnswer, AtNext, AtRest, Answered, InStep
  <2>2. s.endSent => flash'.state # "none" /\ Full'
    BY <1>1, <2>1 DEF SessionInv, Full
  <2>3. AtMtu(s) \/ AtStart(s) \/ AtWrite(s) \/ AtAnswer(s) \/ AtNext(s) \/ AtRest(s)
    BY <1>1, <2>1 DEF SessionInv
  <2>4. InStep(s)' <=> InStep(s)
    BY DEF InStep
  <2>5. CASE AtMtu(s)
    BY <1>2, <1>3, <1>4, <2>5, <2>2 DEF AtMtu
  <2>6. CASE AtStart(s)
    BY <1>2, <1>3, <1>4, <2>6, <2>2 DEF AtStart
  <2>7. CASE AtNext(s)
    BY <1>2, <1>3, <1>4, <1>5, <2>4, <2>7, <2>2 DEF AtNext
  <2>8. CASE AtRest(s)
    BY <1>2, <1>3, <1>4, <2>8, <2>2 DEF AtRest
  <2>9. CASE AtWrite(s)
    <3>1. CASE stack'.op = stack.op
      BY <1>3, <1>4, <1>5, <2>2, <2>9, <3>1 DEF AtWrite
    <3>2. CASE stack'.op.name \notin OtaOps
      BY <1>3, <1>4, <2>2, <2>9, <3>2 DEF AtWrite, AtRest
    <3>. QED  BY <1>2, <3>1, <3>2
  <2>10. CASE AtAnswer(s)
    <3>1. PICK k \in DOMAIN calls : Answered(s, calls, k)
      BY <2>10 DEF AtAnswer
    <3>2. OnlyAnswer(calls, k)
      BY <3>1 DEF Answered, OnlyAnswer
    <3>3. PICK i : OnlyAnswer(calls', i) /\ calls'[i] = calls[k] /\ (Before(calls, k) => Before(calls', i))
      BY <3>2 DEF SameAnswers
    <3>4. PICK r : r = calls'
      OBVIOUS
    <3>5. /\ i \in DOMAIN r /\ r[i].name = "ota" /\ \A j \in DOMAIN r : r[j].name = "ota" => j = i
          /\ r[i] = calls[k] /\ (Before(calls, k) => Before(r, i))
      BY <3>3, <3>4 DEF OnlyAnswer
    <3>6. r[i].ok /\ ~s.endSent => Before(r, i) \/ (InStep(s)' /\ ResultPosted')
      BY <1>5, <2>4, <3>1, <3>5 DEF Answered, Before
    <3>7. flash'.state = "ended" => r[i].ok
      BY <3>1, <3>5 DEF Answered
    <3>8. Answered(s, r, i)'
      BY <3>5, <3>6, <3>7 DEF Answered, Before
    <3>9. AtAnswer(s)'
      BY <1>2, <1>3, <2>10, <3>4, <3>5, <3>8 DEF AtAnswer
    <3>. QED  BY <2>2, <3>9
  <2>. QED  BY <2>3, <2>5, <2>6, <2>7, <2>8, <2>9, <2>10
<1>. QED  BY <1>6, <1>7, <1>8 DEF UpdateInv

\* The update is dropped, or there was none, and no END is on its way to the
\* pendant.
LEMMA UpdateDropped ==
  ASSUME TypeOK, UpdateInv, client'.ota = None, flash' = flash,
         stack'.op = stack.op \/ stack'.op = Idle,
         \A k \in DOMAIN calls' :
           calls'[k].name = "result" => \E i \in DOMAIN calls : calls[i] = calls'[k],
         stack'.state = "up" =>
           flash.state # "ended" /\ (flash.state = "begun" => stack.op.name # "end")
  PROVE  UpdateInv'
<1>1. OpInv /\ SessionInv /\ ResultInv
  BY DEF UpdateInv
<1>2. OpInv'
  <2>1. CASE stack'.op = stack.op
    BY <1>1, <2>1 DEF OpInv, Full
  <2>2. CASE stack'.op = Idle
    BY <1>1, <2>2, OpFacts DEF OpInv
  <2>. QED  BY <2>1, <2>2
<1>3. SessionInv'
  BY DEF SessionInv
<1>4. ResultInv'
  <2>1. ASSUME NEW k \in DOMAIN calls', calls'[k].name = "result", calls'[k].ok
        PROVE  flash'.state = "over" /\ Full' /\ stack'.op.name # "start"
    <3>1. PICK i \in DOMAIN calls : calls[i] = calls'[k]
      BY <2>1
    <3>2. flash.state = "over" /\ Full /\ stack.op.name # "start"
      BY <1>1, <2>1, <3>1 DEF ResultInv
    <3>. QED  BY <3>2, OpFacts DEF Full
  <2>. QED  BY <2>1 DEF ResultInv
<1>. QED  BY <1>2, <1>3, <1>4 DEF UpdateInv

LEMMA HandledFewer ==
  ASSUME TypeOK, NEW name, Handles(name)
  PROVE  /\ \A k \in DOMAIN calls' : \E i \in DOMAIN calls : calls[i] = calls'[k]
         /\ \A k \in DOMAIN calls' : calls'[k] = calls[k + 1] /\ k + 1 \in DOMAIN calls /\ k \in Nat \ {0}
         /\ \E k \in DOMAIN calls : k = 1 /\ calls[k].name = name /\ calls[k] = Head(calls)
BY HandlesFacts, TailFacts

\* Without an update no END matters any more.
LEMMA NoUpdate ==
  ASSUME UpdateInv, client.ota = None, stack.state = "up"
  PROVE  flash.state # "ended" /\ (flash.state = "begun" => stack.op.name # "end")
BY DEF UpdateInv, OpInv, ResultInv

\* A running update whose END is on its way waits for nothing else.
LEMMA EndOnItsWay ==
  ASSUME UpdateInv, client.ota # None, stack.state = "up",
         flash.state = "ended" \/ (flash.state = "begun" /\ stack.op.name = "end")
  PROVE  /\ StartDue = 0 /\ DataDue = 0 /\ ~client.ota.waitingForMtu /\ client.ota.endSent
         /\ ~Posted(calls, "result")
         /\ Posted(calls, "ota") =>
              \E k \in DOMAIN calls : calls[k].ok /\ \A j \in DOMAIN calls : calls[j].name = "ota" => j = k
<1>1. PICK s : s = client.ota
  OBVIOUS
<1>2. AtMtu(s) \/ AtStart(s) \/ AtWrite(s) \/ AtAnswer(s) \/ AtNext(s) \/ AtRest(s)
  BY <1>1 DEF UpdateInv, SessionInv
<1>3. s.endSent
  BY <1>1 DEF UpdateInv, OpInv, ResultInv
<1>4. CASE flash.state = "begun" /\ stack.op.name = "end"
  <2>1. AtWrite(s)
    BY <1>2, <1>4 DEF AtMtu, AtStart, AtAnswer, AtNext, AtRest, OtaOps
  <2>. QED  BY <1>1, <1>3, <1>4, <2>1 DEF AtWrite, ResultPosted
<1>5. CASE flash.state = "ended"
  <2>1. ~Posted(calls, "result")
    BY <1>5 DEF UpdateInv, ResultInv
  <2>2. CASE AtAnswer(s)
    <3>1. PICK k \in DOMAIN calls : Answered(s, calls, k)
      BY <2>2 DEF AtAnswer
    <3>2. calls[k].ok /\ \A j \in DOMAIN calls : calls[j].name = "ota" => j = k
      BY <1>5, <3>1 DEF Answered
    <3>. QED  BY <1>1, <1>3, <2>1, <2>2, <3>2 DEF AtAnswer
  <2>3. CASE ~AtAnswer(s)
    BY <1>1, <1>2, <1>3, <2>1, <2>3 DEF AtMtu, AtStart, AtNext, AtWrite, AtRest, Unsent
  <2>. QED  BY <2>2, <2>3
<1>. QED  BY <1>4, <1>5

\* The update is given up by one of its own steps.
LEMMA UpdateGivenUp ==
  ASSUME TypeOK, UpdateInv, GaveUp, flash' = flash, calls' = calls \/ Handles("mtu"),
         client.ota = None \/ StartDue > 0 \/ DataDue > 0 \/ client.ota.waitingForMtu
  PROVE  UpdateInv'
<1>1. stack' = stack /\ client'.ota = None
  BY DEF GaveUp
<1>2. \A k \in DOMAIN calls' : \E i \in DOMAIN calls : calls[i] = calls'[k]
  BY HandledFewer
<1>3. stack.state = "up" =>
        flash.state # "ended" /\ (flash.state = "begun" => stack.op.name # "end")
  BY NoUpdate, EndOnItsWay
<1>. QED  BY <1>1, <1>2, <1>3, UpdateDropped

LEMMA UpdateOnNotify ==
  ASSUME TypeOK, UpdateInv, OnOtaNotify
  PROVE  UpdateInv'
<1>1. Handles("result") /\ flash' = flash /\ stack' = stack /\ client'.ota = None
  BY OnOtaNotifyFacts
<1>2. Posted(calls, "result")
  BY <1>1, HandledFewer DEF Posted
<1>3. stack.state = "up" =>
        flash.state # "ended" /\ (flash.state = "begun" => stack.op.name # "end")
  BY <1>2, NoUpdate, EndOnItsWay
<1>4. \A k \in DOMAIN calls' : \E i \in DOMAIN calls : calls[i] = calls'[k]
  BY <1>1, HandledFewer
<1>. QED  BY <1>1, <1>3, <1>4, UpdateDropped

LEMMA UpdateLinkOver ==
  ASSUME TypeOK, ChannelInv, UpdateInv, OnDisconnected \/ Release
  PROVE  UpdateInv'
<1>1. /\ client'.ota = None /\ flash' = flash /\ (stack' = stack \/ stack' = Closed)
      /\ calls' = calls \/ Handles("disconnected")
  BY OnDisconnectedFacts, ReleaseFacts
<1>2. stack'.state # "up"
  BY <1>1, ClosedFacts, ChannelOnDisconnected, ReleaseFacts
<1>3. \A k \in DOMAIN calls' : \E i \in DOMAIN calls : calls[i] = calls'[k]
  BY <1>1, HandledFewer
<1>4. stack'.op = stack.op \/ stack'.op = Idle
  BY <1>1, ClosedFacts
<1>. QED  BY <1>1, <1>2, <1>3, <1>4, UpdateDropped

LEMMA UpdateOnFound ==
  ASSUME TypeOK, ChannelInv, UpdateInv, OnFound
  PROVE  UpdateInv'
<1>1. Handles("found")
  BY OnFoundFacts
<1>2. CASE /\ Frame /\ SessionKept /\ StartKept /\ DataKept /\ stack' = stack /\ flash' = flash
  <2>1. SameAnswers(calls, calls')
    BY <1>1, SameHandled
  <2>. QED  BY <1>2, <2>1, UpdateCalm DEF SessionKept, SameWrite
<1>3. CASE /\ client'.ota = None /\ flash' = NoFlash
           /\ stack' = [Closed EXCEPT !.link = history'.links, !.state = "connecting"]
  <2>1. stack'.op = Idle /\ stack'.state = "connecting"
    BY <1>3 DEF Closed
  <2>2. OpInv'
    BY <1>3, <2>1, OpFacts DEF OpInv, NoFlash
  <2>3. SessionInv'
    BY <1>3 DEF SessionInv
  <2>4. \A k \in DOMAIN calls' : calls'[k].name # "result"
    <3>1. ASSUME NEW k \in DOMAIN calls'
          PROVE  calls'[k].name # "result"
      <4>1. /\ calls'[k] = calls[k + 1] /\ k + 1 \in DOMAIN calls /\ k \in Nat \ {0}
            /\ 1 \in DOMAIN calls /\ calls[1].name = "found"
        BY <1>1, <3>1, HandledFewer
      <4>2. 1 < k + 1
        BY <4>1
      <4>. QED  BY <4>1, <4>2 DEF ChannelInv, CallsInv, Ordered
    <3>. QED  BY <3>1
  <2>5. ResultInv'
    BY <2>1, <2>4 DEF ResultInv
  <2>. QED  BY <2>2, <2>3, <2>5 DEF UpdateInv
<1>. QED  BY <1>2, <1>3, OnFoundFacts

-----------------------------------------------------------------------------
(* The update: its own steps. *)

\* A new session, or one that has sent nothing yet, waits for the MTU or for
\* the packet before START, or has START written.
LEMMA UpdateBegins ==
  ASSUME TypeOK, UpdateInv, NEW t, client'.ota = t, t # None, Unsent(t),
         client.ota = None => ~Posted(calls, "result"),
         client.ota # None => ~client.ota.endSent,
         ~Posted(calls, "ota"), SameAnswers(calls, calls'), flash' = flash,
         stack'.state = stack.state, stack.op.name \notin OtaOps, DataDue' = 0,
         \/ stack'.op = stack.op /\ t.waitingForMtu /\ StartDue' = 0
         \/ stack'.op = stack.op /\ ~t.waitingForMtu /\ StartDue' = 1
         \/ stack'.op = StartOp(t.pdu) /\ ~t.waitingForMtu /\ StartDue' = 0
  PROVE  UpdateInv'
<1>1. OpInv /\ SessionInv /\ ResultInv
  BY DEF UpdateInv
<1>2. stack'.op = stack.op \/ (stack'.op.name = "start" /\ stack'.op.pdu = t.pdu)
  BY DEF StartOp
<1>3. OpInv'
  BY <1>1, <1>2 DEF OpInv, OtaOps
<1>4. \A i \in DOMAIN calls : ~(calls[i].name = "result" /\ calls[i].ok)
  BY <1>1 DEF ResultInv, Posted
<1>5. \A k \in DOMAIN calls' : ~(calls'[k].name = "result" /\ calls'[k].ok)
  BY <1>4 DEF SameAnswers
<1>6. ~(stack'.state = "up" /\ flash'.state = "ended")
  BY <1>1 DEF ResultInv
<1>7. ResultInv'
  BY <1>5, <1>6 DEF ResultInv
<1>8. ~Posted(calls, "ota")'
  BY DEF SameAnswers, Posted
<1>9. AtMtu(t)' \/ AtStart(t)' \/ AtWrite(t)'
  <2>1. CASE stack'.op = stack.op /\ t.waitingForMtu /\ StartDue' = 0
    BY <1>8, <2>1 DEF AtMtu
  <2>2. CASE stack'.op = stack.op /\ ~t.waitingForMtu /\ StartDue' = 1
    BY <1>8, <2>2 DEF AtStart
  <2>3. CASE stack'.op = StartOp(t.pdu) /\ ~t.waitingForMtu /\ StartDue' = 0
    BY <1>8, <2>3 DEF AtWrite, StartOp
  <2>. QED  BY <2>1, <2>2, <2>3
<1>10. SessionInv'
  <2>1. ~t.endSent
    BY DEF Unsent
  <2>. QED  BY <1>9, <2>1 DEF SessionInv, AtMtu, AtStart, AtWrite
<1>. QED  BY <1>3, <1>7, <1>10 DEF UpdateInv

\* The stage of a session that waits for the MTU, or with START due.
LEMMA WaitsBeforeStart ==
  ASSUME TypeOK, UpdateInv, NEW s, s = client.ota, s # None, s.waitingForMtu \/ StartDue > 0
  PROVE  /\ s.waitingForMtu => StartDue = 0
         /\ ~s.waitingForMtu => StartDue = 1
         /\ DataDue = 0 /\ stack.op.name \notin OtaOps /\ ~Posted(calls, "ota") /\ Unsent(s)
BY DEF UpdateInv, SessionInv, AtMtu, AtStart, AtWrite, AtAnswer, AtNext, AtRest

\* The wait for the MTU is over.
LEMMA UpdateMtuAwaited ==
  ASSUME TypeOK, UpdateInv, MtuAwaited, DataKept, flash' = flash, stack'.state = stack.state,
         calls' = calls \/ Handles("mtu")
  PROVE  UpdateInv'
<1>1. PICK s : s = client.ota
  OBVIOUS
<1>2. s # None /\ s.waitingForMtu /\ s \in OtaSession
  BY <1>1 DEF MtuAwaited, TypeOK, Client
<1>3. /\ StartDue = 0 /\ DataDue = 0 /\ stack.op.name \notin OtaOps
      /\ ~Posted(calls, "ota") /\ Unsent(s)
  BY <1>1, <1>2, WaitsBeforeStart
<1>4. SameAnswers(calls, calls')
  BY SameItself, SameHandled
<1>5. DataDue' = 0 /\ ~s.endSent
  BY <1>3 DEF DataKept, DataDue, Unsent
<1>6. CASE GaveUp
  BY <1>1, <1>2, <1>6, UpdateGivenUp
<1>7. CASE StartKept /\ \E p \in Pdu :
             Streamed(StartOp(p), [[client.ota EXCEPT !.waitingForMtu = FALSE] EXCEPT !.pdu = p])
  <2>1. PICK p \in Pdu :
          Streamed(StartOp(p), [[client.ota EXCEPT !.waitingForMtu = FALSE] EXCEPT !.pdu = p])
    BY <1>7
  <2>2. PICK t : t = [[s EXCEPT !.waitingForMtu = FALSE] EXCEPT !.pdu = p]
    OBVIOUS
  <2>3. client'.ota = t /\ stack'.op = StartOp(p)
    BY <1>1, <2>1, <2>2 DEF Streamed
  <2>4. t \in OtaSession /\ t.pdu = p /\ ~t.waitingForMtu /\ Unsent(t)
    BY <1>2, <1>3, <2>2 DEF OtaSession, Unsent
  <2>5. t # None /\ StartDue' = 0
    BY <1>3, <1>7, <2>4, SessionIsOne DEF StartKept, StartDue
  <2>. QED  BY <1>1, <1>2, <1>3, <1>4, <1>5, <2>3, <2>4, <2>5, UpdateBegins
<1>8. CASE /\ Delayed([client.ota EXCEPT !.waitingForMtu = FALSE])
           /\ StartDue' = StartDue + 1
  <2>1. PICK t : t = [s EXCEPT !.waitingForMtu = FALSE]
    OBVIOUS
  <2>2. client'.ota = t /\ stack' = stack /\ StartDue' = 1
    BY <1>1, <1>3, <1>8, <2>1 DEF Delayed
  <2>3. t \in OtaSession /\ ~t.waitingForMtu /\ Unsent(t)
    BY <1>2, <1>3, <2>1 DEF OtaSession, Unsent
  <2>4. t # None
    BY <2>3, SessionIsOne
  <2>. QED  BY <1>1, <1>2, <1>3, <1>4, <1>5, <2>2, <2>3, <2>4, UpdateBegins
<1>. QED  BY <1>6, <1>7, <1>8 DEF MtuAwaited, StartDue

LEMMA UpdateRunStart ==
  ASSUME TypeOK, UpdateInv, RunWriteOtaStart
  PROVE  UpdateInv'
<1>1. PICK s : s = client.ota
  OBVIOUS
<1>2. /\ Frame /\ DataKept /\ calls' = calls /\ flash' = flash /\ StartDue > 0
      /\ \/ GaveUp
         \/ /\ StartDue' = StartDue - 1
            /\ \E p \in Pdu : Streamed(StartOp(p), [s EXCEPT !.pdu = p])
         \/ StartKept /\ Delayed(s)
  BY <1>1, RunWriteOtaStartFacts
<1>3. CASE GaveUp
  BY <1>2, <1>3, UpdateGivenUp
<1>4. CASE ~GaveUp
  <2>1. s # None
    BY <1>1, <1>2, <1>4 DEF Streamed, Delayed
  <2>2. s \in OtaSession
    BY <1>1, <2>1 DEF TypeOK, Client
  <2>3. /\ DataDue = 0 /\ stack.op.name \notin OtaOps /\ ~Posted(calls, "ota") /\ Unsent(s)
        /\ s.waitingForMtu => StartDue = 0
        /\ ~s.waitingForMtu => StartDue = 1
    BY <1>1, <1>2, <2>1, WaitsBeforeStart
  <2>4. ~s.waitingForMtu /\ StartDue = 1
    BY <1>2, <2>2, <2>3 DEF OtaSession
  <2>5. DataDue' = 0 /\ ~s.endSent /\ stack'.state = stack.state /\ SameAnswers(calls, calls')
    BY <1>2, <2>3, SameItself DEF DataKept, DataDue, Unsent, Frame
  <2>6. CASE StartDue' = StartDue - 1 /\ \E p \in Pdu : Streamed(StartOp(p), [s EXCEPT !.pdu = p])
    <3>1. PICK p \in Pdu : Streamed(StartOp(p), [s EXCEPT !.pdu = p])
      BY <2>6
    <3>2. PICK t : t = [s EXCEPT !.pdu = p]
      OBVIOUS
    <3>3. client'.ota = t /\ stack'.op = StartOp(p)
      BY <3>1, <3>2 DEF Streamed
    <3>4. t \in OtaSession /\ t.pdu = p /\ ~t.waitingForMtu /\ Unsent(t)
      BY <2>2, <2>3, <2>4, <3>2 DEF OtaSession, Unsent
    <3>5. t # None /\ StartDue' = 0
      BY <2>4, <2>6, <3>4, SessionIsOne
    <3>. QED  BY <1>1, <1>2, <2>1, <2>3, <2>5, <3>3, <3>4, <3>5, UpdateBegins
  <2>7. CASE StartKept /\ Delayed(s)
    <3>1. client'.ota = s /\ stack' = stack /\ StartDue' = 1
      BY <2>4, <2>7 DEF Delayed, StartKept, StartDue
    <3>. QED  BY <1>1, <1>2, <2>1, <2>3, <2>4, <2>5, <3>1, UpdateBegins
  <2>. QED  BY <1>2, <1>4, <2>6, <2>7
<1>. QED  BY <1>3, <1>4

LEMMA UpdateOnStart ==
  ASSUME TypeOK, UpdateInv, StartOta
  PROVE  UpdateInv'
<1>1. /\ Frame /\ calls' = calls /\ flash' = flash /\ client.ota = None
      /\ stack'.op = stack.op /\ stack.op.name \notin OtaOps
      /\ ~Posted(calls, "ota") /\ ~Posted(calls, "result") /\ DataDue' = 0
      /\ \/ client'.ota = NewSession(FALSE) /\ StartDue' = 1
         \/ client'.ota = NewSession(TRUE) /\ StartDue' = 0
  BY StartOtaFacts
<1>2. PICK t : t = client'.ota
  OBVIOUS
<1>3. /\ Unsent(t)
      /\ \/ ~t.waitingForMtu /\ StartDue' = 1
         \/ t.waitingForMtu /\ StartDue' = 0
  BY <1>1, <1>2 DEF NewSession, Unsent
<1>4. t # None
  <2>1. t \in OtaSession
    <3>1. PICK b \in BOOLEAN : t = [pdu |-> "full", waitingForMtu |-> b, nextIndex |-> 0, endSent |-> FALSE]
      BY <1>1, <1>2 DEF NewSession
    <3>2. "full" \in Pdu /\ 0 \in 0..FallbackChunks
      BY Numbers DEF Pdu
    <3>. QED  BY <3>1, <3>2 DEF OtaSession
  <2>. QED  BY <2>1, SessionIsOne
<1>5. stack'.state = stack.state /\ SameAnswers(calls, calls')
  BY <1>1, SameItself DEF Frame
<1>. QED  BY <1>1, <1>2, <1>3, <1>4, <1>5, UpdateBegins

\* END is written after the last chunk, the next chunk before.
LEMMA UpdateRunData ==
  ASSUME TypeOK, UpdateInv, RunWriteNextOtaData
  PROVE  UpdateInv'
<1>0. OpInv /\ SessionInv /\ ResultInv
  BY DEF UpdateInv
<1>1. PICK s : s = client.ota
  OBVIOUS
<1>2. /\ Frame /\ calls' = calls /\ flash' = flash /\ DataDue > 0
      /\ \/ GaveUp
         \/ /\ StartKept /\ DataDue' = DataDue - 1
            /\ \/ s.nextIndex >= Chunks(s.pdu) /\ Streamed(EndOp(s), [s EXCEPT !.endSent = TRUE])
               \/ s.nextIndex < Chunks(s.pdu) /\ Streamed(DataOp(s), [s EXCEPT !.nextIndex = @ + 1])
  BY <1>1, RunWriteNextOtaDataFacts
<1>3. CASE GaveUp
  BY <1>2, <1>3, UpdateGivenUp
<1>4. CASE ~GaveUp
  <2>1. s # None
    BY <1>1, <1>2, <1>4 DEF Streamed
  <2>2. s \in OtaSession /\ s.pdu \in Pdu /\ s.nextIndex \in Nat
    <3>1. s \in OtaSession
      BY <1>1, <2>1 DEF TypeOK, Client
    <3>. QED  BY <3>1, Numbers DEF OtaSession
  <2>3. AtNext(s)
    BY <1>0, <1>1, <1>2, <2>1 DEF SessionInv, AtMtu, AtStart, AtWrite, AtAnswer, AtRest
  <2>4. /\ ~s.waitingForMtu /\ StartDue' = 0 /\ DataDue' = 0 /\ ~Posted(calls, "ota")'
        /\ stack'.state = stack.state /\ ResultPosted'
    BY <1>2, <1>4, <2>3 DEF AtNext, StartKept, StartDue, ResultPosted, Posted, Frame
  <2>5. Chunks(s.pdu) \in Nat
    BY <2>2, Numbers
  <2>6. \A k \in DOMAIN calls' : ~(calls'[k].name = "result" /\ calls'[k].ok)
    BY <1>0, <1>1, <1>2, <2>1, <2>3 DEF ResultInv, AtNext
  <2>7. flash'.state # "ended"
    BY <1>2, <2>3 DEF AtNext, InStep
  <2>8. ResultInv'
    BY <2>6, <2>7 DEF ResultInv
  <2>9. CASE s.nextIndex >= Chunks(s.pdu) /\ Streamed(EndOp(s), [s EXCEPT !.endSent = TRUE])
    <3>1. PICK t : t = [s EXCEPT !.endSent = TRUE]
      OBVIOUS
    <3>2. t.endSent /\ ~t.waitingForMtu /\ t.pdu = s.pdu
      BY <2>2, <2>4, <3>1 DEF OtaSession
    <3>3. /\ client'.ota = t /\ stack'.op.name = "end" /\ stack'.op.pdu = s.pdu
          /\ stack'.op.index = Chunks(s.pdu)
      BY <2>9, <3>1, StreamedOps DEF Streamed
    <3>4. t # None
      BY <2>2, <3>1, SessionIsOne DEF OtaSession
    <3>5. /\ flash.pdu = s.pdu /\ flash.chunks = Chunks(s.pdu)
          /\ flash.state = "begun" \/ flash.state = "over"
      BY <2>2, <2>3, <2>5, <2>9 DEF AtNext, InStep
    <3>6. Full'
      BY <1>2, <3>5 DEF Full
    <3>7. OpInv'
      BY <1>0, <1>2, <3>2, <3>3, <3>4, <3>5, <3>6 DEF OpInv
    <3>8. AtWrite(t)'
      BY <2>4, <3>2, <3>3 DEF AtWrite
    <3>9. SessionInv'
      BY <1>2, <3>3, <3>5, <3>6, <3>8 DEF SessionInv, AtWrite
    <3>. QED  BY <2>8, <3>7, <3>9 DEF UpdateInv
  <2>10. CASE s.nextIndex < Chunks(s.pdu) /\ Streamed(DataOp(s), [s EXCEPT !.nextIndex = @ + 1])
    <3>1. PICK t : t = [s EXCEPT !.nextIndex = @ + 1]
      OBVIOUS
    <3>2. ~t.endSent /\ ~t.waitingForMtu /\ t.pdu = s.pdu /\ t.nextIndex = s.nextIndex + 1
      BY <2>2, <2>3, <2>4, <3>1 DEF OtaSession, AtNext
    <3>3. /\ client'.ota = t /\ stack'.op.name = "data" /\ stack'.op.pdu = s.pdu
          /\ stack'.op.index = s.nextIndex
      BY <2>10, <3>1, StreamedOps DEF Streamed
    <3>4. flash.pdu = s.pdu /\ flash.chunks = s.nextIndex
          /\ (flash.state = "begun" \/ flash.state = "over")
      BY <2>3 DEF AtNext, InStep
    <3>5. OpInv'
      BY <1>0, <1>2, <2>10, <3>3, <3>4 DEF OpInv
    <3>6. t.nextIndex <= Chunks(t.pdu)
      BY <2>2, <2>5, <2>10, <3>2
    <3>7. AtWrite(t)'
      BY <2>4, <3>2, <3>3, <3>6 DEF AtWrite
    <3>8. SessionInv'
      BY <3>2, <3>3, <3>7 DEF SessionInv, AtWrite
    <3>. QED  BY <2>8, <3>5, <3>8 DEF UpdateInv
  <2>. QED  BY <1>2, <1>4, <2>9, <2>10
<1>. QED  BY <1>3, <1>4

\* An OTA packet was answered: the next one is due, or none.
LEMMA UpdateOnOtaWrite ==
  ASSUME TypeOK, UpdateInv, OnOtaWrite
  PROVE  UpdateInv'
<1>1. OpInv /\ SessionInv /\ ResultInv
  BY DEF UpdateInv
<1>2. /\ Frame /\ StartKept /\ Handles("ota") /\ flash' = flash /\ stack' = stack
      /\ \/ GaveUp /\ ~Head(calls).ok
         \/ SessionKept /\ DataKept /\ client.chars = NoLink
         \/ SessionKept /\ DataKept /\ client.ota # None /\ client.ota.endSent
         \/ /\ SessionKept /\ DataDue' = DataDue + 1 /\ Head(calls).ok
            /\ client.ota = None \/ ~client.ota.endSent
  BY OnOtaWriteFacts
<1>3. PICK h \in DOMAIN calls : h = 1 /\ calls[h].name = "ota" /\ calls[h] = Head(calls)
  BY <1>2, HandledFewer
<1>4. Posted(calls, "ota")
  BY <1>3 DEF Posted
<1>5. \A k \in DOMAIN calls' : \E i \in DOMAIN calls : calls[i] = calls'[k]
  BY <1>2, HandledFewer
<1>6. CASE client'.ota = None
  <2>1. client.ota # None => ~Head(calls).ok
    BY <1>2, <1>6 DEF SessionKept
  <2>2. stack.state = "up" =>
          flash.state # "ended" /\ (flash.state = "begun" => stack.op.name # "end")
    BY <1>3, <1>4, <2>1, NoUpdate, EndOnItsWay
  <2>. QED  BY <1>2, <1>5, <1>6, <2>2, UpdateDropped
<1>7. CASE client'.ota # None
  <2>1. PICK s : s = client.ota
    OBVIOUS
  <2>2. client'.ota = s /\ s # None
    BY <1>2, <1>7, <2>1 DEF GaveUp, SessionKept
  <2>3. AtAnswer(s)
    BY <1>1, <1>4, <2>1, <2>2 DEF SessionInv, AtMtu, AtStart, AtWrite, AtNext, AtRest
  <2>4. Answered(s, calls, h)
    BY <1>3, <2>3 DEF AtAnswer, Answered
  <2>5. ~Posted(calls', "ota")
    <3>1. ASSUME NEW k \in DOMAIN calls', calls'[k].name = "ota"
          PROVE  FALSE
      <4>1. calls'[k] = calls[k + 1] /\ k + 1 \in DOMAIN calls /\ k \in Nat \ {0}
        BY <1>2, <3>1, HandledFewer
      <4>2. k + 1 = h
        BY <2>4, <3>1, <4>1 DEF Answered
      <4>. QED  BY <1>3, <4>1, <4>2
    <3>. QED  BY <3>1 DEF Posted
  <2>6. Posted(calls, "result") <=> Posted(calls', "result")
    BY <1>2, PostedHandled
  <2>7. /\ Posted(calls, "ota")' = Posted(calls', "ota")
        /\ Posted(calls, "result")' = Posted(calls', "result")
    BY DEF Posted
  <2>8. OpInv'
    BY <1>1, <1>2, <2>1, <2>2 DEF OpInv, Full
  <2>9. ResultInv'
    <3>1. stack'.state = "up" /\ flash'.state = "ended" =>
            client'.ota # None /\ client'.ota.endSent /\ ~Posted(calls', "result")
      BY <1>1, <1>2, <2>1, <2>2, <2>6 DEF ResultInv
    <3>2. ASSUME NEW k \in DOMAIN calls', calls'[k].name = "result", calls'[k].ok
          PROVE  /\ flash'.state = "over" /\ Full' /\ stack'.op.name # "start"
                 /\ client'.ota # None => client'.ota.endSent
      <4>1. PICK i \in DOMAIN calls : calls[i] = calls'[k]
        BY <1>5, <3>2
      <4>. QED  BY <1>1, <1>2, <2>1, <2>2, <3>2, <4>1 DEF ResultInv, Full
    <3>. QED  BY <2>7, <3>1, <3>2 DEF ResultInv
  <2>10. s.endSent => flash'.state # "none" /\ Full'
    BY <1>1, <1>2, <2>1, <2>2 DEF SessionInv, Full
  <2>11. ~s.waitingForMtu /\ StartDue' = 0 /\ stack'.op.name \notin OtaOps /\ DataDue = 0
    BY <1>2, <2>3 DEF AtAnswer, StartKept, StartDue
  <2>12. CASE DataKept
    <3>1. AtRest(s)'
      BY <2>5, <2>7, <2>11, <2>12 DEF AtRest, DataKept, DataDue
    <3>. QED  BY <2>2, <2>8, <2>9, <2>10, <3>1 DEF UpdateInv, SessionInv, AtRest
  <2>13. CASE DataDue' = DataDue + 1 /\ Head(calls).ok /\ ~s.endSent
    <3>1. InStep(s) /\ ResultPosted
      <4>1. ~(\E j \in DOMAIN calls : j < h /\ calls[j].name = "result")
        BY <1>3 DEF TypeOK
      <4>. QED  BY <1>3, <2>4, <2>13, <4>1 DEF Answered
    <3>2. InStep(s)' /\ ResultPosted'
      BY <1>2, <2>6, <2>7, <3>1 DEF InStep, ResultPosted
    <3>3. AtNext(s)'
      BY <2>5, <2>7, <2>11, <2>13, <3>2 DEF AtNext
    <3>. QED  BY <2>2, <2>8, <2>9, <2>10, <3>3 DEF UpdateInv, SessionInv, AtNext, InStep
  <2>. QED  BY <1>2, <1>7, <2>1, <2>2, <2>12, <2>13 DEF GaveUp
<1>. QED  BY <1>6, <1>7

\* The pendant notifies a result.
LEMMA UpdateResult ==
  ASSUME TypeOK, UpdateInv, Result
  PROVE  UpdateInv'
<1>1. OpInv /\ SessionInv /\ ResultInv
  BY DEF UpdateInv
<1>2. /\ TypeOK' /\ StartKept /\ DataKept /\ stack' = stack /\ client' = client /\ stack.state = "up"
      /\ flash.state \in {"begun", "ended"} /\ flash' = [flash EXCEPT !.state = "over"]
  BY ResultFacts
<1>3. PICK ok \in BOOLEAN : /\ Mine("result", ok) \in Call
                            /\ calls' = Append(calls, Mine("result", ok))
                            /\ ok => flash.state = "ended"
  BY ResultFacts
<1>4. PICK c \in Call : c = Mine("result", ok)
  BY <1>3
<1>5. c.name = "result" /\ c.ok = ok /\ calls' = Append(calls, c)
  BY <1>3, <1>4 DEF Mine
<1>6. PICK q, r : q = calls /\ r = calls'
  OBVIOUS
<1>7. q \in Seq(Call) /\ r = Append(q, c)
  BY <1>5, <1>6 DEF TypeOK
<1>8. Posted(r, "result") /\ (Posted(r, "ota") <=> Posted(q, "ota"))
  BY <1>5, <1>7, PostedAppend
<1>9. /\ flash'.state = "over" /\ flash'.pdu = flash.pdu /\ flash'.chunks = flash.chunks
      /\ flash'.spoilt = flash.spoilt
  BY <1>2 DEF TypeOK, Flash
<1>10. /\ Posted(calls, "ota")' <=> Posted(calls, "ota")
       /\ ResultPosted'
  BY <1>6, <1>8, <1>9 DEF Posted, ResultPosted
<1>11. Full' <=> Full
  BY <1>9 DEF Full
<1>12. OpInv'
  BY <1>1, <1>2, <1>9 DEF OpInv
<1>13. ResultInv'
  <2>1. \A k \in DOMAIN calls : ~(calls[k].name = "result" /\ calls[k].ok)
    BY <1>1, <1>2 DEF ResultInv
  <2>2. ok => client.ota # None /\ client.ota.endSent /\ Full
    BY <1>1, <1>2, <1>3 DEF ResultInv, SessionInv
  <2>3. ok => stack.op.name # "start"
    BY <1>1, <2>2
    DEF SessionInv, AtMtu, AtStart, AtWrite, AtAnswer, AtNext, AtRest, Unsent, OtaOps
  <2>4. ASSUME NEW k \in DOMAIN r, r[k].name = "result", r[k].ok
        PROVE  ok
    <3>1. (k \in DOMAIN q /\ r[k] = q[k]) \/ r[k] = c
      BY <1>7, <2>4, AppendFacts
    <3>. QED  BY <1>5, <1>6, <2>1, <2>4, <3>1
  <2>. QED  BY <1>2, <1>6, <1>9, <1>11, <2>2, <2>3, <2>4 DEF ResultInv
<1>14. SessionInv'
  <2>1. SUFFICES ASSUME NEW s, s = client.ota, s # None
                 PROVE  /\ \/ AtMtu(s)' \/ AtStart(s)' \/ AtWrite(s)'
                           \/ AtAnswer(s)' \/ AtNext(s)' \/ AtRest(s)'
                        /\ s.endSent => flash'.state # "none" /\ Full'
    BY <1>2 DEF SessionInv, AtMtu, AtStart, AtWrite, AtAnswer, AtNext, AtRest, Answered, InStep
  <2>2. s.endSent => flash'.state # "none" /\ Full'
    BY <1>1, <1>9, <1>11, <2>1 DEF SessionInv
  <2>3. AtMtu(s) \/ AtStart(s) \/ AtWrite(s) \/ AtAnswer(s) \/ AtNext(s) \/ AtRest(s)
    BY <1>1, <2>1 DEF SessionInv
  <2>4. InStep(s) => InStep(s)'
    BY <1>9 DEF InStep
  <2>5. StartDue' = StartDue /\ DataDue' = DataDue
    BY <1>2 DEF StartKept, DataKept, StartDue, DataDue
  <2>6. CASE ~AtAnswer(s)
    <3>1. AtMtu(s) => AtMtu(s)'
      BY <1>2, <1>10, <2>5 DEF AtMtu
    <3>2. AtStart(s) => AtStart(s)'
      BY <1>2, <1>10, <2>5 DEF AtStart
    <3>3. AtWrite(s) => AtWrite(s)'
      BY <1>2, <1>10, <2>5 DEF AtWrite
    <3>4. AtNext(s) => AtNext(s)'
      BY <1>2, <1>10, <2>4, <2>5 DEF AtNext
    <3>5. AtRest(s) => AtRest(s)'
      BY <1>2, <1>10, <2>5 DEF AtRest
    <3>. QED  BY <2>2, <2>3, <2>6, <3>1, <3>2, <3>3, <3>4, <3>5
  <2>7. CASE AtAnswer(s)
    <3>1. PICK k \in DOMAIN calls : Answered(s, calls, k)
      BY <2>7 DEF AtAnswer
    <3>2. k \in DOMAIN r /\ r[k] = q[k] /\ \A j \in DOMAIN q : j \in DOMAIN r /\ r[j] = q[j]
      BY <1>6, <1>7, <3>1, AppendFacts
    <3>3. \A j \in DOMAIN r : r[j].name = "ota" => j \in DOMAIN q /\ r[j] = q[j]
      BY <1>5, <1>7, AppendFacts
    <3>4. \A j \in DOMAIN r : r[j].name = "ota" => j = k
      BY <1>6, <3>1, <3>3 DEF Answered
    <3>5. r[k].name = "ota" /\ (r[k].ok /\ ~s.endSent =>
              (\E j \in DOMAIN r : j < k /\ r[j].name = "result") \/ (InStep(s)' /\ ResultPosted'))
      BY <1>6, <1>10, <2>4, <3>1, <3>2 DEF Answered
    <3>6. Answered(s, r, k)'
      BY <1>9, <3>2, <3>4, <3>5 DEF Answered
    <3>7. AtAnswer(s)'
      BY <1>2, <1>6, <2>5, <2>7, <3>2, <3>6 DEF AtAnswer
    <3>. QED  BY <2>2, <3>7
  <2>. QED  BY <2>6, <2>7
<1>. QED  BY <1>12, <1>13, <1>14 DEF UpdateInv

\* The write of an OTA packet is over: the pendant has it, unless it failed.
LEMMA UpdateWrittenOta ==
  ASSUME TypeOK, StageInv, UpdateInv, Written, stack.op.name \in OtaOps
  PROVE  UpdateInv'
<1>1. OpInv /\ SessionInv /\ ResultInv
  BY DEF UpdateInv
<1>2. /\ TypeOK' /\ stack.state = "up" /\ client' = client /\ timers' = timers
      /\ stack'.state = stack.state /\ stack'.op = Idle
  BY <1>1, WrittenFacts
<1>3. PICK ok \in BOOLEAN : /\ Mine(Answer(stack.op), ok) \in Call
                            /\ calls' = Append(calls, Mine(Answer(stack.op), ok))
                            /\ flash' = IF ok THEN Received(flash, stack.op) ELSE flash
  BY <1>1, WrittenFacts
<1>4. PICK c \in Call : c = Mine(Answer(stack.op), ok)
  BY <1>3
<1>5. c.name = "ota" /\ c.ok = ok /\ calls' = Append(calls, c)
  BY <1>3, <1>4 DEF Mine, Answer, OtaOps
<1>6. PICK q, r : q = calls /\ r = calls'
  OBVIOUS
<1>7. q \in Seq(Call) /\ r = Append(q, c)
  BY <1>5, <1>6 DEF TypeOK
<1>8. Posted(r, "ota") /\ (Posted(r, "result") <=> Posted(q, "result"))
  BY <1>5, <1>7, PostedAppend
<1>9. PICK f : f = Received(flash, stack.op)
  OBVIOUS
<1>10. /\ f \in Flash /\ ~f.spoilt
       /\ stack.op.name = "start" =>
            f.state = "begun" /\ f.pdu = stack.op.pdu /\ f.chunks = 0
       /\ stack.op.name = "data" =>
            \/ flash.state = "over" /\ f = flash
            \/ flash.state = "begun" /\ f = [flash EXCEPT !.chunks = @ + 1]
       /\ stack.op.name = "end" =>
            \/ flash.state = "over" /\ f = flash
            \/ flash.state = "begun" /\ f = [flash EXCEPT !.state = "ended"]
  BY <1>1, <1>9, ReceivedFacts
<1>11. flash' = f \/ (~ok /\ flash' = flash)
  BY <1>3, <1>9
<1>12. flash \in Flash
  BY DEF TypeOK
<1>13. OpInv'
  BY <1>1, <1>2, <1>10, <1>11, OpFacts DEF OpInv
<1>14. stack.op.name = "end" /\ flash.state = "begun" =>
         client.ota # None /\ client.ota.endSent /\ ~Posted(calls, "result")
  BY <1>1, <1>2, EndOnItsWay DEF OpInv
<1>15. stack.op.name = "end" /\ flash' = f =>
         flash'.pdu = flash.pdu /\ flash'.chunks = flash.chunks /\ flash'.state \in {"ended", "over"}
  BY <1>10, <1>12 DEF Flash
<1>16. ResultInv'
  <2>1. ASSUME flash'.state = "ended"
        PROVE  client.ota # None /\ client.ota.endSent /\ ~Posted(calls, "result")
    <3>1. flash.state # "ended" => stack.op.name = "end" /\ flash.state = "begun"
      BY <1>10, <1>11, <1>12, <2>1 DEF Flash, OtaOps
    <3>2. flash.state = "ended" => client.ota # None /\ client.ota.endSent /\ ~Posted(calls, "result")
      BY <1>1, <1>2 DEF ResultInv
    <3>. QED  BY <1>14, <3>1, <3>2
  <2>2. ASSUME NEW k \in DOMAIN r, r[k].name = "result", r[k].ok
        PROVE  /\ flash'.state = "over" /\ Full' /\ stack'.op.name # "start"
               /\ client.ota # None => client.ota.endSent
    <3>1. k \in DOMAIN q /\ r[k] = q[k]
      BY <1>5, <1>7, <2>2, AppendFacts
    <3>2. /\ flash.state = "over" /\ Full /\ stack.op.name # "start"
          /\ client.ota # None => client.ota.endSent
      BY <1>1, <1>6, <2>2, <3>1 DEF ResultInv
    <3>3. flash' = flash
      BY <1>10, <1>11, <3>2 DEF OtaOps
    <3>. QED  BY <1>2, <3>2, <3>3, OpFacts DEF Full
  <2>. QED  BY <1>2, <1>6, <1>8, <2>1, <2>2 DEF ResultInv, Posted
<1>17. CASE client.ota = None
  BY <1>2, <1>13, <1>16, <1>17 DEF UpdateInv, SessionInv
<1>18. CASE client.ota # None
  <2>1. PICK s : s = client.ota
    OBVIOUS
  <2>2. s # None /\ s \in OtaSession
    BY <1>18, <2>1 DEF TypeOK, Client
  <2>3. AtWrite(s)
    BY <1>1, <2>1, <2>2 DEF SessionInv, AtMtu, AtStart, AtAnswer, AtNext, AtRest
  <2>4. PICK k : k = Len(q) + 1
    OBVIOUS
  <2>5. k \in DOMAIN r /\ r[k] = c /\ \A j \in DOMAIN q : j < k /\ j \in DOMAIN r /\ r[j] = q[j]
    BY <1>7, <2>4, AppendFacts
  <2>6. \A j \in DOMAIN r : r[j].name = "ota" => j = k
    <3>1. ASSUME NEW j \in DOMAIN r, r[j].name = "ota", j # k
          PROVE  FALSE
      <4>1. j \in DOMAIN q /\ r[j] = q[j]
        BY <1>7, <2>4, <3>1, AppendFacts
      <4>. QED  BY <1>6, <2>3, <3>1, <4>1 DEF AtWrite, Posted
    <3>. QED  BY <3>1
  <2>7. Posted(q, "result") => Before(r, k)
    BY <2>5 DEF Posted, Before
  <2>8. ASSUME ok, ~s.endSent
        PROVE  Before(r, k) \/ (InStep(s)' /\ ResultPosted')
    <3>0. flash' = f
      BY <1>11, <2>8
    <3>1. CASE Posted(q, "result")
      BY <2>7, <3>1
    <3>2. CASE ~Posted(q, "result")
      <4>1. ~Posted(calls, "result")'
        BY <1>6, <1>8, <3>2 DEF Posted
      <4>2. CASE stack.op.name = "start"
        <5>1. f.state = "begun" /\ f.pdu = s.pdu /\ f.chunks = 0 /\ s.nextIndex = 0
          BY <1>10, <2>3, <4>2 DEF AtWrite, Unsent
        <5>2. s.nextIndex <= Chunks(s.pdu)
          <6>1. Chunks(s.pdu) \in Nat
            BY <2>2, Numbers DEF OtaSession
          <6>. QED  BY <5>1, <6>1
        <5>. QED  BY <3>0, <4>1, <5>1, <5>2 DEF InStep, ResultPosted
      <4>3. CASE stack.op.name = "data"
        <5>1. /\ ResultPosted /\ s.nextIndex = stack.op.index + 1 /\ s.nextIndex <= Chunks(s.pdu)
              /\ stack.op.pdu = s.pdu
          BY <2>3, <4>3 DEF AtWrite
        <5>2. flash.state # "over"
          BY <1>6, <3>2, <5>1 DEF ResultPosted
        <5>3. flash.state = "begun" /\ flash.pdu = stack.op.pdu /\ flash.chunks = stack.op.index
          BY <1>1, <4>3, <5>2 DEF OpInv
        <5>4. f.state = "begun" /\ f.pdu = flash.pdu /\ f.chunks = flash.chunks + 1
          BY <1>10, <1>12, <4>3, <5>2 DEF Flash
        <5>. QED  BY <3>0, <4>1, <5>1, <5>3, <5>4 DEF InStep, ResultPosted
      <4>4. CASE stack.op.name = "end"
        BY <2>3, <2>8, <4>4 DEF AtWrite
      <4>. QED  BY <4>2, <4>3, <4>4 DEF OtaOps
    <3>. QED  BY <3>1, <3>2
  <2>9. flash'.state = "ended" => ok
    <3>1. ASSUME ~ok, flash'.state = "ended"
          PROVE  FALSE
      <4>1. flash.state = "ended" \/ (stack.op.name = "end" /\ flash.state = "begun")
        BY <1>10, <1>11, <1>12, <3>1 DEF Flash, OtaOps
      <4>2. flash' = flash
        BY <1>3, <3>1
      <4>3. s.endSent /\ stack.op.name # "end"
        BY <1>1, <1>2, <2>1, <3>1, <4>2 DEF ResultInv, OpInv
      <4>. QED  BY <2>3, <4>3 DEF AtWrite, Unsent
    <3>. QED  BY <3>1
  <2>10. Answered(s, r, k)'
    BY <1>5, <2>5, <2>6, <2>8, <2>9 DEF Answered, Before
  <2>11. AtAnswer(s)'
    <3>1. ~s.waitingForMtu /\ StartDue' = 0 /\ DataDue' = 0
      BY <1>2, <2>3 DEF AtWrite, StartDue, DataDue
    <3>2. stack'.op.name \notin OtaOps
      BY <1>2, OpFacts DEF OtaOps
    <3>. QED  BY <1>6, <2>5, <2>10, <3>1, <3>2 DEF AtAnswer
  <2>12. s.endSent => flash'.state # "none" /\ Full'
    <3>1. ASSUME s.endSent
          PROVE  flash'.state # "none" /\ Full'
      <4>1. flash.state # "none" /\ Full /\ stack.op.name = "end"
        BY <1>1, <2>1, <2>2, <2>3, <3>1 DEF SessionInv, AtWrite, Unsent
      <4>. QED  BY <1>11, <1>15, <4>1 DEF Full
    <3>. QED  BY <3>1
  <2>13. SessionInv'
    BY <1>2, <2>1, <2>11, <2>12 DEF SessionInv, AtAnswer, Answered, InStep
  <2>. QED  BY <1>13, <1>16, <2>13 DEF UpdateInv
<1>. QED  BY <1>17, <1>18

LEMMA UpdateSubscribed ==
  ASSUME TypeOK, UpdateInv, flash' = flash, NEW name, Handles(name), name \notin {"ota", "result"},
         NEW m \in 0..Notified, NEW chars, SubscribeStep(m, chars)
  PROVE  UpdateInv'
<1>1. SameAnswers(calls, calls')
  BY SameHandled
<1>2. stack'.state = stack.state
  BY DEF SubscribeStep
<1>3. SessionKept /\ StartKept /\ DataKept /\ SameWrite
  <2>1. CASE stack' = stack /\ SessionKept /\ StartKept /\ DataKept
    BY <2>1 DEF SameWrite
  <2>2. CASE client.gatt # NoLink
    <3>1. PICK skipped \in 0..m : /\ stack.op # Idle => skipped = m
                                  /\ \/ skipped = m /\ ReadyNow
                                     \/ skipped < m /\ AskedNext(m - skipped - 1)
      BY <2>2 DEF SubscribeStep
    <3>2. CASE ReadyNow
      BY <3>2, OpFacts DEF ReadyNow, QueueMoved, SameWrite, OtaOps
    <3>3. CASE skipped < m /\ AskedNext(m - skipped - 1)
      <4>1. stack.op = Idle
        BY <3>1, <3>3 DEF Notified
      <4>. QED  BY <3>3, <4>1, OpFacts DEF AskedNext, SameWrite, OtaOps
    <3>. QED  BY <3>1, <3>2, <3>3
  <2>. QED  BY <2>1, <2>2 DEF SubscribeStep
<1>. QED  BY <1>1, <1>2, <1>3, UpdateCalm DEF SessionKept

LEMMA UpdateStep ==
  ASSUME TypeOK, ChannelInv, UpdateInv, Next
  PROVE  UpdateInv'
<1>1. LinkInv /\ CallsInv /\ StageInv /\ ConnectingInv /\ OpInv
  BY DEF ChannelInv, UpdateInv
<1>2. CASE OnConnected
  <2>1. /\ Handles("connected") /\ flash' = flash /\ stack' = stack /\ SessionKept /\ StartKept /\ DataKept
    BY <1>1, <1>2, OnConnectedFacts
  <2>2. SameAnswers(calls, calls') /\ SameWrite
    BY <2>1, SameHandled DEF SameWrite
  <2>. QED  BY <2>1, <2>2, UpdateCalm DEF SessionKept
<1>3. CASE OnDisconnected \/ Release
  BY <1>3, UpdateLinkOver
<1>4. CASE OnServicesDiscovered
  <2>1. /\ Handles("services") /\ flash' = flash
        /\ \/ SubscribeStep(Notified, Head(calls).link)
           \/ Frame /\ SessionKept /\ StartKept /\ DataKept /\ stack' = stack
    BY <1>4, OnServicesDiscoveredFacts
  <2>2. CASE SubscribeStep(Notified, Head(calls).link)
    <3>1. PICK g : g = Head(calls).link
      OBVIOUS
    <3>2. Notified \in 0..Notified /\ SubscribeStep(Notified, g)
      BY <2>2, <3>1 DEF Notified
    <3>. QED  BY <2>1, <3>2, UpdateSubscribed
  <2>3. CASE Frame /\ SessionKept /\ StartKept /\ DataKept /\ stack' = stack
    <3>1. SameAnswers(calls, calls') /\ SameWrite
      BY <2>1, <2>3, SameHandled DEF SameWrite
    <3>. QED  BY <2>1, <2>3, <3>1, UpdateCalm DEF SessionKept
  <2>. QED  BY <2>1, <2>2, <2>3
<1>5. CASE OnDescriptorWrite
  <2>1. /\ Handles("descriptor") /\ flash' = flash /\ SubscribeStep(client.notifyQueue, client.chars)
    BY <1>5, OnDescriptorWriteFacts
  <2>2. PICK m \in 0..Notified : m = client.notifyQueue
    BY DEF TypeOK, Client
  <2>3. PICK g : g = client.chars
    OBVIOUS
  <2>. QED  BY <2>1, <2>2, <2>3, UpdateSubscribed
<1>6. CASE OnMtuChanged
  <2>1. /\ Base /\ DataKept /\ Handles("mtu") /\ flash' = flash
        /\ \/ MtuAwaited
           \/ Discovers(Head(calls).link) /\ SessionKept /\ StartKept
    BY <1>6, OnMtuChangedFacts
  <2>2. CASE MtuAwaited
    BY <2>1, <2>2, UpdateMtuAwaited DEF Base
  <2>3. CASE Discovers(Head(calls).link) /\ SessionKept /\ StartKept
    <3>1. SameAnswers(calls, calls') /\ SameWrite /\ stack'.state = stack.state
      BY <2>1, <2>3, SameHandled DEF SameWrite, Discovers, Base
    <3>. QED  BY <2>1, <2>3, <3>1, UpdateCalm DEF SessionKept
  <2>. QED  BY <2>1, <2>2, <2>3
<1>7. CASE OnHostWrite
  <2>1. SessionKept /\ StartKept /\ DataKept /\ Handles("host") /\ flash' = flash /\ stack' = stack
    BY <1>7, OnHostWriteFacts
  <2>2. SameAnswers(calls, calls') /\ SameWrite
    BY <2>1, SameHandled DEF SameWrite
  <2>. QED  BY <2>1, <2>2, UpdateCalm DEF SessionKept
<1>8. CASE OnOtaWrite
  BY <1>8, UpdateOnOtaWrite
<1>9. CASE OnOtaNotify
  BY <1>9, UpdateOnNotify
<1>10. CASE OnFound
  BY <1>10, UpdateOnFound
<1>11. CASE RunDiscoverServices
  <2>1. Base /\ SessionKept /\ StartKept /\ DataKept /\ calls' = calls /\ flash' = flash
    BY <1>11, RunDiscoverServicesFacts
  <2>2. SameWrite /\ SameAnswers(calls, calls') /\ stack'.state = stack.state
    BY <1>11, <2>1, RunDiscoverServicesFacts, SameItself DEF Discovers, SameWrite, Base
  <2>. QED  BY <2>1, <2>2, UpdateCalm DEF SessionKept
<1>12. CASE RunWriteNextPacket
  <2>1. /\ Frame /\ SessionKept /\ StartKept /\ DataKept
        /\ calls' = calls /\ flash' = flash /\ QueueMoved
    BY <1>12, RunWriteNextPacketFacts
  <2>2. SameWrite /\ SameAnswers(calls, calls') /\ stack'.state = stack.state
    BY <2>1, OpFacts, SameItself DEF QueueMoved, SameWrite, OtaOps, Frame
  <2>. QED  BY <2>1, <2>2, UpdateCalm DEF SessionKept
<1>13. CASE RunStartOtaAfterMtu
  <2>1. /\ Frame /\ DataKept /\ calls' = calls /\ flash' = flash
        /\ \/ SessionKept /\ StartKept /\ stack' = stack
           \/ MtuAwaited
    BY <1>13, RunStartOtaAfterMtuFacts
  <2>2. CASE MtuAwaited
    BY <2>1, <2>2, UpdateMtuAwaited DEF Frame
  <2>3. CASE SessionKept /\ StartKept /\ stack' = stack
    <3>1. SameAnswers(calls, calls') /\ SameWrite
      BY <2>1, <2>3, SameItself DEF SameWrite
    <3>. QED  BY <2>1, <2>3, <3>1, UpdateCalm DEF SessionKept
  <2>. QED  BY <2>1, <2>2, <2>3
<1>14. CASE RunWriteOtaStart
  BY <1>14, UpdateRunStart
<1>15. CASE RunWriteNextOtaData
  BY <1>15, UpdateRunData
<1>16. CASE SendCommand
  <2>1. /\ Frame /\ SessionKept /\ StartKept /\ DataKept /\ calls' = calls /\ flash' = flash
        /\ stack' = stack \/ QueueMoved
    BY <1>16, SendCommandFacts
  <2>2. SameWrite /\ SameAnswers(calls, calls') /\ stack'.state = stack.state
    BY <2>1, OpFacts, SameItself DEF QueueMoved, SameWrite, OtaOps, Frame
  <2>. QED  BY <2>1, <2>2, UpdateCalm DEF SessionKept
<1>17. CASE StartOta
  BY <1>17, UpdateOnStart
<1>18. CASE Scan \/ MtuSettled
  <2>1. /\ Frame /\ SessionKept /\ StartKept /\ DataKept /\ flash' = flash /\ stack'.op = stack.op
        /\ \E c \in Call : c.name \notin {"ota", "result"} /\ calls' = Append(calls, c)
    BY <1>18, ScanFacts, MtuSettledFacts DEF Mine, Found
  <2>2. SameAnswers(calls, calls') /\ SameWrite /\ stack'.state = stack.state
    BY <2>1, SamePosts DEF SameWrite, Frame
  <2>. QED  BY <2>1, <2>2, UpdateCalm DEF SessionKept
<1>19. CASE LinkUp \/ LinkDown \/ ServicesFound
  <2>1. /\ client' = client /\ timers' = timers /\ flash' = flash
        /\ \E c \in Call : c.name \notin {"ota", "result"} /\ calls' = Append(calls, c)
    BY <1>19, LinkUpFacts, LinkDownFacts, ServicesFoundFacts DEF Mine
  <2>2. SameWrite /\ (stack'.state = "up" => stack.state = "up" \/ flash = NoFlash)
    <3>1. stack \in Stack
      BY DEF TypeOK
    <3>2. CASE LinkUp
      BY <1>1, <3>1, <3>2, LinkUpFacts DEF Stack, SameWrite, ConnectingInv
    <3>3. CASE LinkDown
      BY <3>3, LinkDownFacts DEF Closed, SameWrite
    <3>4. CASE ServicesFound
      BY <3>1, <3>4, ServicesFoundFacts DEF Stack, SameWrite
    <3>. QED  BY <1>19, <3>2, <3>3, <3>4
  <2>3. SameAnswers(calls, calls')
    BY <2>1, SamePosts
  <2>4. StartKept /\ DataKept
    BY <2>1 DEF StartKept, DataKept
  <2>. QED  BY <2>1, <2>2, <2>3, <2>4, UpdateCalm
<1>20. CASE Written /\ stack.op.name \in OtaOps
  BY <1>1, <1>20, UpdateWrittenOta
<1>21. CASE Written /\ stack.op.name \notin OtaOps
  <2>1. /\ client' = client /\ timers' = timers /\ stack'.state = stack.state /\ stack'.op = Idle
        /\ stack.op.name # "none"
    BY <1>1, <1>21, WrittenFacts
  <2>2. PICK ok \in BOOLEAN : /\ Mine(Answer(stack.op), ok) \in Call
                              /\ calls' = Append(calls, Mine(Answer(stack.op), ok))
                              /\ flash' = IF ok THEN Received(flash, stack.op) ELSE flash
    BY <1>1, <1>21, WrittenFacts
  <2>3. Received(flash, stack.op) = flash
    BY <1>21 DEF Received, OtaOps
  <2>4. stack.op.name \in {"host", "descriptor"}
    BY <1>21, <2>1 DEF TypeOK, Stack, Op, OtaOps
  <2>5. \E c \in Call : c.name \notin {"ota", "result"} /\ calls' = Append(calls, c)
    BY <2>2, <2>4 DEF Mine, Answer
  <2>6. SameAnswers(calls, calls') /\ SameWrite /\ StartKept /\ DataKept /\ flash' = flash
    BY <2>1, <2>2, <2>3, <2>5, SamePosts DEF SameWrite, StartKept, DataKept
  <2>. QED  BY <2>1, <2>6, UpdateCalm
<1>22. CASE Result
  BY <1>22, UpdateResult
<1>. QED
  BY <1>2, <1>3, <1>4, <1>5, <1>6, <1>7, <1>8, <1>9, <1>10, <1>11, <1>12, <1>13, <1>14, <1>15,
    <1>16, <1>17, <1>18, <1>19, <1>20, <1>21, <1>22
  DEF Next, Handle, Run, Environment

-----------------------------------------------------------------------------
(* The theorems. *)

LEMMA InitInv ==
  ASSUME Init
  PROVE  IInv
<1>1. /\ client.gatt = NoLink /\ ~client.debugReady /\ client.txQueue = 0 /\ client.ota = None
      /\ ~client.writeInProgress /\ calls = <<>> /\ stack = Closed /\ flash = NoFlash
      /\ history.links = 0
  BY DEF Init
<1>2. TypeOK
  <2>1. client \in Client
    BY DEF Init, Client, NoLink, Notified, Mtu
  <2>2. timers \in Timers
    BY DEF Init, Timers
  <2>3. stack \in Stack
    BY OpFacts DEF Init, Stack, Closed, Mtu, Notified
  <2>4. flash \in Flash
    BY Numbers DEF Init, Flash, NoFlash, Pdu
  <2>5. history \in History
    BY Numbers DEF Init, History
  <2>6. calls \in Seq(Call) /\ verdict \in Verdict
    BY DEF Init, Verdict
  <2>. QED  BY <2>1, <2>2, <2>3, <2>4, <2>5, <2>6 DEF TypeOK
<1>3. ChannelInv
  <2>1. LinkInv
    BY <1>1, ClosedFacts DEF LinkInv, NoLink
  <2>2. CallsInv
    BY <1>1 DEF CallsInv, Ordered
  <2>3. ConnectingInv /\ StageInv
    BY <1>1, ClosedFacts DEF ConnectingInv, StageInv
  <2>. QED  BY <2>1, <2>2, <2>3 DEF ChannelInv
<1>4. QueueInv
  BY <1>1 DEF QueueInv
<1>5. UpdateInv
  BY <1>1, ClosedFacts, OpFacts DEF UpdateInv, OpInv, SessionInv, ResultInv, NoFlash
<1>. QED  BY <1>2, <1>3, <1>4, <1>5 DEF IInv

LEMMA NextInv ==
  ASSUME IInv, [Next]_vars
  PROVE  IInv'
<1>1. CASE Next
  BY <1>1, ChannelStep, QueueStep, UpdateStep DEF IInv, UpdateInv
<1>2. CASE UNCHANGED vars
  <2>1. /\ client' = client /\ timers' = timers /\ calls' = calls /\ stack' = stack
        /\ flash' = flash /\ verdict' = verdict /\ history' = history
    BY <1>2 DEF vars
  <2>2. TypeOK' /\ QueueInv'
    BY <2>1 DEF IInv, TypeOK, QueueInv, Posted
  <2>3. LinkInv' /\ CallsInv' /\ ConnectingInv'
    BY <2>1 DEF IInv, ChannelInv, LinkInv, CallsInv, ConnectingInv
  <2>4. StageInv'
    BY <2>1
    DEF IInv, ChannelInv, StageInv, Mine, Quiet, Silent, Asked, Starting, Waiting, Discovering,
      Discovered, Undiscovered, Subscribing, Subscribed, Ready
  <2>5. OpInv' /\ ResultInv'
    BY <2>1 DEF IInv, UpdateInv, OpInv, ResultInv, Full, Posted
  <2>6. SessionInv'
    BY <2>1
    DEF IInv, UpdateInv, SessionInv, Full, AtMtu, AtStart, AtWrite, AtAnswer, AtNext, AtRest,
      Answered, InStep, ResultPosted, Posted, StartDue, DataDue
  <2>. QED  BY <2>2, <2>3, <2>4, <2>5, <2>6 DEF IInv, ChannelInv, UpdateInv
<1>. QED  BY <1>1, <1>2

LEMMA Invariance ==
  Spec => []IInv
BY InitInv, NextInv, PTL DEF Spec

\* The fields of GlimmerBleClient, what is posted to the main thread and what
\* Android keeps have the shape they are modelled with: nothing is taken from
\* an empty queue, and no characteristic is subscribed to twice.
THEOREM TypeCorrect ==
  Spec => []TypeOK
<1>1. IInv => TypeOK
  BY DEF IInv
<1>. QED  BY <1>1, Invariance, PTL

\* No packet is forgotten in txQueue (sendPackets, writeNextPacket,
\* onCharacteristicWrite), whatever is refused and however links come and go.
THEOREM QueueAlwaysMoves ==
  Spec => []QueueMoves
<1>1. IInv => QueueMoves
  BY DEF IInv, QueueInv, QueueMoves, Posted
<1>. QED  BY <1>1, Invariance, PTL

\* A ready channel is one whose pendant was told to notify all three
\* characteristics, over the link that is open now (subscribeNext).
THEOREM ReadyMeansSubscribed ==
  Spec => []ReadyIsSubscribed
<1>1. ASSUME IInv, client.debugReady, stack.state = "up", history.faults = 0
      PROVE  client.gatt = stack.link /\ client.chars = stack.link /\ stack.subscribed = Notified
  <2>1. Ready /\ client.gatt = stack.link
    BY <1>1, ReadyIsTheLast DEF IInv, ChannelInv, LinkInv
  <2>. QED  BY <1>1, <2>1 DEF Ready, Notified
<1>2. IInv => ReadyIsSubscribed
  BY <1>1 DEF ReadyIsSubscribed
<1>. QED  BY <1>2, Invariance, PTL

\* The pendant receives START, every chunk in order with the PDU that START
\* names, and END: whatever is refused, answered late or lost, the update never
\* writes a packet out of turn (writeNextOtaData).
THEOREM StreamAlwaysWhole ==
  Spec => []StreamWhole
<1>1. IInv => StreamWhole
  BY DEF IInv, UpdateInv, OpInv, StreamWhole
<1>. QED  BY <1>1, Invariance, PTL

\* An update becomes completed only in two of the client's steps, and in both
\* the pendant has received every chunk.
LEMMA CompletedStep ==
  ASSUME IInv, Next, verdict' = "completed", verdict # "completed"
  PROVE  flash.state # "none" /\ Full
<1>1. TypeOK /\ ChannelInv /\ LinkInv /\ CallsInv /\ StageInv /\ OpInv /\ SessionInv /\ ResultInv
  BY DEF IInv, ChannelInv, UpdateInv
<1>2. ~SessionKept /\ ~(verdict' = verdict) /\ ~GaveUp /\ ~MtuAwaited
  BY DEF SessionKept, GaveUp, MtuAwaited, Streamed, Delayed
<1>3. CASE OnDisconnected
  BY <1>1, <1>3, OnDisconnectedFacts DEF SessionInv
<1>4. CASE OnOtaNotify
  <2>1. Handles("result") /\ Head(calls).ok
    BY <1>1, <1>4, OnOtaNotifyFacts
  <2>2. \E k \in DOMAIN calls : calls[k].name = "result" /\ calls[k].ok
    BY <1>1, <2>1, HandledFewer
  <2>. QED  BY <1>1, <2>2 DEF ResultInv
<1>5. CASE OnServicesDiscovered \/ OnDescriptorWrite
  <2>1. \A m, chars : SubscribeStep(m, chars) => SessionKept
    BY DEF SubscribeStep, ReadyNow, AskedNext
  <2>. QED  BY <1>1, <1>2, <1>5, <2>1, OnServicesDiscoveredFacts, OnDescriptorWriteFacts
<1>6. CASE OnConnected \/ OnHostWrite \/ OnMtuChanged \/ OnFound
  BY <1>1, <1>2, <1>6, OnConnectedFacts, OnHostWriteFacts, OnMtuChangedFacts, OnFoundFacts
<1>7. CASE OnOtaWrite
  BY <1>1, <1>2, <1>7, OnOtaWriteFacts
<1>8. CASE RunDiscoverServices \/ RunWriteNextPacket \/ RunStartOtaAfterMtu
  BY <1>1, <1>2, <1>8, RunDiscoverServicesFacts, RunWriteNextPacketFacts, RunStartOtaAfterMtuFacts
<1>9. CASE RunWriteOtaStart
  <2>1. \A op, s : ~Streamed(op, s) /\ ~Delayed(s)
    BY <1>2 DEF Streamed, Delayed
  <2>. QED  BY <1>1, <1>2, <1>9, <2>1, RunWriteOtaStartFacts
<1>10. CASE RunWriteNextOtaData
  <2>1. \A op, s : ~Streamed(op, s)
    BY <1>2 DEF Streamed
  <2>2. PICK s : s = client.ota
    OBVIOUS
  <2>. QED  BY <1>1, <1>2, <1>10, <2>1, <2>2, RunWriteNextOtaDataFacts
<1>11. CASE SendCommand \/ StartOta \/ Release
  BY <1>1, <1>2, <1>11, SendCommandFacts, StartOtaFacts, ReleaseFacts
<1>12. CASE Environment
  BY <1>1, <1>2, <1>12, ScanFacts, LinkUpFacts, LinkDownFacts, ServicesFoundFacts, MtuSettledFacts,
    WrittenFacts, ResultFacts
  DEF Environment
<1>. QED
  BY <1>3, <1>4, <1>5, <1>6, <1>7, <1>8, <1>9, <1>10, <1>11, <1>12 DEF Next, Handle, Run

\* OtaListener hears that an update is completed only when the pendant has
\* received every chunk of it: from its result, or from the link that goes down
\* after END (onOtaNotify, onConnectionStateChange).
THEOREM CompletedIsWritten ==
  Spec => CompletedMeansWritten
<1>1. IInv /\ [Next]_vars =>
        [verdict' = "completed" /\ verdict # "completed" =>
           flash.state # "none" /\ flash.chunks = Chunks(flash.pdu)]_vars
  BY CompletedStep DEF Full
<1>. QED  BY <1>1, Invariance, PTL DEF Spec, CompletedMeansWritten

=============================================================================
