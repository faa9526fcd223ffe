--------------------------- MODULE FileTransfer ---------------------------
(***************************************************************************)
(* Images and avatars between two phones (GlimmerFileTransfer.java).  An   *)
(* object is cut into chunks; START and the chunks go to the phone's own   *)
(* pendant one HOST_CMD_P2P_FILE_SEND at a time, each after the response   *)
(* to the one before.  The pendant repeats the frame on air and forgets    *)
(* it; the receiving phone reports what it misses, the sending one         *)
(* repairs, and after a silence starts a new round.                        *)
(*                                                                         *)
(* Everything below runs on the phone's main thread, a handler at a time.  *)
(* A posted Runnable may run at any time after it is posted: no property   *)
(* depends on how long the delays are.  host_cmd sequence numbers matter   *)
(* only for whether a response belongs to the frame in activeFrame, which  *)
(* every command remembers.  The bytes of a chunk are its index, so the    *)
(* CRC of a complete object is always right.                               *)
(***************************************************************************)
EXTENDS Naturals, Sequences, FiniteSets, SequencesExt

CONSTANTS
  Phone,          \* two phones, each linked to its own pendant
  Sender,         \* those whose users offer objects
  Chunk,          \* indices of the chunks of an object
  None,           \* a null reference
  SkipSets,       \* initial chunks a test transfer leaves out (drop_every, drop_once)
  RetryMax,       \* SEND_RETRY_MAX
  RepairMax,      \* the 8 of "session.repairRound >= 8"
  ResendMax,      \* WATCHDOG_RESEND_MAX
  ReportEvery,    \* the 8 of "receivedCount % 8"
  MaxObjects,     \* bound on objects offered for sending
  MaxReports,     \* bound on REPORT frames a phone has waiting or in flight
  Faults,         \* what the environment may do to a transfer (see Fault)
  MaxFaults       \* bound on how often it does so

ASSUME PhoneAssumption == Sender \subseteq Phone
ASSUME ChunkAssumption == Chunk \subseteq Nat /\ IsFiniteSet(Chunk) /\ Chunk # {}
\* repeat: a frame handed up twice; refusal: a command the pendant rejects;
\* loss: the link goes down; drop: GlimmerBleClient loses a command it has not
\* written; unbind: the user unbinds the pendant.
Fault == {"repeat", "refusal", "loss", "drop", "unbind"}

ASSUME BoundAssumption ==
  /\ {RetryMax, RepairMax, ResendMax, MaxObjects, MaxReports, MaxFaults} \subseteq Nat
  /\ ReportEvery \in Nat \ {0} /\ SkipSets # {} /\ SkipSets \subseteq SUBSET Chunk
  /\ Faults \subseteq Fault

Object == 1..MaxObjects

Name  == {"START", "START_RETRY", "DATA", "DATA_REPAIR", "REPORT", "DONE"}
\* chunks: the one a DATA frame carries, those a REPORT says were received
Frame == [to: Phone, file: Object, name: Name, chunks: SUBSET Chunk]

SendSession    == [to: Phone, file: Object, initial: 0..Cardinality(Chunk) + 1,
                   repair: Nat, round: 0..RepairMax, resends: 0..ResendMax]
ReceiveSession == [src: Phone, file: Object, got: SUBSET Chunk, completed: BOOLEAN]
\* current: its seq is the one activeFrame waits for
Command        == [frame: Frame, current: BOOLEAN,
                   status: {"sent", "ok", "busy", "refused"}]
Timer          == {"drain", "retry", "report", "watchdog"}
\* A frame in activeFrame with its retryCount.
ActiveFrame    == [frame: Frame, retries: 0..RetryMax]

\* A null reference is none of the objects it stands in for.
ASSUME NoneAssumption ==
  None \notin Frame /\ None \notin ActiveFrame
    /\ None \notin SendSession /\ None \notin ReceiveSession

VARIABLES
  app,       \* the GlimmerFileTransfer of each phone and its commands
  air,       \* the frame each pendant is sending
  offered,   \* objects the users have offered so far
  outcome,   \* what the sending chat page shows of each object
  shown,     \* times the receiving chat page was given each object
  faults,    \* how often something went wrong outside this code so far
  orphaned   \* a frame may have been left without a response, and no timer of
             \* its own to notice

vars == <<app, air, offered, outcome, shown, faults, orphaned>>

App == [ready: BOOLEAN, session: SendSession \cup {None},
        active: ActiveFrame \cup {None},
        queue: Seq(Frame), rx: ReceiveSession \cup {None},
        timers: SUBSET Timer, commands: Seq(Command)]

TypeOK ==
  /\ app \in [Phone -> App]
  /\ air \in [Phone -> Frame \cup {None}]
  /\ offered \in 0..MaxObjects
  /\ outcome \in [Object -> {"none", "sending", "completed", "failed"}]
  /\ shown \in [Object -> Nat]
  /\ faults \in 0..MaxFaults /\ orphaned \in BOOLEAN

Init ==
  /\ app = [p \in Phone |->
       [ready |-> TRUE, session |-> None, active |-> None, queue |-> <<>>,
        rx |-> None, timers |-> {}, commands |-> <<>>]]
  /\ air = [p \in Phone |-> None]
  /\ offered = 0
  /\ outcome = [f \in Object |-> "none"]
  /\ shown = [f \in Object |-> 0]
  /\ faults = 0 /\ orphaned = FALSE

-----------------------------------------------------------------------------
(* The methods, as functions of one phone's state. *)

Arm(a, t)    == [a EXCEPT !.timers = @ \cup {t}]
Disarm(a, t) == [a EXCEPT !.timers = @ \ {t}]

IsIdle(a) == a.session = None /\ a.active = None /\ a.queue = <<>>

\* What sendP2pFileFrame throws for is not there: it runs after the test for a
\* ready channel, no frame is empty, and every phone here has a short id.
SendActiveFrame(a) ==
  CASE a.active = None -> a
    [] a.active # None /\ ~a.ready -> [a EXCEPT !.active = None]
    [] OTHER ->
       LET stale(c) == [c EXCEPT !.current = FALSE]
           new == [frame |-> a.active.frame, current |-> TRUE, status |-> "sent"]
       IN  [a EXCEPT !.commands = Append([k \in DOMAIN @ |-> stale(@[k])], new)]

DrainTxQueue(a) ==
  IF a.active # None \/ a.queue = <<>> THEN a
  ELSE SendActiveFrame([a EXCEPT !.active = [frame |-> Head(a.queue), retries |-> 0],
                                 !.queue = Tail(@)])

EnqueueFrame(a, to, file, name, chunks) ==
  [a EXCEPT !.queue =
     Append(@, [to |-> to, file |-> file, name |-> name, chunks |-> chunks])]

\* The numbers of a set from the lowest to the highest.
Ascending(set) ==
  [k \in 1..Cardinality(set) |->
     CHOOSE i \in set : Cardinality({j \in set : j < i}) = k - 1]

\* One DATA frame for each of the chunks, in order of their indices.
EnqueueChunks(a, chunks, name) ==
  LET s      == a.session
      n      == Cardinality(chunks)
      order  == Ascending(chunks)
      frames == [k \in 1..n |-> [to |-> s.to, file |-> s.file, name |-> name,
                                 chunks |-> {order[k]}]]
  IN  [a EXCEPT !.queue = @ \o frames,
                !.session.initial = IF name = "DATA" THEN @ + n ELSE @,
                !.session.repair  = IF name = "DATA" THEN @ ELSE @ + n]

ClearQueuedFramesForFile(a, f) ==
  LET kept == Ascending({k \in DOMAIN a.queue : a.queue[k].file # f})
  IN  [a EXCEPT !.queue = [k \in DOMAIN kept |-> @[kept[k]]]]

EndSession(a) == Disarm([a EXCEPT !.session = None], "watchdog")

SendReport(a) ==
  EnqueueFrame(a, a.rx.src, a.rx.file, "REPORT", a.rx.got)

MarkFrameDelivered(a, fr) ==
  LET s == a.session IN
  IF s = None \/ s.file # fr.file THEN a
  ELSE CASE fr.name \in {"START", "DATA"} /\ s.initial > 0 ->
              [a EXCEPT !.session.initial = @ - 1]
         [] fr.name = "DATA_REPAIR" /\ s.repair > 0 ->
              [a EXCEPT !.session.repair = @ - 1]
         [] OTHER -> a

-----------------------------------------------------------------------------
(* Sending. *)

MayRetry(a) == a.active.retries < RetryMax

\* Mutant: nothing sends the next frame.
SentWithoutDrain(a, fr) == MarkFrameDelivered([a EXCEPT !.active = None], fr)
Sent(a, fr) == Arm(MarkFrameDelivered([a EXCEPT !.active = None], fr), "drain")

\* Mutant: a watchdog that finds frames waiting is not set again.
WatchdogStops(a) == a
WatchdogWaits(a) == Arm(a, "watchdog")

StartTransfer(a, q, f, skip) ==
  LET opened  == [a EXCEPT !.session = [to |-> q, file |-> f, initial |-> 1,
                                        repair |-> 0, round |-> 0, resends |-> 0]]
      started == EnqueueFrame(opened, q, f, "START", {})
  IN  DrainTxQueue(Arm(EnqueueChunks(started, Chunk \ skip, "DATA"), "watchdog"))

\* sendObject: refused at once while another transfer or frame is under way.
SendObject(p, q) ==
  /\ p \in Sender /\ p # q /\ offered < MaxObjects
  /\ LET f == offered + 1 IN
     /\ offered' = f
     /\ \/ /\ app[p].ready /\ IsIdle(app[p])
           /\ \E skip \in SkipSets :
                app' = [app EXCEPT ![p] = StartTransfer(@, q, f, skip)]
           /\ outcome' = [outcome EXCEPT ![f] = "sending"]
        \/ /\ ~(app[p].ready /\ IsIdle(app[p]))
           /\ outcome' = [outcome EXCEPT ![f] = "failed"]
           /\ UNCHANGED app
  /\ UNCHANGED <<air, shown, faults, orphaned>>

\* handleFileSendResponse, on the oldest command its pendant has answered.
HandleFileSendResponse(p) ==
  LET a    == app[p]
      c    == Head(a.commands)
      rest == [a EXCEPT !.commands = Tail(@)]
      s    == a.session
      done == [rest EXCEPT !.active = None]
  IN
  /\ a.commands # <<>> /\ c.status # "sent"
  /\ CASE ~c.current \/ a.active = None ->
            app' = [app EXCEPT ![p] = rest] /\ UNCHANGED outcome
       [] c.current /\ a.active # None /\ c.status = "ok" ->
            /\ app' = [app EXCEPT ![p] = Sent(rest, c.frame)]
            /\ UNCHANGED outcome
       [] c.current /\ a.active # None /\ c.status = "busy" /\ MayRetry(a) ->
            /\ app' = [app EXCEPT ![p] =
                 Arm([rest EXCEPT !.active.retries = @ + 1], "retry")]
            /\ UNCHANGED outcome
       [] OTHER ->
            IF s # None /\ s.file = c.frame.file
            THEN /\ app' = [app EXCEPT ![p] = EndSession([done EXCEPT !.queue = <<>>])]
                 /\ outcome' = [outcome EXCEPT ![s.file] = "failed"]
            ELSE app' = [app EXCEPT ![p] = DrainTxQueue(done)] /\ UNCHANGED outcome
  /\ UNCHANGED <<air, offered, shown, faults, orphaned>>

\* onSenderWatchdog: a silence of REPORT_TIMEOUT_MS.
OnSenderWatchdog(p) ==
  LET a == Disarm(app[p], "watchdog")
      s == a.session
      again == [a EXCEPT !.session.resends = @ + 1]
      start == EnqueueFrame(again, s.to, s.file, "START_RETRY", {})
  IN
  /\ "watchdog" \in app[p].timers
  /\ CASE s = None ->
            app' = [app EXCEPT ![p] = a] /\ UNCHANGED outcome
       [] s # None /\ (a.active # None \/ a.queue # <<>>) ->
            app' = [app EXCEPT ![p] = WatchdogWaits(a)] /\ UNCHANGED outcome
       [] s # None /\ a.active = None /\ a.queue = <<>> /\ s.resends >= ResendMax ->
            /\ app' = [app EXCEPT ![p] = EndSession(a)]
            /\ outcome' = [outcome EXCEPT ![s.file] = "failed"]
       [] OTHER ->
            /\ app' = [app EXCEPT ![p] =
                 DrainTxQueue(Arm(EnqueueChunks(start, Chunk, "DATA_REPAIR"), "watchdog"))]
            /\ UNCHANGED outcome
  /\ UNCHANGED <<air, offered, shown, faults, orphaned>>

\* The posted drainTxQueue and sendActiveFrame.
RunDrain(p) ==
  /\ "drain" \in app[p].timers
  /\ app' = [app EXCEPT ![p] = DrainTxQueue(Disarm(@, "drain"))]
  /\ UNCHANGED <<air, offered, outcome, shown, faults, orphaned>>

RunRetry(p) ==
  /\ "retry" \in app[p].timers
  /\ app' = [app EXCEPT ![p] = SendActiveFrame(Disarm(@, "retry"))]
  /\ UNCHANGED <<air, offered, outcome, shown, faults, orphaned>>

-----------------------------------------------------------------------------
(* Receiving: the cases of handleFileEvent, for a frame from src. *)

OnStartFrame(a, src, fr) ==
  Arm([a EXCEPT !.rx = [src |-> src, file |-> fr.file, got |-> {}, completed |-> FALSE]],
      "report")

CompleteReceive(a) ==
  LET rx == [a.rx EXCEPT !.completed = TRUE]
      reported == SendReport([a EXCEPT !.rx = rx])
  IN  DrainTxQueue(EnqueueFrame(reported, rx.src, rx.file, "DONE", {}))

OnDataFrame(a, src, fr) ==
  LET b == [a EXCEPT !.rx.got = @ \cup fr.chunks]
      n == Cardinality(b.rx.got)
  IN  IF a.rx = None \/ a.rx.file # fr.file \/ a.rx.src # src \/ a.rx.completed THEN a
      ELSE IF n = Cardinality(Chunk) THEN CompleteReceive(b)
      ELSE IF n % ReportEvery = 0 THEN Arm(b, "report") ELSE b

\* This frame is the one that makes the object whole.
Completes(a, src, fr) ==
  /\ fr.name \in {"DATA", "DATA_REPAIR"} /\ a.rx # None
  /\ a.rx.file = fr.file /\ a.rx.src = src /\ ~a.rx.completed
  /\ a.rx.got \cup fr.chunks = Chunk

\* The set bits of the bitmap.  Mutant: the loop stops a bit short.
MissingButLast(fr) == {c \in Chunk : \E d \in Chunk : d > c} \ fr.chunks
Missing(fr) == Chunk \ fr.chunks

OnReportFrame(a, src, fr) ==
  LET s        == a.session
      missing  == Missing(fr)
      cleared  == ClearQueuedFramesForFile(a, fr.file)
      next     == [a EXCEPT !.session.round = @ + 1]
      repaired == EnqueueChunks(next, missing, "DATA_REPAIR")
  IN  IF s = None \/ s.file # fr.file \/ s.to # src THEN a
      ELSE IF missing = {}
      THEN DrainTxQueue(EndSession(EnqueueFrame(cleared, src, fr.file, "DONE", {})))
      ELSE IF s.initial > 0 \/ s.repair > 0 THEN Arm(a, "watchdog")
      ELSE IF s.round >= RepairMax THEN EndSession(cleared)
      ELSE DrainTxQueue(Arm(repaired, "watchdog"))

\* Only its file identifies the transfer a DONE ends, not where it came from.
OnDoneFrame(a, fr) ==
  IF a.session = None \/ a.session.file # fr.file THEN a
  ELSE EndSession(ClearQueuedFramesForFile(a, fr.file))

HandleFileEvent(a, src, fr) ==
  CASE fr.name \in {"START", "START_RETRY"} -> OnStartFrame(a, src, fr)
    [] fr.name \in {"DATA", "DATA_REPAIR"}  -> OnDataFrame(a, src, fr)
    [] fr.name = "REPORT"                   -> OnReportFrame(a, src, fr)
    [] fr.name = "DONE"                     -> OnDoneFrame(a, fr)

\* What onFileTxCompleted and onFileTxFailed tell the chat page of the session
\* this frame ended.
Verdict(a, fr) ==
  IF fr.name = "REPORT" /\ Missing(fr) # {} THEN "failed" ELSE "completed"

Reports(a) ==
  Cardinality({k \in DOMAIN a.queue : a.queue[k].name = "REPORT"})
    + (IF a.active # None /\ a.active.frame.name = "REPORT" THEN 1 ELSE 0)

\* sendPendingReport, again and again until the object is whole.
SendPendingReport(p) ==
  LET a == Disarm(app[p], "report")
      b == SendReport(a)
  IN
  /\ "report" \in app[p].timers
  /\ Reports(a) < MaxReports
  /\ app' = [app EXCEPT ![p] =
       CASE a.rx = None       -> a
         [] a.rx # None /\ a.rx.got # Chunk -> DrainTxQueue(Arm(b, "report"))
         [] OTHER             -> DrainTxQueue(b)]
  /\ UNCHANGED <<air, offered, outcome, shown, faults, orphaned>>

-----------------------------------------------------------------------------
(* The pendants and the links, as far as this code sees them. *)

\* One more of the faults the environment may still cause.
Happens(fault) ==
  /\ fault \in Faults /\ faults < MaxFaults
  /\ faults' = faults + 1
  /\ orphaned' = (orphaned \/ fault \in {"drop", "unbind"})

Answer(p, k, status) == [app EXCEPT ![p].commands[k].status = status]

\* The pendant takes the oldest command it has not answered: it puts the frame
\* on air, is still busy with the last one, or does not know the peer any more.
PendantAnswers(p) ==
  LET waiting == {k \in DOMAIN app[p].commands : app[p].commands[k].status = "sent"}
      k == CHOOSE i \in waiting : \A j \in waiting : i <= j
  IN
  /\ waiting # {}
  /\ \/ /\ air[p] = None
        /\ air' = [air EXCEPT ![p] = app[p].commands[k].frame]
        /\ app' = Answer(p, k, "ok")
        /\ UNCHANGED <<faults, orphaned>>
     \/ /\ air[p] # None
        /\ app' = Answer(p, k, "busy")
        /\ UNCHANGED <<air, faults, orphaned>>
     \/ /\ Happens("refusal")
        /\ app' = Answer(p, k, "refused")
        /\ UNCHANGED air
  /\ UNCHANGED <<offered, outcome, shown>>

\* A command that is never written: writeCharacteristic refuses the packet that
\* writeNextPacket has already polled, or startOta clears the queue.
DropCommand(p) ==
  /\ Happens("drop")
  /\ \E k \in DOMAIN app[p].commands :
       /\ app[p].commands[k].status = "sent"
       /\ app' = [app EXCEPT ![p].commands = RemoveAt(@, k)]
  /\ UNCHANGED <<air, offered, outcome, shown>>

\* The frame reaches the other phone, over that phone's link.  The other
\* pendant may hand it up a second time while it is still being repeated.
Deliver(p) ==
  LET fr == air[p]
      q  == air[p].to
  IN
  /\ air[p] # None /\ app[q].ready
  /\ LET before == app[q]
         after  == HandleFileEvent(before, p, fr)
     IN
     /\ app' = [app EXCEPT ![q] = after]
     /\ shown' = IF Completes(before, p, fr) THEN [shown EXCEPT ![fr.file] = @ + 1] ELSE shown
     /\ outcome' = IF before.session # None /\ after.session = None
                   THEN [outcome EXCEPT ![fr.file] = Verdict(before, fr)]
                   ELSE outcome
  /\ \/ air' = [air EXCEPT ![p] = None] /\ UNCHANGED <<faults, orphaned>>
     \/ Happens("repeat") /\ UNCHANGED air
  /\ UNCHANGED offered

\* File frames are sent APP_PEER_SEND_UNRELIABLE: nobody hears it, or the
\* other phone is not linked.
Lose(p) ==
  /\ air[p] # None
  /\ air' = [air EXCEPT ![p] = None]
  /\ UNCHANGED <<app, offered, outcome, shown, faults, orphaned>>

\* Mutant: the frame in flight is forgotten by the link only.
LinkDownKeepsActive(a) ==
  EndSession([a EXCEPT !.ready = FALSE, !.queue = <<>>, !.commands = <<>>])
LinkDown(a) ==
  EndSession([a EXCEPT !.ready = FALSE, !.active = None, !.queue = <<>>, !.commands = <<>>])

\* onDebugReadyChanged(false), after a disconnection or the release of the
\* link in the background: GlimmerBleClient drops its commands too.
LinkLost(p) ==
  LET a == app[p] IN
  /\ a.ready /\ Happens("loss")
  /\ app' = [app EXCEPT ![p] = LinkDown(a)]
  /\ outcome' = IF a.session = None THEN outcome
                ELSE [outcome EXCEPT ![a.session.file] = "failed"]
  /\ UNCHANGED <<air, offered, shown>>

\* unbindDevice: disconnect() drops the link and its commands, and nobody
\* calls onDebugReady(false).
UnbindDevice(p) ==
  /\ app[p].ready /\ Happens("unbind")
  /\ app' = [app EXCEPT ![p].ready = FALSE, ![p].commands = <<>>]
  /\ UNCHANGED <<air, offered, outcome, shown>>

\* onDebugReadyChanged(true).
LinkUp(p) ==
  /\ ~app[p].ready
  /\ app' = [app EXCEPT ![p] = DrainTxQueue([@ EXCEPT !.ready = TRUE])]
  /\ UNCHANGED <<air, offered, outcome, shown, faults, orphaned>>

-----------------------------------------------------------------------------

Next ==
  \E p \in Phone :
    \/ \E q \in Phone : SendObject(p, q)
    \/ HandleFileSendResponse(p) \/ OnSenderWatchdog(p)
    \/ RunDrain(p) \/ RunRetry(p) \/ SendPendingReport(p)
    \/ PendantAnswers(p) \/ DropCommand(p) \/ Deliver(p) \/ Lose(p)
    \/ LinkLost(p) \/ UnbindDevice(p) \/ LinkUp(p)

\* Handlers and posted Runnables run, pendants answer and finish what they
\* send, links are restored (autoReconnectRunnable).  Nothing says that a
\* frame is ever heard or a command ever accepted.
Fairness ==
  \A p \in Phone :
    /\ WF_vars(HandleFileSendResponse(p)) /\ WF_vars(OnSenderWatchdog(p))
    /\ WF_vars(RunDrain(p)) /\ WF_vars(RunRetry(p)) /\ WF_vars(SendPendingReport(p))
    /\ WF_vars(PendantAnswers(p)) /\ WF_vars(Deliver(p) \/ Lose(p)) /\ WF_vars(LinkUp(p))

Spec == Init /\ [][Next]_vars /\ Fairness

-----------------------------------------------------------------------------
(* Properties. *)

\* What waits in txQueue is always on its way out: while the link is up there
\* is a frame in flight or a drain posted (drainTxQueue and its callers).
NoLostWakeup ==
  \A p \in Phone :
    app[p].ready /\ app[p].queue # <<>> =>
      app[p].active # None \/ "drain" \in app[p].timers

\* A frame in flight has something that will end the wait for it: a command
\* its response will match, or the retry posted after a busy one.  Only after
\* unbindDevice or a dropped command does a frame wait for a response that
\* cannot come.
FrameIsAnswered ==
  ~orphaned =>
    \A p \in Phone :
      app[p].active # None =>
        \/ "retry" \in app[p].timers
        \/ \E k \in DOMAIN app[p].commands : app[p].commands[k].current

\* The chat page hears what ObjectTransfer promises: one verdict for each
\* object, a good one only if the other phone was given the whole object, and
\* that phone is given it at most once for each START round of the sender.
Promise ==
  INSTANCE ObjectTransfer WITH Rounds <- 1 + ResendMax
KeepsPromise == Promise!Spec

\* Every transfer ends, whatever is lost: repairs and rounds are bounded and a
\* silent receiver is given up on (REPORT_TIMEOUT_MS, WATCHDOG_RESEND_MAX),
\* unless a frame was left without a response in the middle of one.
Settles ==
  \A f \in Object :
    outcome[f] = "sending" ~> outcome[f] # "sending" \/ orphaned

\* MainActivity.java:165-166: "disconnect() closes GATT without a callback; run
\* the same cleanup as a link loss" - so a transfer ends after every release of
\* the link, also the one in unbindDevice.
AlwaysSettles ==
  \A f \in Object : outcome[f] = "sending" ~> outcome[f] # "sending"

=============================================================================
