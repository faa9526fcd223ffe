------------------------------ MODULE ChatSend ------------------------------
(***************************************************************************)
(* Chat messages and avatars on their way out of the app (MainActivity).   *)
(* One message at a time is with the pendant, until a refusal, the result  *)
(* of its transport, or a time-out; the others wait in chatSendQueue.      *)
(* Avatars go out by themselves, one neighbour at a time, when no message  *)
(* waits and the file transfer (FileTransfer) is idle.                     *)
(*                                                                         *)
(* Everything runs on the main thread, a handler at a time.  A posted      *)
(* Runnable may run at any time after it is posted.  A message is its      *)
(* number, which also stands for the seq of its command.  avatarQueuedKeys *)
(* and avatarSentKeys are sets of neighbours: the hash in a key only tells *)
(* avatars apart that are never in these sets together.                    *)
(***************************************************************************)
EXTENDS Naturals, Sequences, FiniteSets, SequencesExt

CONSTANTS
  Peer,         \* neighbours with a conversation
  Visible,      \* those that come into sight of the pendant, and may be blocked
  None,         \* short id 0
  MaxMessages,  \* bound on messages typed
  Faults,       \* what may happen to the app and its link
  MaxFaults     \* bound on how often

\* lost: a command that is not written, or an answer the pendant's ring
\* refuses; link: the link goes; unbind: unbindDevice; restart: the app is
\* killed and started again.
Fault == {"lost", "link", "unbind", "restart"}

ASSUME PeerAssumption == None \notin Peer /\ Visible \subseteq Peer /\ IsFiniteSet(Peer)
ASSUME BoundAssumption == {MaxMessages, MaxFaults} \subseteq Nat /\ Faults \subseteq Fault

Message == 1..MaxMessages
Nobody  == 0                       \* activeChatSend = null

Final  == {"delivered", "unconfirmed", "failed"}
Status == {"none", "queued", "sending"} \cup Final
Result == {"success", "timeout", "failed"}
Note   == [name: {"rsp", "result"}, message: Message, to: Peer \cup {None}, result: Result]

VARIABLES
  app,       \* the fields of MainActivity
  pendant,   \* commands and answers on the link, the message being sent
  truth,     \* which messages were delivered, as the transport reported it
  typed,     \* messages typed so far
  faults     \* faults so far

vars == <<app, pendant, truth, typed, faults>>

\* stranded: the avatar Runnable was taken away and nothing is left to post it.
App == [ready: BOOLEAN, peers: SUBSET Peer, blocked: SUBSET Peer,
        active: Message \cup {Nobody}, queue: Seq(Message), timeout: BOOLEAN,
        status: [Message -> Status], to: [Message -> Peer \cup {None}], long: SUBSET Message,
        avatars: Seq(Peer), queuedKeys: SUBSET Peer, sentKeys: SUBSET Peer,
        avatarTimer: BOOLEAN, stranded: BOOLEAN,
        file: {"idle", "avatar", "other"}, fileTo: Peer \cup {None}]

\* A neighbour waits for the avatar once, and only with its key in queuedKeys.
TypeOK ==
  /\ app \in App
  /\ IsInjective(app.avatars) /\ ToSet(app.avatars) = app.queuedKeys
  /\ pendant \in [cmds: Seq(Message), tx: Message \cup {Nobody}, notes: Seq(Note)]
  /\ truth \in [Message -> {"none", "success", "unnamed"}]
  /\ typed \in 0..MaxMessages /\ faults \in 0..MaxFaults

Fresh == [ready |-> FALSE, peers |-> {}, blocked |-> {}, active |-> Nobody, queue |-> <<>>,
          timeout |-> FALSE, status |-> [m \in Message |-> "none"],
          to |-> [m \in Message |-> None], long |-> {}, avatars |-> <<>>, queuedKeys |-> {},
          sentKeys |-> {}, avatarTimer |-> FALSE, stranded |-> FALSE,
          file |-> "idle", fileTo |-> None]

Init ==
  /\ app = Fresh
  /\ pendant = [cmds |-> <<>>, tx |-> Nobody, notes |-> <<>>]
  /\ truth = [m \in Message |-> "none"]
  /\ typed = 0 /\ faults = 0

-----------------------------------------------------------------------------
(* Methods, as functions of app. *)

ScheduleAvatarSend(x) == [x EXCEPT !.avatarTimer = TRUE, !.stranded = FALSE]
CancelAvatarSend(x)   == [x EXCEPT !.avatarTimer = FALSE]
Strand(x)             == [x EXCEPT !.avatarTimer = FALSE, !.stranded = TRUE]

HasPendingChatWork(x) == x.active # Nobody \/ x.queue # <<>>

\* Mutant: the avatars are left waiting.
NothingAfterChat(x) == x
AvatarsAfterChat(x) ==
  IF ~HasPendingChatWork(x) /\ x.avatars # <<>> THEN ScheduleAvatarSend(x) ELSE x

Mark(x, messages, s) ==
  [x EXCEPT !.status = [m \in Message |-> IF m \in messages THEN s ELSE @[m]]]

\* The loop of dispatchNextChatSend: what cannot be sent fails, the first that
\* can is given to the pendant.
DispatchNext(x) ==
  LET sendable == {i \in DOMAIN x.queue :
                     x.ready /\ x.to[x.queue[i]] \notin x.blocked /\ x.queue[i] \notin x.long}
      first  == CHOOSE i \in sendable : \A j \in sendable : i <= j
      failed == IF sendable = {} THEN ToSet(x.queue)
                ELSE {x.queue[i] : i \in 1..first - 1}
      y      == [Mark(x, failed, "failed") EXCEPT !.long = @ \ failed]
  IN
  IF x.active # Nobody THEN x
  ELSE IF sendable = {} THEN AvatarsAfterChat([y EXCEPT !.queue = <<>>])
  ELSE [Mark(y, {x.queue[first]}, "sending") EXCEPT
          !.active = x.queue[first], !.timeout = TRUE,
          !.queue = SubSeq(@, first + 1, Len(@))]

\* Mutant: the next message is left waiting.
FinishAlone(x, s) ==
  [Mark(x, {x.active}, s) EXCEPT !.active = Nobody, !.timeout = FALSE]
FinishActive(x, s) ==
  DispatchNext([Mark(x, {x.active}, s) EXCEPT !.active = Nobody, !.timeout = FALSE])

\* markSendingMessagesFailed.
FailAll(x) ==
  [Mark(x, {m \in Message : x.status[m] \in {"queued", "sending"}}, "failed") EXCEPT
     !.active = Nobody, !.timeout = FALSE, !.queue = <<>>, !.long = {}]

\* Mutant: one key is asked for only.
WantsAvatarAgain(x, p) == p \notin x.blocked /\ p \notin x.sentKeys
WantsAvatar(x, p) == p \notin x.blocked /\ p \notin x.sentKeys /\ p \notin x.queuedKeys

\* enqueueAvatarForPeer, for each of ps.
EnqueueAvatars(x, ps) ==
  LET new == {p \in ps : WantsAvatar(x, p)} IN
  IF new = {} THEN x
  ELSE ScheduleAvatarSend([x EXCEPT !.avatars = @ \o SetToSeq(new), !.queuedKeys = @ \cup new])

-----------------------------------------------------------------------------

\* The app goes on with x, the link with p; a message that has become the
\* active one is sent to the pendant.
Becomes(x, p) ==
  /\ app' = x
  /\ pendant' = IF x.active \in {Nobody, app.active} THEN p
                ELSE [p EXCEPT !.cmds = Append(@, x.active)]

\* Only the app's own state changes, and what it sends.
Acts(x) == Becomes(x, pendant) /\ UNCHANGED <<truth, typed, faults>>

(* The user. *)

\* sendChatMessageText.  The input field counts characters, the command bytes:
\* a text may be too long to send.
SendChatMessageText(p) ==
  LET m      == typed + 1
      queued == [Mark(CancelAvatarSend(app), {m}, "queued") EXCEPT
                   !.to[m] = p, !.queue = Append(@, m)]
  IN
  /\ app.ready /\ p \notin app.blocked /\ typed < MaxMessages
  /\ typed' = m
  /\ \E long \in SUBSET {m} :
       Becomes(DispatchNext([queued EXCEPT !.long = @ \cup long]), pendant)
  /\ UNCHANGED <<truth, faults>>

\* The same, for a neighbour who is blocked or while there is no link.
RefuseChatMessageText(p) ==
  /\ ~app.ready \/ p \in app.blocked
  /\ Acts(Strand(app))

\* removeIf; p is in avatars once at most (TypeOK).
Without(avatars, p) ==
  IF p \in ToSet(avatars)
  THEN RemoveAt(avatars, CHOOSE i \in DOMAIN avatars : avatars[i] = p)
  ELSE avatars

BlockPeer(p) ==
  /\ p \notin app.blocked
  /\ Acts([app EXCEPT !.blocked = @ \cup {p}, !.queuedKeys = @ \ {p}, !.sentKeys = @ \ {p},
                      !.avatars = Without(@, p)])

UnblockPeer(p) ==
  /\ p \in app.blocked
  /\ Acts([app EXCEPT !.blocked = @ \ {p}])

\* savePickedAvatar: a new picture, for everyone in sight.
SavePickedAvatar ==
  LET cleared == [app EXCEPT !.sentKeys = {}, !.queuedKeys = {}, !.avatars = <<>>]
  IN  Acts(ScheduleAvatarSend(EnqueueAvatars(cleared, app.peers)))

-----------------------------------------------------------------------------
(* Runnables. *)

\* handleActiveChatSendTimeout
RunChatTimeout ==
  /\ app.timeout
  /\ Acts(FinishActive(app, "unconfirmed"))

\* trySendNextAvatar.  Whether the neighbour is blocked is not asked here.
TrySendNextAvatar ==
  LET x       == CancelAvatarSend(app)
      unsent  == {i \in DOMAIN x.avatars : x.avatars[i] \notin x.sentKeys}
      first   == CHOOSE i \in unsent : \A j \in unsent : i <= j
      rest    == IF unsent = {} THEN <<>> ELSE SubSeq(x.avatars, first + 1, Len(x.avatars))
      popped  == [x EXCEPT !.avatars = rest, !.queuedKeys = ToSet(rest)]
  IN
  /\ app.avatarTimer
  /\ Acts(CASE ~x.ready -> Strand(x)
            [] x.ready /\ (HasPendingChatWork(x) \/ x.file # "idle") -> ScheduleAvatarSend(x)
            [] x.ready /\ ~HasPendingChatWork(x) /\ x.file = "idle" /\ unsent = {} -> popped
            [] OTHER -> [popped EXCEPT !.file = "avatar", !.fileTo = x.avatars[first],
                                       !.sentKeys = @ \cup {x.avatars[first]}])

-----------------------------------------------------------------------------
(* Callbacks of the file transfer. *)

\* handleFileTxCompleted
AvatarDone(x) == IF x.avatars # <<>> THEN ScheduleAvatarSend(x) ELSE x

\* handleFileTxFailed
AvatarFailed(x) ==
  LET p == x.fileTo
      y == [x EXCEPT !.sentKeys = @ \ {p}]
  IN  ScheduleAvatarSend(
        IF p \in y.queuedKeys THEN y
        ELSE [y EXCEPT !.queuedKeys = @ \cup {p}, !.avatars = Append(@, p)])

FileIdle(x) == [x EXCEPT !.file = "idle", !.fileTo = None]

FileEnds ==
  \/ app.file = "avatar" /\ Acts(FileIdle(AvatarDone(app)))
  \/ app.file = "avatar" /\ Acts(FileIdle(AvatarFailed(app)))
  \/ app.file = "other" /\ Acts(FileIdle(app))

\* An image is sent, or reports about one that is received.
FileStarts ==
  /\ app.ready /\ app.file = "idle"
  /\ Acts([app EXCEPT !.file = "other"])

-----------------------------------------------------------------------------
(* What the pendant sends: onHostMessage, onDebugReady. *)

\* GET_PEER_TABLE or the pages of GET_PEER_PROFILES have been read.
SeePeers ==
  /\ app.ready
  /\ \E ps \in SUBSET Visible : Acts(EnqueueAvatars([app EXCEPT !.peers = ps], ps))

\* A result without a short id fits every message.  Mutant: any result does.
AnyPeer(x, note) == x.active # Nobody
SamePeer(x, note) == x.active # Nobody /\ note.to \in {None, x.to[x.active]}

\* chatTxStatusText
ChatTxStatus(result) ==
  CASE result = "success" -> "delivered"
    [] result = "timeout" -> "unconfirmed"
    [] OTHER -> "failed"

OnHostMessage ==
  LET note  == Head(pendant.notes)
      heard == [pendant EXCEPT !.notes = Tail(@)]
      fits  == IF note.name = "rsp" THEN app.active = note.message ELSE SamePeer(app, note)
      s     == IF note.name = "rsp" THEN "failed" ELSE ChatTxStatus(note.result)
  IN
  /\ pendant.notes # <<>> /\ app.ready
  /\ Becomes(IF fits THEN FinishActive(app, s) ELSE app, heard)
  /\ UNCHANGED <<truth, typed, faults>>

OnDebugReady ==
  /\ ~app.ready
  /\ Acts([app EXCEPT !.ready = TRUE])

Happens(fault) ==
  /\ fault \in Faults /\ faults < MaxFaults
  /\ faults' = faults + 1

\* The link goes: what was written to the pendant may still be carried out.
Unlinked(n) == [pendant EXCEPT !.cmds = SubSeq(@, 1, n), !.notes = <<>>]

LinkGone(x) ==
  \E n \in {k \in 0..1 : k <= Len(pendant.cmds)} : app' = x /\ pendant' = Unlinked(n)

\* onDebugReady(false): the file transfer ends first.
OnLinkLost ==
  LET x == IF app.file = "avatar" THEN AvatarFailed(app) ELSE app IN
  /\ app.ready /\ Happens("link")
  /\ LinkGone(Strand([FailAll(FileIdle(x)) EXCEPT !.ready = FALSE, !.peers = {}]))
  /\ UNCHANGED <<truth, typed>>

UnbindDevice ==
  /\ app.ready /\ Happens("unbind")
  /\ LinkGone([app EXCEPT !.ready = FALSE, !.peers = {}])
  /\ UNCHANGED <<truth, typed>>

\* loadChatHistory and restoreMessageStatus: what was under way is unconfirmed,
\* who had the avatar is forgotten.
Restarted(x) ==
  [Fresh EXCEPT !.blocked = x.blocked, !.to = x.to,
                !.status = [m \in Message |-> IF x.status[m] \in {"queued", "sending"}
                                              THEN "unconfirmed" ELSE x.status[m]]]

Restart ==
  /\ Happens("restart")
  /\ LinkGone(Restarted(app))
  /\ UNCHANGED <<truth, typed>>

-----------------------------------------------------------------------------
(* The pendant (HostCmd, PeerTransport): one message at a time; answers and  *)
(* results go to whoever is linked when they are sent.                       *)

Notify(p, note) == IF app.ready THEN [p EXCEPT !.notes = Append(@, note)] ELSE p

PendantTakes ==
  LET m     == Head(pendant.cmds)
      taken == [pendant EXCEPT !.cmds = Tail(@)]
      rsp   == [name |-> "rsp", message |-> m, to |-> None, result |-> "failed"]
  IN
  /\ pendant.cmds # <<>>
  /\ \/ pendant.tx = Nobody /\ pendant' = [taken EXCEPT !.tx = m]
     \/ pendant' = Notify(taken, rsp)
  /\ UNCHANGED <<app, truth, typed, faults>>

\* The transport reports once; without a short id if the neighbour has left
\* the table by then.
PendantReports ==
  LET m == pendant.tx IN
  /\ m # Nobody
  /\ \E r \in Result, p \in {None, app.to[m]} :
       LET note == [name |-> "result", message |-> m, to |-> p, result |-> r] IN
       /\ pendant' = Notify([pendant EXCEPT !.tx = Nobody], note)
       /\ truth' = [truth EXCEPT ![m] =
            IF r # "success" THEN @ ELSE IF p = None THEN "unnamed" ELSE "success"]
  /\ UNCHANGED <<app, typed, faults>>

Lose ==
  /\ Happens("lost")
  /\ \/ pendant.cmds # <<>> /\ pendant' = [pendant EXCEPT !.cmds = Tail(@)]
     \/ pendant.notes # <<>> /\ pendant' = [pendant EXCEPT !.notes = Front(@)]
  /\ UNCHANGED <<app, truth, typed>>

-----------------------------------------------------------------------------

Next ==
  \/ \E p \in Peer : SendChatMessageText(p) \/ RefuseChatMessageText(p)
  \/ \E p \in Visible : BlockPeer(p) \/ UnblockPeer(p)
  \/ SavePickedAvatar \/ RunChatTimeout \/ TrySendNextAvatar
  \/ FileStarts \/ FileEnds \/ SeePeers
  \/ OnHostMessage \/ OnDebugReady \/ OnLinkLost \/ UnbindDevice \/ Restart
  \/ PendantTakes \/ PendantReports \/ Lose

\* Posted Runnables run.  Nothing is assumed of the link or the pendant.
Fairness == WF_vars(RunChatTimeout) /\ WF_vars(TrySendNextAvatar)

Spec == Init /\ [][Next]_vars /\ Fairness

-----------------------------------------------------------------------------
(* Properties. *)

\* Who is told "delivered" has had something delivered by that neighbour: a
\* late result may end the wait of the next message (only the short id is
\* compared), but of one to the same neighbour.  Results without a short id,
\* from a neighbour that left the table, are the exception.
DeliveredByPeer ==
  \A m \in Message :
    app.status[m] = "delivered" =>
      \E k \in Message : truth[k] = "unnamed" \/ (truth[k] = "success" /\ app.to[k] = app.to[m])

\* Every message ends with a verdict, whatever is lost, refused, blocked or
\* restarted: the time-out moves the queue (dispatchNextChatSend).
MessagesSettle ==
  \A m \in Message :
    app.status[m] \in {"queued", "sending"} ~> app.status[m] \in Final

\* Avatars that wait have something that will send them: the Runnable, or a
\* message or a transfer that posts it when it ends.
\* (stranded: a refused text, a lost link or a check without a link took the
\* Runnable away, and nothing posts it again before another event does.)
AvatarsMove ==
  app.avatars # <<>> /\ ~app.stranded =>
    app.avatarTimer \/ HasPendingChatWork(app) \/ app.file = "avatar"

\* No avatar goes to a neighbour who is blocked: the privacy notes, line 9.
NoAvatarToBlocked ==
  [][app.file # "avatar" /\ app'.file = "avatar" => app'.fileTo \notin app.blocked]_vars

=============================================================================
