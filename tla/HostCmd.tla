------------------------------- MODULE HostCmd -------------------------------
(***************************************************************************)
(* The command channel between one host (phone or PC) and the pendant:     *)
(* request assembly, the deferred command, the chat event mailbox          *)
(* (host_cmd/app_host_cmd.c) and the notification ring under them          *)
(* (host_gatt/app_host_gatt.c), for the release build.                     *)
(*                                                                         *)
(* One pass of the main loop is a run of stack callbacks (turn "stack"),   *)
(* then the two halves of app_host_cmd_poll (turns "cmd" and "chat"), then *)
(* app_host_gatt_poll.  While an update is in progress app_pendant_poll    *)
(* returns before them; the update ends in a reset of the pendant.         *)
(***************************************************************************)
EXTENDS Naturals, Sequences, FiniteSets

CONSTANTS
  Seqs,        \* sequence numbers the host gives its requests
  Cmds,        \* the command bytes the host uses
  Eids,        \* the neighbours' identities
  EidByte,     \* the first three bytes of each identity
  RingSize,    \* HOST_GATT_NOTIFY_QUEUE_SIZE
  RequestCap,  \* fragments of a request that fit in s_rx.buf
  RspFrags,    \* fragments of a response that carries a payload
  ChatFrags,   \* possible numbers of fragments of a chat event with its text
  MaxConns,    \* bound: connections
  MaxChats     \* bound: chat messages from neighbours

ASSUME SizeAssumption == /\ RingSize \in Nat \ {0}
                         /\ RequestCap \in Nat \ {0}
                         /\ RspFrags \in Nat \ {0}
                         /\ ChatFrags \subseteq Nat \ {0}
\* Sequence numbers and commands are a byte of the frame.
ASSUME ByteAssumption ==
  /\ Seqs \subseteq 0 .. 255 /\ Cmds \subseteq 0 .. 255
  /\ EidByte \in [Eids -> [0 .. 2 -> 0 .. 255]]

GET_DEVICE_INFO   == 1
GET_PEER_TABLE    == 4
SHELL_EXEC        == 16
CHAT_SEND         == 17
GET_PROFILE       == 18
SET_PROFILE       == 19
GET_PEER_PROFILES == 20
FILE_SEND         == 21

Deferred == {CHAT_SEND, SET_PROFILE, FILE_SEND}
Reading  == {GET_DEVICE_INFO, GET_PROFILE}
Copying  == {GET_PEER_TABLE, GET_PEER_PROFILES}
Channels == {"rsp", "evt"}

VARIABLES
  turn,      \* whose code runs next: "stack", "cmd", "chat" or "gatt"
  link,      \* s_connected: "up"; "lost" during the pass that lost it
  ccc,       \* which notifications the host has switched on
  ring,      \* s_notify_queue
  rx,        \* s_rx
  pending,   \* s_pending, an arm of the union s_scratch
  mailbox,   \* s_evt_buf and s_p2p_chat_event_*
  ota,       \* the update server: "idle"; "active", or "broken" once the link
             \* is gone; "over" when it is complete and the reset is to come
  asking,    \* the request the host is writing
  owed,      \* history: requests put off and without a response
  stray,     \* history: a response to no request of this connection was queued
  conns, chats

device  == <<turn, link, ccc, ring, rx, pending, mailbox, ota>>
outside == <<asking, conns, chats>>
history == <<owed, stray>>
vars    == <<device, outside, history>>

Idle    == [active |-> FALSE, seq |-> 0, cmd |-> 0]
NoRx    == [active |-> FALSE, seq |-> 0, cmd |-> 0, count |-> 0, next |-> 0]
NoEvent == [state |-> "empty", frags |-> 0, late |-> FALSE]
Updating == ota \in {"active", "broken"}   \* app_ota_is_active()
NoAsk   == [seq |-> 0, cmd |-> 0, count |-> 0, next |-> 0]
Up      == link = "up"
Off     == [c \in Channels |-> FALSE]

Init ==
  /\ turn = "stack" /\ link = "down" /\ ccc = Off
  /\ ring = <<>> /\ rx = NoRx /\ pending = Idle /\ mailbox = NoEvent
  /\ ota = "idle"
  /\ asking = NoAsk
  /\ owed = {} /\ stray = FALSE
  /\ conns = 0 /\ chats = 0

-----------------------------------------------------------------------------
(* The notification ring.                                                   *)

\* Mutant: the fragments that fit are queued.
PutWhatFits(r, ch, n) ==
  IF Up /\ ccc[ch]
  THEN r \o [i \in 1 .. IF Len(r) + n <= RingSize THEN n ELSE RingSize - Len(r)
              |-> [ch |-> ch, frag |-> i, of |-> n]]
  ELSE r

(* A message is taken whole or not at all: all its fragments must fit.  An  *)
(* item keeps its place in its message; what else it says is left out.      *)
Accepts(r, ch, n) == Up /\ ccc[ch] /\ Len(r) + n <= RingSize

Put(r, ch, n) ==
  IF Accepts(r, ch, n)
  THEN r \o [i \in 1 .. n |-> [ch |-> ch, frag |-> i, of |-> n]]
  ELSE r

(* send_rsp: the status it returns is dropped, so a refused response is     *)
(* lost.                                                                    *)
Respond(seq, n) ==
  /\ ring' = Put(ring, "rsp", n)
  /\ owed' = owed \ {seq}

(* app_host_gatt_poll: one item per pass; an item whose notifications are   *)
(* off is dropped; an item the stack refuses stays.                         *)
GattPoll ==
  /\ turn = "gatt" /\ turn' = "stack"
  /\ link' = IF link = "lost" THEN "down" ELSE link
  /\ \/ Up /\ ring # <<>> /\ ring' = Tail(ring)
     \/ /\ Up /\ ring # <<>> => ccc[Head(ring).ch]
        /\ UNCHANGED ring
  /\ UNCHANGED <<ccc, rx, pending, mailbox, ota, outside, history>>

-----------------------------------------------------------------------------
(* Commands.                                                                *)

(* The snapshots of the peer table and of the profile cache are written     *)
(* over s_pending: the first record's leading bytes become its fields.      *)
TableAlias(e) ==
  [active |-> EidByte[e][0] # 0, seq |-> EidByte[e][1], cmd |-> EidByte[e][2]]
ProfileAlias(e) ==
  [active |-> TRUE, seq |-> EidByte[e][0], cmd |-> EidByte[e][1]]

Overlaid(cmd) ==
  {pending} \cup IF cmd = GET_PEER_TABLE THEN {TableAlias(e) : e \in Eids}
                                        ELSE {ProfileAlias(e) : e \in Eids}

\* Mutant: the test for a pending command is dropped.
NeverBusy == FALSE
Busy      == pending.active

(* handle_command: BUSY while a command is pending; reading commands answer *)
(* at once; deferred ones are checked and left to the poll; the rest are    *)
(* refused.                                                                 *)
HandleCommand(seq, cmd) ==
  \/ /\ Busy
     /\ Respond(seq, 1) /\ UNCHANGED pending
  \/ /\ ~Busy /\ cmd \in Reading
     /\ Respond(seq, RspFrags) /\ UNCHANGED pending
  \/ /\ ~Busy /\ cmd \in Copying
     /\ Respond(seq, RspFrags) /\ pending' \in Overlaid(cmd)
  \/ /\ ~Busy /\ cmd \in Deferred
     /\ pending' = [active |-> TRUE, seq |-> seq, cmd |-> cmd]
     /\ owed' = owed \cup {seq} /\ UNCHANGED ring
  \/ /\ ~Busy /\ cmd \notin Reading \cup Copying  \* or a bad payload
     /\ Respond(seq, 1) /\ UNCHANGED pending

(* app_host_cmd_on_rx_frame: fragment 0 starts over, a fragment out of      *)
(* place or too much data is answered with an error, the last fragment runs *)
(* the command.                                                             *)
OnRxFrame(seq, cmd, count, index) ==
  LET begun == IF index = 0
               THEN [active |-> TRUE, seq |-> seq, cmd |-> cmd,
                     count |-> count, next |-> 0]
               ELSE rx
      fits  == /\ begun.active /\ begun.seq = seq /\ begun.cmd = cmd
               /\ begun.count = count /\ begun.next = index
  IN  \/ /\ ~fits \/ index >= RequestCap
         /\ rx' = NoRx
         /\ Respond(seq, 1) /\ UNCHANGED pending
      \/ /\ fits /\ index < RequestCap /\ index + 1 < count
         /\ rx' = [begun EXCEPT !.next = index + 1]
         /\ UNCHANGED <<pending, ring, owed>>
      \/ /\ fits /\ index < RequestCap /\ index + 1 = count
         /\ rx' = NoRx
         /\ HandleCommand(seq, cmd)

\* Mutant: a path out of the poll leaves the command active.
NotCleared == pending
Cleared    == Idle

(* handle_flash_pending.  In the release build nothing executes SHELL_EXEC, *)
(* and the test for it comes first.  What the neighbours, the transport or  *)
(* the flash make of a command only shows in the size of its response.  The *)
(* fields of a command that is no longer active are never read.             *)
FlashPending ==
  /\ turn = "cmd" /\ turn' = "chat"
  /\ \/ /\ ~pending.active \/ pending.cmd = SHELL_EXEC
        /\ UNCHANGED <<pending, ring, owed, stray>>
     \/ /\ pending.active /\ pending.cmd \in Deferred
        /\ pending' = Cleared
        /\ \E n \in {1, RspFrags} :
             /\ Respond(pending.seq, n)
             /\ stray' = (stray \/ (Accepts(ring, "rsp", n) /\ pending.seq \notin owed))
     \/ /\ pending.active /\ pending.cmd \notin Deferred \cup {SHELL_EXEC}
        /\ pending' = Cleared
        /\ UNCHANGED <<ring, owed, stray>>
  /\ UNCHANGED <<link, ccc, rx, mailbox, ota, outside>>

-----------------------------------------------------------------------------
(* The chat event mailbox.                                                  *)

\* Mutant: the notice never expires.
RetimedForEver(event) ==
  IF event.late THEN [state |-> "notice", frags |-> 1, late |-> FALSE] ELSE event

(* An unsent text becomes a notice without text after 5 s, and the notice   *)
(* is given up after 60 s.                                                  *)
Retimed(event) ==
  CASE event.state = "text" /\ event.late ->
         [state |-> "notice", frags |-> 1, late |-> FALSE]
    [] event.state = "notice" /\ event.late -> NoEvent
    [] OTHER -> event

(* handle_p2p_chat_event_pending: what the ring refuses stays.              *)
ChatEventPending ==
  LET event == Retimed(mailbox)
      sent  == event.state # "empty" /\ Accepts(ring, "evt", event.frags)
  IN  /\ turn = "chat" /\ turn' = "gatt"
      /\ mailbox' = IF sent THEN NoEvent ELSE event
      /\ ring' = IF sent THEN Put(ring, "evt", event.frags) ELSE ring
      /\ UNCHANGED <<link, ccc, rx, pending, ota, outside, history>>

(* app_host_cmd_notify_p2p_chat_encrypted: a new text replaces an unsent    *)
(* one.                                                                     *)
ChatArrives ==
  /\ turn = "stack" /\ ~Updating /\ chats < MaxChats
  /\ \E n \in ChatFrags :
       mailbox' = [state |-> "text", frags |-> n, late |-> FALSE]
  /\ chats' = chats + 1
  /\ UNCHANGED <<turn, link, ccc, ring, rx, pending, ota, asking, conns, history>>

TimePasses ==
  /\ mailbox.state # "empty" /\ ~mailbox.late
  /\ mailbox' = [mailbox EXCEPT !.late = TRUE]
  /\ UNCHANGED <<turn, link, ccc, ring, rx, pending, ota, outside, history>>

(* Level, file and send-result events: one try, whatever becomes of it.     *)
EventOnce ==
  /\ turn = "stack" /\ ~Updating /\ Len(ring) < RingSize
  /\ Accepts(ring, "evt", 1)
  /\ ring' = Put(ring, "evt", 1)
  /\ UNCHANGED <<turn, link, ccc, rx, pending, mailbox, ota, outside, history>>

-----------------------------------------------------------------------------
(* The stack's callbacks, and the world.                                    *)

Connect ==
  /\ turn = "stack" /\ link = "down" /\ conns < MaxConns
  /\ link' = "up" /\ conns' = conns + 1
  /\ UNCHANGED <<turn, ccc, ring, rx, pending, mailbox, ota, asking, chats, history>>

(* app_host_gatt_on_disconnected; the command layer is not told.            *)
Disconnect ==
  /\ turn = "stack" /\ Up
  /\ link' = "lost" /\ ccc' = Off /\ ring' = <<>>
  /\ ota' = IF ota = "active" THEN "broken" ELSE ota
  /\ asking' = NoAsk /\ owed' = {}
  /\ UNCHANGED <<turn, rx, pending, mailbox, conns, chats, stray>>

CccWrite ==
  /\ turn = "stack" /\ Up
  /\ \E c \in Channels : ccc' = [ccc EXCEPT ![c] = ~@]
  /\ UNCHANGED <<turn, link, ring, rx, pending, mailbox, ota, outside, history>>

(* The host begins a request, giving up the one it was writing, or writes   *)
(* the next fragment of it.  A request without payload is one fragment.     *)
Beginnings ==
  {r \in [seq : Seqs \ owed, cmd : Cmds, count : 1 .. RequestCap + 1, next : {0}] :
     r.cmd \in Deferred \/ r.count = 1}

Write(r) ==
  /\ turn = "stack" /\ Up
  /\ asking' = IF r.next + 1 = r.count THEN NoAsk ELSE [r EXCEPT !.next = @ + 1]
  /\ UNCHANGED <<turn, link, ccc, mailbox, ota, conns, chats, stray>>

Requested == Beginnings \cup ({asking} \ {NoAsk})

CmdWrite ==
  \E r \in Requested : Write(r) /\ OnRxFrame(r.seq, r.cmd, r.count, r.next)

(* The fragment is damaged on the way and fails app_host_frame_decode.      *)
DamagedWrite ==
  \E r \in Requested : Write(r) /\ UNCHANGED <<ring, rx, pending, owed>>

(* The update server begins an update of this connection, and completes it. *)
OtaStart ==
  /\ turn = "stack" /\ Up /\ ota = "idle"
  /\ ota' = "active"
  /\ UNCHANGED <<turn, link, ccc, ring, rx, pending, mailbox, outside, history>>

OtaSucceeds ==
  /\ turn = "stack" /\ ota = "active"
  /\ ota' = "over"
  /\ UNCHANGED <<turn, link, ccc, ring, rx, pending, mailbox, outside, history>>

(* The reset in the result of a failed update (app_ota_guard_abort_update), *)
(* or of the update server after a complete one.                            *)
OtaReset ==
  /\ turn = "stack" /\ ota # "idle"
  /\ link' = "down" /\ ccc' = Off
  /\ ring' = <<>> /\ rx' = NoRx /\ pending' = Idle /\ mailbox' = NoEvent
  /\ ota' = "idle" /\ asking' = NoAsk /\ owed' = {}
  /\ UNCHANGED <<turn, conns, chats, stray>>

(* app_pendant_poll once the stack has run.                                 *)
EndOfStack ==
  /\ turn = "stack"
  /\ \/ ~Updating /\ turn' = "cmd" /\ UNCHANGED link
     \/ /\ Updating /\ UNCHANGED turn
        /\ link' = IF link = "lost" THEN "down" ELSE link
  /\ UNCHANGED <<ccc, ring, rx, pending, mailbox, ota, outside, history>>

Next ==
  \/ EndOfStack \/ FlashPending \/ ChatEventPending \/ GattPoll
  \/ ChatArrives \/ TimePasses \/ EventOnce
  \/ Connect \/ Disconnect \/ CccWrite
  \/ CmdWrite \/ DamagedWrite \/ OtaStart \/ OtaSucceeds \/ OtaReset

(* The main loop goes round, an update ends, and clocks run.                *)
Fairness ==
  /\ WF_vars(EndOfStack) /\ WF_vars(FlashPending)
  /\ WF_vars(ChatEventPending) /\ WF_vars(GattPoll)
  /\ WF_vars(OtaSucceeds \/ OtaReset) /\ WF_vars(TimePasses)

Spec     == Init /\ [][Next]_vars
LiveSpec == Spec /\ Fairness

-----------------------------------------------------------------------------
Bytes == 0 .. 255

TypeOK ==
  /\ turn \in {"stack", "cmd", "chat", "gatt"}
  /\ link \in {"down", "up", "lost"}
  /\ ccc \in [Channels -> BOOLEAN]
  /\ ring \in Seq([ch : Channels, frag : Nat, of : Nat])
  /\ Len(ring) <= RingSize
  /\ rx \in [active : BOOLEAN, seq : Bytes, cmd : Bytes, count : Nat, next : Nat]
  /\ pending \in [active : BOOLEAN, seq : Bytes, cmd : Bytes]
  /\ mailbox \in [state : {"empty", "text", "notice"}, frags : Nat, late : BOOLEAN]
  /\ ota \in {"idle", "active", "broken", "over"}
  /\ owed \subseteq Seqs /\ stray \in BOOLEAN

(* A response carries the sequence number of a request of this connection   *)
(* that has none yet, also when a command is put off and the link is lost   *)
(* and made again, or an update runs, before the poll that answers it       *)
(* (send_rsp; the host matches responses to requests by this number).       *)
RspReusesSeq == ~stray

(* The ring holds what is left of one message and then whole messages,      *)
(* fragment by fragment, and nothing for a host that is gone: a host that   *)
(* listens can put every message together, although responses, chat texts   *)
(* and events share the ring and the link may go in the middle of one       *)
(* (app_host_gatt_send_message_with_seq, app_host_gatt_on_disconnected).    *)
Follows(x, y) ==
  \/ x.frag < x.of /\ y = [x EXCEPT !.frag = @ + 1]
  \/ x.frag = x.of /\ y.frag = 1

WholeMessages ==
  /\ \A i \in 1 .. Len(ring) - 1 : Follows(ring[i], ring[i + 1])
  /\ ring # <<>> => ring[Len(ring)].frag = ring[Len(ring)].of
  /\ ~Up => ring = <<>>

(* Every command put off is answered (or its answer refused by the ring):   *)
(* it is not overwritten by a later command and not forgotten over an       *)
(* update, as long as the link and the pendant last (s_pending,             *)
(* handle_flash_pending).                                                   *)
Answered == \A seq \in Seqs : seq \in owed ~> seq \notin owed

(* The chat mailbox empties, whatever the host and the ring do              *)
(* (handle_p2p_chat_event_pending).                                         *)
ChatSettles == mailbox.state # "empty" ~> mailbox.state = "empty"

(* A chat text that finds the ring empty, the host connected and listening  *)
(* is queued (handle_p2p_chat_event_pending).                               *)
EmptyRingTakesText ==
  [][ (/\ turn = "chat" /\ mailbox.state = "text" /\ ~mailbox.late
       /\ Up /\ ccc["evt"] /\ ring = <<>>)
      => mailbox' = NoEvent ]_vars

=============================================================================
