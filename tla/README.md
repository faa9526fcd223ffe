# Glimmer pendant: verification models

Models, model-checking runs and proofs for the Glimmer pendant: its firmware
(`src/tc_ble_multi_sdk/vendor/pendant/`, the program's own code on top of the
vendored Telink SDK) and the Android app that talks to it
(`src/android_glimmer_app/`). Paths of C files are relative to the first of these
directories; the Java files are those of `com/glimmer/app/`. The firmware
modelled is the release build of `app_config.h` (`PENDANT_DEBUG_BUILD 0`,
`PENDANT_RF_TEST_ENABLE 0`, `APP_HOST_ENABLE_ADV_TRANSPORT 0`). One switch
differs: the scan for neighbours is off in `app_config.h:42` at this commit, and
the code that depends on it (discovery, transport between pendants) is modelled
as it runs with the scan on.

## 1. The system

The pendant is a battery-powered BLE device. It beacons over extended
advertising, listens for the pendants around it and keeps a table of them,
exchanges messages with them, serves one phone or PC at a time over GATT, and
takes firmware updates over the same link.

One thread runs everything: `main_loop` (`app.c:1038-1074`) feeds the watchdog,
runs the BLE stack, which calls back into the application (scan reports, GATT
writes, connections, update callbacks), and then `app_pendant_poll`
(`app_pendant.c:111-153`), which polls each component in a fixed order. While an
update is in progress the poll returns after `app_system_poll`. There are no
preemptive threads. What makes the system hard is: callbacks that change state
between two polls, polls that act on what an earlier callback left, queues of one
to sixteen entries whose refusals the callers ignore, lossy and repeating radio
links between independent devices, timers, resets, and the loss of power between
any two flash operations.

The app runs on the phone's main thread. Android's GATT callbacks arrive on
another thread and are posted to it; Runnables are posted with delays. Two phones
exchange messages and objects (pictures, avatars) through their pendants:
`MainActivity` queues them, `GlimmerFileTransfer` cuts objects into frames,
`GlimmerBleClient` writes each command to the pendant in packets, and the
pendant's host channel hands it to the peer transport. Hard here are: one-slot
waits that an answer must end, answers that come late or belong to an earlier
link, and timers that one event removes and another must post again.

### 1.1 Components

| Component | State | Operations | Talks to | Correct when |
|---|---|---|---|---|
| OTA guard (`app_ota.c`) | guard record in RAM and flash, backup sector, two image slots, trial flag | boot check, start and result callbacks, rollback, abort, confirmation poll | boot ROM, the stack's OTA server, `system`, `ble`, `pm` | something boots after any power loss; never an older image than the confirmed one; a promised backup is real; a trial ends |
| Peer transport (`peer_transport/`) | one transmit and one receive context, one completed entry, one ack slot, message ids | send, poll, data and ack frames | scheduler, scanner, host commands | a message is handed up whole, once, in order; reported once; success only after delivery; a report always comes |
| Advertising scheduler (`adv_scheduler/`) | a queue of one frame, hold timer | enqueue, poll | `ble`, transport | a frame is on air until its hold ends or the link takes the radio |
| Scanner (`scan/`) | deferred frames, one pending beacon | report callback, poll | transport, discovery, profiles | frames are handled in order outside the callback |
| Host channel (`host_cmd/`, `host_frame/`, `host_transport/`, `host_gatt/`) | request assembly, one deferred command, chat mailbox, ring of notifications | GATT writes, two polls, subscription, link events | everything a host can ask for | responses answer requests; messages are whole; what is deferred is answered; the mailbox empties |
| State machine and events (`system/`, `event/`) | the state, a queue of four events | poll, request to sleep, errors | all | no event is lost; the state agrees with the link |
| Radio and link (`ble/`) | what is advertised and scanned, what to resume after the link | switches, connected, disconnected | stack, `system`, `app_ota.c` | a pendant that waits can be found |
| Power (`pm/`, `battery/`, `charge/`, `motion/`) | blockers of suspend, idle seconds, request to sleep | poll, hold, wake | `system`, stack | suspends exactly when nothing forbids it; sleeps when left alone; never over an update |
| Neighbours (`peer_table/`, `discovery/`) | four records with a level and dwell timers | beacon, time-out | scanner, events, host channel | the table is bounded; levels change a step at a time |
| Own card (`profile/`, commands 0x05 and 0x06 of `host_cmd/`) | card in RAM, its record, the beacon | set, save, load, beacon | host channel, advertising, self check | outside a save the record restores the card; the beacon follows the card |
| Other stored records (`storage/`, `identity/`, `config/`, `factory/`) | one flash sector each | load, save, lock | self check, host channel | after a power loss the record is the old one, the new one or recognised as damaged |
| Motor, crypto, advertising codec, board, diag, debug shell | outputs, pure functions, tables | | | |
| File transfer (`GlimmerFileTransfer.java`) | one frame in flight and a queue, a sending and a receiving session, four timers | send, responses, START, DATA, REPORT, DONE, watchdog, loss of the link | BLE client, chat pages, the other phone | every object gets one verdict, a good one only if it arrived whole; the queue never sleeps; the rounds end |
| BLE client (`GlimmerBleClient.java`) | one GATT client, packet queue, subscription queue, an update | connect, disconnect, GATT callbacks, commands, update | Android, the pendant, `MainActivity` | a ready channel is subscribed; packets move on; an update arrives whole and in order and ends with a true verdict |
| Chat and avatars (`MainActivity.java`) | active message and queue, statuses, avatar queue and two key sets, blocked neighbours | send, results, time-out, block, avatar timer, link, restart | BLE client, file transfer, stored history | every message gets a verdict, "delivered" only of that neighbour; avatars go on after chat; nothing to blocked neighbours |
| Profile and stealth mode (`MainActivity.java`) | stored wish to be hidden, the card read on this link, text of the edit page | toggle, edit, save, full synchronisation, answers, link, restart | BLE client, own card | the card shown is the pendant's; the wish reaches the beacon; a nickname changes only when the user saves one |
| Android probe, PC tools | their own | | host channel | |

### 1.2 Hard behaviours

`PROJECT.json` lists every hazard at its line, with the properties that would
catch it going wrong or the reason none does. The groups are:

- power loss inside rollback, abort, backup and the save of the guard record;
- message ids reused after a reset, acknowledgements of an earlier context,
  repeated frames after completion, single-entry queues overwritten;
- a deferred command that meets another request, a new connection, an update, or
  a handler that reuses its memory; a ring too small for a message;
- a queue of four events that one pass can fill exactly; connections in the radio
  that the firmware has not heard of; an update that outlives its link;
- a change of the card that is put off, refused, lost with its link, or half
  written when the power fails; a card read on an earlier link;
- phones: an answer that was lost with its command, a result that arrives after
  its time-out, callbacks of a link that has been closed, a timer that nothing
  posts again.

Known besides those listed, and open: the last trial start, whose rollback finds the
previous image erased (`app_ota.c:548`), a text that never fits the ring
(`app_host_gatt.c:344`, both shown in section 4), a receive context that times out
before the sender repeats (`app_peer_transport.c:651`); eviction of the one completed entry by a
third pendant (`app_peer_transport.c:282`); a text decrypted over one that waits
(`app_host_cmd.c:1506`); a refused advertising enable (`app_ble.c:115`);
neighbours that time out without a level event (`app_peer_table.c:114`); a failed
CRC whose REPORT ends the transfer well before DONE can say otherwise
(`GlimmerFileTransfer.java:463`); the START of a second sender (`:340`); reports
for an abandoned object every two seconds (`:546`); `disconnect()` without a word
to the update's listener (`GlimmerBleClient.java:259`); a picture compressed while
its receiver is blocked (`MainActivity.java:2686`); a scan result after the
background release (`:3719`).

## 2. Modules

| Module | Stands for |
|---|---|
| `OtaGuard` | `app_ota.c`: every handler, one action per flash operation |
| `OtaGuardProofs` | its theorems |
| `PeerTransport` | `peer_transport/` with the scheduler's slot and the scanner's deferred frame, several pendants |
| `PeerTransportProofs` | its theorems, with the refinement of `ReliableMessage` |
| `ReliableMessage` | what the transport promises its users, without its mechanism |
| `HostCmd` | `host_cmd/` over `host_gatt/`, one host at a time |
| `HostCmdProofs` | its theorems |
| `Pendant` | main loop, `event/`, `system/`, `ble/`, `pm/`, neighbours, the radio side of an update |
| `PendantProofs` | its theorems |
| `FileTransfer` | `GlimmerFileTransfer.java`, two phones and the frame each pendant has on air |
| `FileTransferProofs` | its theorems, with the refinement of `ObjectTransfer` |
| `ObjectTransfer` | what the file transfer promises the chat page |
| `BleClient` | `GlimmerBleClient.java` with Android's GATT client and the pendant's update server |
| `BleClientProofs` | its theorems |
| `ChatSend` | outgoing messages and avatars of `MainActivity.java` |
| `ChatSendProofs` | its theorems |
| `ProfileCard` | the own card: `profile/`, its two commands, nickname and stealth mode of `MainActivity.java` |
| `ProfileCardProofs` | its theorems |
| `MC...` | model values and bounds |

They meet where the code does: the `drop` fault of `FileTransfer` and `lost` of
`ChatSend` are what `BleClient` does when a write is refused; `PendantAnswers`
and `PendantTakes` are the handlers of `HostCmd`; a result in `ChatSend` is the
report that `PeerTransport` gives its user; `FileStarts` and `FileEnds` of
`ChatSend` are what `ObjectTransfer` promises. The deferred command of
`ProfileCard` is the one of `HostCmd`, `CommandLost` what `BleClient` does when a
write is refused, `AnswerLost` a response that `HostCmd`'s ring has no room for.

### 2.1 OtaGuard

A slot is its first sector (boot mark and code) and its body; a sector is erased
and then programmed, and `PowerLoss` may come between any two operations.
`pc` names the next flash operation of the handler that runs; `then` where it
goes on after a save. `BootCheck` is `app_ota_guard_boot_check` up to its first
flash operation, and so for each handler. The server of the stack is external:
it erases the other slot at initialisation, programs it, sets the new mark,
clears the old one and reports a result before or after that, as
`app_ota_guard_abort_update` prepares for both. Flash operations themselves do
not fail, so `s_guard_valid` is always 1 after the boot check.
`ready` says that the self check passed: without it the state is ERROR, the pendant
feeds its watchdog for ever and neither confirms nor advertises. Hosts may start an
update whenever the main loop runs, also on an image on trial. `overwritten` is
history: an image was installed while the running one was on trial, and between the
result and the reboot the poll confirmed the running image in the record of the new
one (`app_ota.c:424-441`).

### 2.2 PeerTransport

A frame stays on air until it is replaced; a listener hears it any number of
times or never, so loss, delay and repetition need no actions of their own. A
message has at most two fragments. `clock_time_exceed` may answer either way
once its tick is set, so what holds holds for every choice of timers, and
premature time-outs are included (and no claim is made about how long anything
takes). `frame_seq` tells transmissions of a fragment
apart, as the retry round does. A reset restarts `s_message_id`. Left out:
`debug_drop_*`, frames of protocol v1, the message type (one for all). `outcome` is
what the callback is told: it is called for messages with the NOTIFY flag, which are
the reliable ones. `ReliableMessage` is the abstract specification;
`KeepsPromise` states the refinement for messages of one fragment, under a
mapping that reads the history of deliveries and reports.

### 2.3 HostCmd

Turns "cmd" and "chat" are the two halves of `app_host_cmd_poll`. Ring items are
their channel and place in their message; payloads are sizes. A request is
written in fragments, of which at most one more than the buffer holds; a damaged
one is a write the decoder refuses. `pending` is an arm of the union `s_scratch`:
`Overlaid` is what GET_PEER_TABLE and GET_PEER_PROFILES leave in it when a
neighbour's identity has the bytes `EidByte`. Inactive fields of `pending` are
cleared, since nothing reads them. Whether a chat target is known only changes a
status, not a size. `owed` and `stray` are history: requests put off and not
answered, and a response to no open request of this connection. An update ends in a
reset, whether it fails (`app_ota_guard_abort_update`) or completes; between a good
result and the server's reset the polls run again (`ota` is "over"), and an update
whose link is gone ("broken") ends without them. That it might complete after its
link is gone is left out: the last packet comes over the link.

### 2.4 Pendant

`turn` is whose code runs. `PhoneConnects` is the radio's: it may happen at any
turn, and the firmware hears of it in the next "stack". `radio` holds the flags
of `s_debug` and, in `air0`, whether the phone can see the pendant. An event is
its id. A beacon is a neighbour and the level its averaged RSSI calls for;
`late` says whether the dwell time has passed. `PmCounts` is a second that goes
by, `PmWaits` a pass in which none does. `Reboot` is the wake from deep sleep and
the end of an update: both end in a reset. A failed update resets in its result; after
a complete one the loop runs on with the radio off and the suspend blocked until
`OtaReset`. Assumed: enable calls of the stack
succeed; a link is older than the pass in which an update starts on it; the
stack reports at most `Callbacks` connections and disconnections in one pass.

### 2.5 FileTransfer

`app[p]` holds the fields of one phone's `GlimmerFileTransfer`, the Runnables it
has posted (`timers`) and the commands its pendant has not answered. A handler
is one action that applies the methods it calls, in their order, as functions of
that record. A pendant keeps a frame on air until the next; `Deliver` may come
any number of times when repetition is among the `Faults`, or `Lose` ends it
unheard. The bytes of a chunk are its index, so a complete object has the right
CRC. The branch of `sendActiveFrame` that catches a RuntimeException (526-531) is left
out: the client throws it for a link that is not ready, which was tested just before,
and for frames that `MainActivity` does not build. `orphaned` is history: a command was dropped, or the pendant unbound, with a
frame in flight.

### 2.6 BleClient

`stack` is what Android keeps of the open GATT client, `calls` what its
callbacks have posted to the main thread, each with its link: a posted call may
outlive its link. A packet of a host command is one write; firmware chunks are
counted. `negotiatedMtu` is kept over a disconnect and set by posted calls of links
that have gone (`MtuOfCall`). `flash` is the update as the pendant receives it, `spoilt` when a
packet is out of order, repeated or of another PDU length. `Faults` are refusals
by Android or the pendant: a write, a discovery, an MTU request, a bad result.

### 2.7 ChatSend

`app` holds the fields; `pendant` the commands on the link, the message its
transport is sending and what it has to say. `SendChatMessageText` includes the
whole of `dispatchNextChatSend`. Results carry a short id, or none when the
neighbour has left the table. Messages are never forgotten by `truth`, which
says what the transport reported. `stranded` is history: the avatar Runnable was
taken away by a refused text, a lost link or a check without a link.

### 2.8 ProfileCard

A card is a nickname and the visible flag; signature, tags and avatar seed travel
with the nickname and are left out, and so is its sequence number, which nothing
modelled reads. `down` and `up` are the commands and the answers that carry the
card, in order, lost with the link. BUSY and every other answer that the app
ignores is not sent; `Chat` stands for messages and file frames, which are put off
as well. `saving` is the time between erase and write, in which a power loss leaves
a `Blank` record; flash operations themselves do not fail. `RenderCardPage` is a
choice, because what is rendered depends on the page the user is on; the toggle is
on another page than the edit field. The typed nickname is not empty. The phone
notices a power loss at once: what it sends until then reaches nobody.
`ChannelReady` covers links for an update, which do not synchronise. The neighbour
cache, its paging, and the encryption of the card are left out. `excused` is
history: a command or an answer was lost or refused since the app last read the
card. `Budget` bounds toggles, errands of the user, links and faults.

## 3. Runs

| Run | Shows | Bounds and why they are enough |
|---|---|---|
| `ota_guard` | Updates, aborts, hangs, rollbacks and power losses keep a bootable slot, the backup promise and anti-rollback; the inductive invariant holds; a trial ends unless the image fails its self check | Three images, two of one version: upgrade, downgrade and re-installation occur; two trial starts: a hang before and at the limit. Updates start whenever the main loop runs. The state space is finite without further bounds (15,888 states) |
| `peer_mixed` | Two pendants, a reliable message each way and a broadcast of two fragments: implements `ReliableMessage` | No retry round: what a round adds is in the next run. Both directions share each pendant's contexts, queue and ack slot, which is where messages meet |
| `peer_receiver_reset` | A reliable message of two fragments with one retry round and a receiver that may lose power: acknowledgements tell the truth, the sender always gets its report | One reset reaches every order of lost context, time-out and late acknowledgement |
| `peer_sender_reset` | A sender that starts its ids over: nothing is handed up twice, and fragments meet only when sender, destination and id agree | Two unreliable messages of two fragments, whose fragments wait beside each other and may collide in id after the one reset, and a reliable message whose acknowledgement competes for the queue (2,736,096 states) |
| `host_cmd` | Responses match requests, the ring holds whole messages, deferred commands are answered, the mailbox empties | Two sequence numbers, a request of four of the kinds the dispatcher tells apart (answered at once, refused, copied over the command put off, put off; the other copy is in `MCHostEidAlias.cfg`), two connections, an update, a chat text; a ring of two entries that one response fills and a text of two: every refusal occurs |
| `pendant` | No event is lost, the state follows the link, what was switched off comes back, no sleep or suspend over an update, suspends when unblocked, sleeps when left alone | Two neighbours and one record: the full table occurs; the three real levels; the real queue size; idle limit 3 |
| `file_transfer` | An object of two chunks between two phones over lossy, repeating, busy and refusing pendants and a link that may go: implements `ObjectTransfer`; the queue never sleeps | One object, one fault, one busy retry, one repair and one resend round: each limit is met with each fault; a test transfer that leaves out a chunk makes repairs certain |
| `file_faults` | Every fault, also a dropped command and an unbind: a frame in flight has something to end its wait; every transfer ends | One chunk; the two orphaning faults are exceptions, and `MCFileUnbind.cfg` shows they must be |
| `ble_client` | Two links, stale callbacks, commands and updates: packets move, ready means subscribed, updates whole and ended with a true verdict, links settle | Two links: a callback of the first meets the second; two updates, one or two chunks by PDU; one refusal |
| `chat_send` | Two neighbours, late and lost answers, lost link, unbind, restart, blocking: messages settle, delivered means by that neighbour, avatars move | Two messages: one active, one waiting; one neighbour in sight, since avatars go one at a time; one fault |
| `profile_card` | The record restores the card, the app shows the card the pendant has, and stealth mode reaches the beacon, over lost links, commands, answers and power and restarts of the app | Two toggles: there and back before the first answer; two errands: a message that makes a change meet BUSY, or an edit and a save; two links; one fault |
| `chat_blocked_avatar` | (violation) A failed avatar goes to a neighbour blocked meanwhile | no fault needed |

Sizes that are real in these runs: event queue 4, levels 3, attempts 2; the others are the smallest at which their limit
is met together with what it must hold against.

Deadlock is checked but in four runs. In that of `OtaGuard` a pendant with
nothing to boot stops (inside the windows of section 6); in `file_transfer`,
`file_faults` and `ble_client` the objects, links and updates that the bounds
allow are used up and the phone rests. `chat_send` never rests: the user can
always block someone, nor does `profile_card`: the app can always restart.

**Fairness.** `OtaGuard`: a started handler goes on, an image on trial is
confirmed or reset by the watchdog once its self check has passed, a transfer ends with a result
(`blc_ota_setOtaProcessTimeout`, `app_ota.c:596`). `TrialSettles` additionally
assumes that power losses stop, except where an image might have hung anyway, and that
a pendant that failed its self check is switched off and on again: by itself it stays as it is, with its
watchdog fed (`MCOtaSelfCheck.cfg`).
`PeerTransport`: every pendant's polls run, and its transmit poll is not
postponed for ever by a queue that others keep filling (strong fairness). It does
not assume that any frame is heard. `HostCmd`: the poll runs after the
callbacks, an update completes or resets the pendant, clocks run; nothing is assumed of the host.
`Pendant`: the main loop goes round, the stack reports connections, an update
ends, and a second goes by again and again (strong fairness, because other
passes come between).
`FileTransfer`: posted Runnables and responses are handled, a pendant answers
what it received (unless the command was dropped), a frame on air is heard or
lost, a lost link comes back. That any frame is heard is not assumed.
`BleClient`: posted calls and Runnables run, Android ends each attempt with a
callback or the link; `Result` is the time-out of the pendant's update server
(`blc_ota_setOtaProcessTimeout`) when nothing else ends an update. `ChatSend`:
posted Runnables run; nothing is assumed of the link or the pendant.
`ProfileCard`: posted Runnables run, answers are handled and the pendant's loop goes
round; that the user or a link does anything is not assumed.

Each property of each passing run has a mutant in `PROJECT.json`: a plausible
mistake in one definition that makes TLC find the property violated.

## 4. What the runs found

One finding is a run of its own; `PROJECT.json` quotes the lines.

- **Avatars to blocked neighbours** (`MainActivity.java:2872`): a failed transfer
  is queued again without asking who is blocked (`chat_blocked_avatar`).

Further configurations, not among the runs. TLC finds each property violated
when it is given the module and the file:

| Configuration | Property | What it shows |
|---|---|---|
| `MCOtaGuard`, `MCOtaExhausted.cfg` | `ExhaustedTrialRollsBack` | Exhausted trials are confirmed (`app_ota.c:548`): the initialisation of the OTA server erases the previous image on the first trial start, so the rollback that the OTA document, line 140, promises after the last cannot happen |
| `MCOtaGuard`, `MCOtaUpdateOnTrial.cfg` | `NeverOlder` | An update that starts while the running image is on trial replaces the PENDING record (`app_ota.c:461`); between its result and the reboot the poll confirms the running image (`app_ota.c:424-441`) and overwrites the PENDING record of the image just installed. An older image then runs without a trial (document, line 139), with a confirmed version above its own and no backup; a further interrupted update makes the guard roll back onto the running slot itself, whose only boot mark it clears |
| `MCOtaGuard`, `MCOtaSelfCheck.cfg` | `TrialAlwaysSettles` | An image that fails its self check is neither confirmed nor reset: `app_ota_guard_poll` waits for two states it never reaches (`app_ota.c:453-454`) and the main loop feeds the watchdog, where `main.c:85-86` has a bad image reset and rolled back |
| `MCPeerTransport`, `MCPeerPartialAcks.cfg` | `SuccessMeansDelivered` | PARTIAL acknowledgements of two receive contexts add up (`app_peer_transport.c:565`): success is reported for a message never handed up |
| `MCPeerTransport`, `MCPeerSplice.cfg` | `HandedUpWhole` | After a reset of the sender, a fragment of an old message completes a new one of the same id and size (`app_peer_transport.c:308-323`): what is handed up is neither |
| `MCPeerTransport`, `MCPeerReusedId.cfg` | `SuccessMeansDelivered` | The first message after a reset is answered as a repetition and lost (`app_peer_transport.c:271`) |
| `MCHostCmd`, `MCHostEidAlias.cfg` | `RspReusesSeq` | The deferred command shares its memory (`app_host_cmd.c:94-101`) with the snapshots of two other commands: a neighbour's identity is executed and answered as a command, where the protocol document (蓝牙吊坠BLE调试通道协议.md:26) has a response reuse the number of its command |
| `MCHostCmd`, `MCHostLongChat.cfg` | `EmptyRingTakesText` | Texts of more than 136 bytes never fit the ring (`app_host_gatt.c:344`); the crypto document, line 28, allows 184 |
| `MCFileTransfer`, `MCFileUnbind.cfg` | `AlwaysSettles` | A transfer in progress outlives `unbindDevice` (`MainActivity.java:735`), which does not run the cleanup that the comment at 165-166 asks for |
| `MCBleClient`, `MCBleStaleMtu.cfg` | `PduFitsMtu` | An update on a new link announces PDUs negotiated on the last (`GlimmerBleClient.java:585`), where the OTA document, line 157, promises a fallback |
| `MCProfileCard`, `MCProfileRefused.cfg` | `StealthReachesPendant` | A change of the card that meets a deferred message is answered BUSY (`app_host_cmd.c:1232`), which the app ignores: it shows stealth mode and the pendant its card, until the next full synchronisation (微光隐私与资料卡编辑修复记录_2026-06-28.md:8 has the mode written to the terminal) |
| `MCProfileCard`, `MCProfileName.cfg` | `SyncKeepsName` | Stealth mode is sent with a whole card: a placeholder, or the text of an edit page left long ago, replaces the nickname (`MainActivity.java:883-894`) |

Seen in the models without a run of its own: a phone that connects just before
the request to sleep is not noticed (`app_pm.c:296`), and with two link callbacks
in one pass the event queue overflows (`Callbacks = 2` in `MCPendant.cfg` shows
both `NoEventLost` and `StateTracksLink` violated).

## 5. Proofs

`OtaGuardProofs` proves, for every set of images and versions and every limit of
attempts, whenever updates start:
`TypeCorrect`, `AlwaysBootable`, `NoDowngrade`, `BackupUsable`,
`RollbackTookEffect`, `RunningImageIntact`, `TargetErased`.

`NoDowngrade` says that the overwriting described in section 4 is the only way to an
older image; `AlwaysBootable`, `RollbackTookEffect` and `RunningImageIntact` hold until it
happens, since a rollback may then restore the running slot over itself; the others hold
in any case.

These rest on its `Invariance`: `Spec => []IInv`. The safety properties are not
inductive: that a rollback leaves something to boot depends on the backup sector
matching the image whose first sector was erased, which depends on what the
record said when the update began. `IInv` therefore has one part per phase:
`RecordInv` (what any valid record in flash promises), `BootInv` (from power-on
to the main loop), `SaveInv` (while a record is being saved), `UpdateInv` (backup,
transfer, marks, abort) and `RollbackInv`. It is checked by TLC in `ota_guard`
and proved by one lemma per action, which `NextStep` puts together; facts about
what each handler leaves in the record are lemmas of their own
(`UpdatePreparedFacts`, `MarkedPendingFacts`, `AbortedFacts`, ...).

`ProfileCardProofs` proves `RecordRestoresCard` and `AppBelievesRightly`, for every
set of nicknames and every budget. `BeliefIsCard` is not inductive: that the app
will show the right card depends on the last answer on its way, which must carry
the card in use (`AnswerInv`); that in turn on nothing changing the card between a
save and its answer (`SaveInv`), and on answers not outliving their link
(`LinkInv`). `RecordIsCard` is part of the invariant, since a power loss puts the
record in the place of the card. One lemma per group of steps; `TailFacts` says what
removing the oldest answer leaves.

`PendantProofs` proves `TypeCorrect`, `SuspendsOnlyUnblocked` and `UpdateStaysAwake`
for all constants, and `QueueSuffices`, `StateFollowsLink` and `WaitsVisibly` under
`QueueRoom`: the queue holds three entries more than there are link callbacks in a
pass, and the request to sleep comes after at least two ticks. The firmware has
`APP_EVENT_QUEUE_SIZE 4`, one callback a pass and `PENDANT_IDLE_SLEEP_S 300`; with two
callbacks the properties fail (section 4). The first two rest on `WakeInv` (an update
blocks the suspend and is awake, no SLEEP_READY waits while it runs), the others on
`IInv`: how many events each turn of the loop may still post (`RoomInv`), what may be
in the queue when (`QuietInv`, `RequestInv`), the one event that tells the state
machine of a link it has not heard of (`LinkInv`), and which switches of the radio are
off for whom (`RadioInv`). The properties are checked by TLC in `pendant`.

`FileTransferProofs` proves `TypeCorrect`, `FramesMove` and `WaitsEnd`, for every set
of phones, chunks and faults and every bound. Each handler is composed of helpers of
the code (`schedule`, `drainTx`, `finishTx`, ...); a lemma for each says which fields
it changes and that it `Follows` the two properties, and the lemma of a handler cites
those of its helpers.

It also proves `PromiseKept`: `FileTransfer` implements
`ObjectTransfer`. That a phone is given an object at most once a round is the hard
part, because one START may be on its way in several copies - in `activeFrame`, in
commands that were written again after a busy answer, and on the air - and each one
resets the receiver. The invariant says that numbers exist for each object: `src`, the
round of the sender, `dst`, that of the receiver, `heard`, that of the last START
heard, and `aired`, that of the one on air, such that every frame anywhere fits them
(`Story`, `Fits`, `Side`). It needs that the commands of a phone carry its active
frame (`Lined`) and that no START waits behind another frame (`Calm`). TLC found
this `IInv` invariant on the bounds of `MCFileFaults.cfg` (169,134 states) before the
proof. One lemma per action shows both the invariant and the step of `ObjectTransfer`
that the action takes.

`PeerTransportProofs` has four groups of theorems.

- `TypeCorrect`, for all constants.
- Origin: `NeverSpliced`, whichever pendants reset. `NameInv` says that every context,
  frame and delivered buffer can be traced to a message started with its id by its
  sender (`Traced`, `Given`); past ids never change.
- Truth: `HandedUpIntact`, `CompleteIsTrue` and `SuccessWasHeard`, while no sender
  resets (`SendersStay`; receivers may). A sender that resets reuses its ids, and an
  acknowledgement or a context then means another message: `MCPeerReusedId.cfg`
  shows what follows. `IInv` says that every frame in a queue, on air or deferred,
  every slot and every context says only what happened (`Honest`, `Truthful`,
  `Sending`, `Collecting`, `Known`); that this never becomes false as more happens
  (`Grows` and the `...Kept` lemmas) is most of the argument, since nothing in flight
  ever has to be touched by a step elsewhere.
- Order: `HandedUpOnce`, while the pendants that messages are meant for do not
  reset and each is sent messages by one other (`ReceiversStay`, `OneSource`);
  senders may reset and reuse ids. The completed cache has one entry, which a second
  sender evicts (`app_peer_transport.c:282`). `OrderInv` says that the messages
  between a sender and a pendant stand in line - heard, deferred, on air, queued, in
  hand - so that one met at two places leaves no other between them (`Lines`), and
  that one which was handed up and may still be heard is the one cached (`Cached`).
  `PromiseKept`, that `PeerTransport` implements `ReliableMessage`, adds that no pendant
  resets, that reliable messages have one fragment (`MCPeerPartialAcks.cfg`
  refutes it with two) and that there are finitely many; its `PromiseInv` says that ids
  increase along that line (`Sorted`), so a message that arrives late cannot overtake,
  and that a message in hand has had no report (`Untold`).

TLC found `IInv` invariant on the bounds of `MCPeerMixed.cfg` (877,105 states) and
`MCPeerReceiverReset.cfg` (278,979), `OrderInv` on those of `MCPeerMixed.cfg` and
`MCPeerSenderReset.cfg` (2,736,096), `NameInv` on the latter, and `PromiseInv` on those of `MCPeerMixed.cfg`.

`HostCmdProofs` proves `TypeCorrect`, `MessagesWhole`, `ResponsesMatch` and
`NoneForgotten`. That the ring is made of whole messages is inductive by itself: a lemma
each for what `Put` and `Tail` do to it (`PutFacts`, `TailFacts`), and the ring is
emptied with the link. The others need what the host is writing (`AskInv`: its number
is not owed a response) and what is put off (`PendingInv`: its response is owed, or
its link is gone and the poll that clears it comes before the next link, or an update
has lost its link and resets the pendant before it is polled again: `OtaInv`). `ResponsesMatch` assumes `NoAlias`, that
no neighbour's identity reads as a command put off in the copies that lie over
`s_pending`: `MCHostEidAlias.cfg` refutes the property without it, so it is what the code
leaves to chance. `NoneForgotten` needs no such assumption: while a request is owed its
response, the poll still holds it. That is what `Answered` needs besides fairness. TLC
found the type invariant, `AskInv` and `AnswerInv` invariant on the bounds of
`MCHostCmd.cfg` (492,064 states) before the proof.

`ChatSendProofs` proves `TypeCorrect`, `DeliveredRightly` and `AvatarsAreSent`. That a
neighbour waits for the avatar once, with its key, is part of the type and inductive but
for one fact: a transfer of an avatar has a neighbour to queue again when it fails. That
"delivered" is true of the neighbour needs that nothing told changes afterwards:
`NotesInv` says that each answer on its way tells what the transport reported, and
`OnceInv` that a message is reported once, as it is in one place at a time (the app's
queue, the pendant's commands, its transport) and has no report there. `AvatarsAreSent`
needs no exception for the time without a link. A lemma for each method of the app says what it leaves
alone, and `ActsKeep`, `GoneKeeps` and `PendantStep` are the three shapes of a step. TLC
found `IInv` invariant on the bounds of `MCChatSend.cfg` (377,524 states) before the proof.

`BleClientProofs` proves `TypeCorrect`, `QueueAlwaysMoves`, `ReadyMeansSubscribed`,
`StreamAlwaysWhole` and the action property `CompletedIsWritten`, for every size of the
image and every bound. What makes them hard is that callbacks of a closed link are
handled as if they came from the open one. The invariant therefore says in which order
calls may be posted (`Ordered`: after a scan result only connections, losses and
answered MTU requests), and `StageInv` in which stage a link that is up is: from `Starting` to
`Ready`, each known by what is posted, asked of Android or being written, so that a
stale call meets only the stages it can do no harm in. `QueueInv` is what `QueueMoves`
needs to be inductive: packets wait only behind a write under way, its answer or the retry.
`SessionInv` says that a running update waits for one thing at a time (`AtMtu`,
`AtStart`, `AtWrite`, `AtAnswer`, `AtNext`, `AtRest`), and how many chunks the pendant
has by then; `OpInv` that the packet being written is the one the pendant expects;
`ResultInv` that a good result answers an image received in full, and that none of an
earlier link is taken for it. Each method of the client has a lemma that says what it
leaves alone; each step has one for each part it can disturb. TLC found `IInv`
invariant on the bounds of `MCBleClient.cfg` (149,301 states) and on larger ones
(833,465) before the proof.

The assumptions are the named ones of the modules: versions are numbers, bounds are
natural numbers, the sentinels differ from real values and from each other, messages go
to another pendant and reliable ones are not broadcast. TLC evaluates them in every run.

Liveness (`TrialSettles`, `Settles`, `Answered`, `ChatSettles`, `QuietSleeps`,
`UpdateSettles`, `LinkSettles`, `MessagesSettle`, `StealthSettles`)
is model-checked only: fairness and ENABLED are beyond the prover. Every invariant
and every property of steps that a passing run checks is stated by a theorem, with the
conditions named above. The type invariants of the
modules other than `ChatSend` (that of `OtaGuard` is part of `IInv`) and
`TargetBlank` of `OtaGuard` (which is proved) are stated in the modules and not
among the runs.

## 6. Limits

- `SomeSlotBoots` excepts two windows, named `RestoreWindow`: the copy back into
  slot 0 between the mark and the code, and the abort that restores the slot in
  execution. A loss of power inside them leaves nothing to boot; the code has no
  remedy, and the exception is as small as the model can make it. It also excepts what
  follows once the record of an image installed during a trial was overwritten
  (`overwritten`), as do three other properties of `OtaGuard`: `MCOtaUpdateOnTrial.cfg`
  shows how that happens.
- Why an image fails its self check is a choice made at each start, as the stored records
  are not modelled; nothing in the code starts such a pendant again.
- Not modelled: the records of identity and configuration (no command of the
  release build writes them), the cache of neighbours' cards (planned), reassembly of advertising reports
  (planned), motor, crypto, codecs, board, diag (no control state), debug shell
  and factory (compiled out), advertising host transport (compiled out), Android
  probe, PC tools, SDK. Of the app: pages and layout, the synchronisation of
  tables and neighbours' profiles, received messages, compression of pictures, the merging of
  scan records, byte layouts.
- Most lines of the repository are the vendored SDK (drivers, stack headers,
  sample applications), pages of the app and tools; what is modelled is a part of
  the program's own control logic, not a share of all lines.
- Two phones and one object at a time in `FileTransfer`; delays in the app are
  not modelled, so nothing is said about how long anything takes.
- Messages of more than two fragments, more than two pendants, and more than one
  receive context are outside the runs of `PeerTransport`.
- Ticks, wrap-around of ids and of frame counters are not modelled.

## 7. Plan

Done: the update guard with its proofs, the peer transport, the host channel, the
main loop, the app's file transfer, BLE client and outgoing chat, the own card; proofs
about all of them, with the refinements of the peer transport and the file transfer.
Next:

1. `NearbyList`: the cache of neighbours' cards in the pendant and the paged sweeps
   with which the app reads it, which may overlap.
2. `AdvReassembly`: the reassembly of extended reports (`app.c:397-506`).
3. `ImageInstall`, an abstract specification of updates that `OtaGuard`
   implements, with the refinement proved.
4. A three-pendant instance of `PeerTransport` for the eviction of the completed
   entry and BUSY.
