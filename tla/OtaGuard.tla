------------------------------ MODULE OtaGuard ------------------------------
(***************************************************************************)
(* The firmware-update guard of the pendant (vendor/pendant/app_ota.c),    *)
(* one action per flash operation, so that power may fail between any two  *)
(* of them.                                                                *)
(*                                                                         *)
(* Two image slots, each a first sector (it holds the boot mark the ROM    *)
(* looks at) and a body; one sector that backs up the first sector of the  *)
(* image an update would replace; one sector for the guard record.  A      *)
(* sector is erased and then programmed: the power may fail in between.    *)
(*                                                                         *)
(* External parts, modelled from how app_ota.c uses them: the boot ROM     *)
(* (slot 0 wins when both marks are valid, the preference of               *)
(* app_ota_detect_active_slot) and the BLE stack's OTA server (erases the  *)
(* other slot at initialisation, writes the image without its mark, sets   *)
(* the new mark, clears the old one, reports a result and reboots; the     *)
(* result may be reported before or after the marks change).               *)
(*                                                                         *)
(* s_guard_valid has no variable: app_ota_guard_boot_check leaves it 1 and *)
(* flash operations succeed here, so every later re-load is dead code.     *)
(***************************************************************************)
EXTENDS Naturals

CONSTANTS
  Images,           \* firmware images
  Version,          \* APP_BUILD_VERSION_CODE of each image
  Blank, Torn,      \* contents of an erased and of a half-written area
  NoRecord,         \* a guard sector without a valid record
  MaxBootAttempts   \* PENDANT_OTA_MAX_PENDING_BOOT_ATTEMPTS

ASSUME VersionAssumption  == Version \in [Images -> Nat]
ASSUME AttemptsAssumption == MaxBootAttempts \in Nat
ASSUME ContentAssumption  == Blank \notin Images /\ Torn \notin Images /\ Blank # Torn

Slot    == {0, 1}
NoSlot  == 255          \* APP_OTA_SLOT_INVALID
Other(s) == 1 - s

Mark    == {"blank", "valid", "cleared"}
Content == Images \cup {Blank, Torn}
Sector  == [mark: Mark, code: Content]
Erased  == [mark |-> "blank", code |-> Blank]

GuardState  == {"CONFIRMED", "UPDATE_PREPARED", "PENDING", "ROLLED_BACK"}
GuardRecord == [state: GuardState, active: Slot,
                previous: Slot \cup {NoSlot}, pending: Slot \cup {NoSlot},
                attempts: 0..MaxBootAttempts, backup: BOOLEAN, confirmed: Nat]
ASSUME RecordAssumption == NoRecord \notin GuardRecord

VARIABLES
  \* flash
  first,    \* first sector of each slot
  body,     \* the rest of each slot
  backup,   \* the backup sector
  meta,     \* the guard sector
  \* RAM
  pc,       \* what the CPU does next
  run,      \* slot the CPU executes from
  g,        \* s_guard
  trial,    \* s_guard_pending_boot
  ready,    \* the system advertises or is connected: its self check passed
  ota,      \* s_ota_active
  stack,    \* phase of the stack's OTA server
  then,     \* where the CPU continues after the save in progress
  \* history
  overwritten  \* the record of an installed image was replaced before it started

flash == <<first, body, backup, meta>>
ram   == <<run, g, trial, ready, ota, stack>>
vars  == <<first, body, backup, meta, pc, run, g, trial, ready, ota, stack, then, overwritten>>

Label == {"off", "dead", "check", "initHead", "initBody", "main",
          "bkErase", "bkPage", "bkRest",
          "rbErase", "rbPage", "rbRest", "rbClear",
          "abErase", "abRestore", "abPage", "abRest",
          "saveErase", "saveWrite"}
Phase == {"idle", "receiving", "writing", "verified", "marked", "switched"}

TypeOK ==
  /\ first \in [Slot -> Sector] /\ body \in [Slot -> Content]
  /\ backup \in Sector /\ meta \in GuardRecord \cup {NoRecord}
  /\ pc \in Label /\ run \in Slot \cup {NoSlot}
  /\ g \in GuardRecord \cup {NoRecord}
  /\ trial \in BOOLEAN /\ ready \in BOOLEAN /\ ota \in BOOLEAN /\ stack \in Phase
  /\ then \in {"initHead", "main", "off"} /\ overwritten \in BOOLEAN

-----------------------------------------------------------------------------
(* Reading the flash *)

Valid(s) == first[s].mark = "valid"

ActiveSlot == IF Valid(1) /\ ~Valid(0) THEN 1 ELSE 0

\* Mistake: the probe looks at a blank offset.
ProbeBlank(s) == {FALSE}

\* What app_ota_slot_body_intact may answer: a half-written body may or may
\* not have reached both probed offsets.
BodyProbe(s) == CASE body[s] = Blank -> {FALSE}
                  [] body[s] = Torn  -> BOOLEAN
                  [] OTHER           -> {TRUE}

Build == Version[body[run]]

\* The slot the ROM starts, if any, and whether it holds one whole image.
RomSlot == IF Valid(0) THEN 0 ELSE IF Valid(1) THEN 1 ELSE NoSlot
Whole(s) == body[s] \in Images /\ first[s].code = body[s]
Boots == RomSlot # NoSlot /\ Whole(RomSlot)

-----------------------------------------------------------------------------
(* Saving the record: erase, then write.  The record is in s_guard. *)

Save(record, next) ==
  /\ pc' = "saveErase" /\ g' = record /\ then' = next

PowerDown ==
  /\ pc' = "off" /\ run' = NoSlot /\ g' = NoRecord /\ trial' = FALSE /\ ready' = FALSE
  /\ ota' = FALSE /\ stack' = "idle" /\ then' = "off"

SaveErase ==
  /\ pc = "saveErase"
  /\ meta' = NoRecord /\ pc' = "saveWrite"
  /\ UNCHANGED <<first, body, backup, ram, then, overwritten>>

SaveWrite ==
  /\ pc = "saveWrite"
  /\ meta' = g
  /\ \/ then = "off" /\ PowerDown           \* start_reboot()
     \/ then # "off" /\ pc' = then /\ UNCHANGED <<ram, then>>
  /\ UNCHANGED <<first, body, backup, overwritten>>

DefaultRecord ==
  [state |-> "CONFIRMED", active |-> ActiveSlot, previous |-> NoSlot,
   pending |-> NoSlot, attempts |-> 0, backup |-> FALSE, confirmed |-> Build]

Confirmed(r) ==
  [r EXCEPT !.state = "CONFIRMED", !.active = ActiveSlot, !.previous = ActiveSlot,
            !.pending = NoSlot, !.attempts = 0, !.backup = FALSE,
            !.confirmed = IF r.confirmed < Build THEN Build ELSE r.confirmed]

-----------------------------------------------------------------------------
(* Boot: the ROM, the guard's check, the stack's OTA server initialisation *)

PowerOn ==
  /\ pc = "off"
  /\ IF Boots THEN run' = RomSlot /\ pc' = "check"
              ELSE run' = run /\ pc' = "dead"
  /\ UNCHANGED <<flash, g, trial, ready, ota, stack, then, overwritten>>

\* app_ota_guard_request_rollback up to its first flash operation, or the
\* confirmation its caller falls through to when it returns.
RollBackOrKeep(r) ==
  \E intact \in IF r.backup /\ r.previous # NoSlot THEN BodyProbe(r.previous) ELSE {FALSE} :
    \/ intact  /\ pc' = "rbErase" /\ g' = r /\ UNCHANGED then
    \/ ~intact /\ Save(Confirmed(r), "initHead")

\* Mistake: a start of an image on trial is not counted.
UncountedAttempt(r) == r
NextAttempt(r) == [r EXCEPT !.attempts = @ + 1]

BootCheck ==
  LET r       == [meta EXCEPT !.active = ActiveSlot]
      onTrial == meta.state = "PENDING" /\ meta.pending = ActiveSlot
      older   == Build < meta.confirmed
  IN
  /\ pc = "check"
  /\ \/ /\ meta = NoRecord
        /\ Save(DefaultRecord, "initHead") /\ UNCHANGED trial
     \/ /\ meta # NoRecord
        /\ onTrial /\ (older \/ meta.attempts >= MaxBootAttempts)
        /\ RollBackOrKeep(r) /\ UNCHANGED trial
     \/ /\ meta # NoRecord
        /\ onTrial /\ ~older /\ meta.attempts < MaxBootAttempts
        /\ Save(NextAttempt(r), "initHead") /\ trial' = TRUE
     \/ /\ meta # NoRecord
        /\ ~onTrial /\ older /\ meta.backup
        /\ RollBackOrKeep(r) /\ UNCHANGED trial
     \/ /\ meta # NoRecord
        /\ ~onTrial /\ ~(older /\ meta.backup)
        /\ IF meta.state # "CONFIRMED" \/ meta.confirmed < Build
             THEN Save(Confirmed(r), "initHead")
             ELSE Save(r, "initHead")
        /\ UNCHANGED trial
  /\ UNCHANGED <<flash, run, ready, ota, stack, overwritten>>

\* Mutant: the slot in use is erased.
InitHeadOfRun ==
  /\ pc = "initHead"
  /\ first' = [first EXCEPT ![run] = Erased] /\ pc' = "initBody"
  /\ UNCHANGED <<body, backup, meta, ram, then, overwritten>>

\* app_ota_init: the OTA server erases the slot the CPU does not run from,
\* from its first sector upwards.
InitHead ==
  /\ pc = "initHead"
  /\ first' = [first EXCEPT ![Other(run)] = Erased] /\ pc' = "initBody"
  /\ UNCHANGED <<body, backup, meta, ram, then, overwritten>>

\* The first turn of the main loop then checks the board and the stored
\* records (APP_EVT_BOOT_DONE, app_system_self_check).  A pendant that fails
\* feeds its watchdog and does nothing else: it does not advertise, so no
\* host can connect to it.
InitBody ==
  /\ pc = "initBody"
  /\ body' = [body EXCEPT ![Other(run)] = Blank] /\ pc' = "main"
  /\ ready' \in BOOLEAN
  /\ UNCHANGED <<first, backup, meta, run, g, trial, ota, stack, then, overwritten>>

-----------------------------------------------------------------------------
(* Rolling back: rewrite the previous image's first sector from the backup, *)
(* clear the mark of the active slot, record it and reboot.                 *)

\* Mistake: the erased sector is not restored.
RollbackOnlyErases ==
  /\ pc = "rbErase"
  /\ first' = [first EXCEPT ![g.previous] = Erased] /\ pc' = "rbClear"
  /\ UNCHANGED <<body, backup, meta, ram, then, overwritten>>

RollbackErase ==
  /\ pc = "rbErase"
  /\ first' = [first EXCEPT ![g.previous] = Erased] /\ pc' = "rbPage"
  /\ UNCHANGED <<body, backup, meta, ram, then, overwritten>>

\* The copy goes upwards in pieces of 16 bytes and the mark is in the first.
RollbackPage ==
  /\ pc = "rbPage"
  /\ first' = [first EXCEPT ![g.previous] = [mark |-> backup.mark, code |-> Torn]]
  /\ pc' = "rbRest"
  /\ UNCHANGED <<body, backup, meta, ram, then, overwritten>>

RollbackRest ==
  /\ pc = "rbRest"
  /\ first' = [first EXCEPT ![g.previous] = backup] /\ pc' = "rbClear"
  /\ UNCHANGED <<body, backup, meta, ram, then, overwritten>>

\* Mistake: the record names the slot that was rolled back.
RolledBackFrom ==
  [g EXCEPT !.state = "ROLLED_BACK", !.pending = NoSlot, !.attempts = 0]

RolledBack ==
  [g EXCEPT !.state = "ROLLED_BACK", !.active = g.previous, !.pending = NoSlot,
            !.attempts = 0]

RollbackClear ==
  /\ pc = "rbClear"
  /\ first' = [first EXCEPT ![g.active] = [@ EXCEPT !.mark = "cleared"]]
  /\ Save(RolledBack, "off")
  /\ UNCHANGED <<body, backup, meta, run, trial, ready, ota, stack, overwritten>>

-----------------------------------------------------------------------------
(* An update: the start callback, the server's writes, the result callback *)

OnStart ==
  /\ pc = "main" /\ stack = "idle" /\ ready
  /\ stack' = "receiving" /\ ota' = TRUE
  /\ first' = [first EXCEPT ![Other(ActiveSlot)] = Erased]
  /\ pc' = "bkErase"
  /\ UNCHANGED <<body, backup, meta, run, g, trial, ready, then, overwritten>>

BackupErase ==
  /\ pc = "bkErase"
  /\ backup' = Erased /\ pc' = "bkPage"
  /\ UNCHANGED <<first, body, meta, ram, then, overwritten>>

BackupPage ==
  /\ pc = "bkPage"
  /\ backup' = [mark |-> first[ActiveSlot].mark, code |-> Torn] /\ pc' = "bkRest"
  /\ UNCHANGED <<first, body, meta, ram, then, overwritten>>

UpdatePrepared ==
  [g EXCEPT !.state = "UPDATE_PREPARED", !.active = ActiveSlot,
            !.previous = ActiveSlot, !.pending = Other(ActiveSlot),
            !.attempts = 0, !.backup = TRUE]

\* Mistake: the sector of the slot about to be written is backed up.
BackupOfTarget ==
  /\ pc = "bkRest"
  /\ backup' = first[Other(ActiveSlot)]
  /\ Save(UpdatePrepared, "main")
  /\ UNCHANGED <<first, body, meta, run, trial, ready, ota, stack, overwritten>>

BackupRest ==
  /\ pc = "bkRest"
  /\ backup' = first[ActiveSlot]
  /\ Save(UpdatePrepared, "main")
  /\ UNCHANGED <<first, body, meta, run, trial, ready, ota, stack, overwritten>>

ServerBegins(image) ==
  /\ pc = "main" /\ stack = "receiving"
  /\ first' = [first EXCEPT ![Other(run)] = [mark |-> "blank", code |-> image]]
  /\ body'  = [body EXCEPT ![Other(run)] = Torn]
  /\ stack' = "writing"
  /\ UNCHANGED <<backup, meta, pc, run, g, trial, ready, ota, then, overwritten>>

ServerEnds ==
  /\ pc = "main" /\ stack = "writing"
  /\ body'  = [body EXCEPT ![Other(run)] = first[Other(run)].code]
  /\ stack' = "verified"
  /\ UNCHANGED <<first, backup, meta, pc, run, g, trial, ready, ota, then, overwritten>>

ServerMarksNew ==
  /\ pc = "main" /\ stack = "verified"
  /\ first' = [first EXCEPT ![Other(run)] = [@ EXCEPT !.mark = "valid"]]
  /\ stack' = "marked"
  /\ UNCHANGED <<body, backup, meta, pc, run, g, trial, ready, ota, then, overwritten>>

ServerClearsOld ==
  /\ pc = "main" /\ stack = "marked"
  /\ first' = [first EXCEPT ![run] = [@ EXCEPT !.mark = "cleared"]]
  /\ stack' = "switched"
  /\ UNCHANGED <<body, backup, meta, pc, run, g, trial, ready, ota, then, overwritten>>

ServerReboots ==
  /\ pc = "main" /\ stack = "switched" /\ ~ota
  /\ PowerDown /\ UNCHANGED <<flash, overwritten>>

\* app_ota_on_result(0): app_ota_guard_mark_pending.
MarkedPending ==
  LET prepared == /\ g.state = "UPDATE_PREPARED"
                  /\ g.previous # NoSlot /\ g.pending # NoSlot
  IN [g EXCEPT !.state    = "PENDING",
               !.previous = IF prepared THEN @ ELSE ActiveSlot,
               !.pending  = IF prepared THEN @ ELSE Other(ActiveSlot),
               !.active   = ActiveSlot, !.attempts = 0]

OnResultOk ==
  /\ pc = "main" /\ ota /\ stack \in {"verified", "switched"}
  /\ ota' = FALSE
  /\ Save(MarkedPending, "main")
  /\ UNCHANGED <<flash, run, trial, ready, stack, overwritten>>

\* app_ota_on_result(error): app_ota_guard_abort_update up to its first
\* flash operation.  It ends with a reboot.
OnResultError ==
  /\ pc = "main" /\ ota
  /\ ota' = FALSE /\ pc' = "abErase"
  /\ g' = [g EXCEPT !.active = IF g.previous # NoSlot THEN g.previous ELSE ActiveSlot]
  /\ UNCHANGED <<flash, run, trial, ready, stack, then, overwritten>>

\* Mistake: the aborted update's backup stays promised.
AbortedKeepsBackup ==
  [g EXCEPT !.state = "CONFIRMED", !.previous = g.active, !.pending = NoSlot,
            !.attempts = 0]

Aborted ==
  [g EXCEPT !.state = "CONFIRMED", !.previous = g.active, !.pending = NoSlot,
            !.attempts = 0, !.backup = FALSE]

AbortErase ==
  LET failed  == IF g.pending # NoSlot THEN g.pending ELSE Other(ActiveSlot)
      restore == /\ g.backup /\ g.previous # NoSlot
                 /\ first'[g.previous].mark # "valid"
  IN
  /\ pc = "abErase"
  /\ first' = [first EXCEPT ![failed] = Erased]
  /\ \/ restore  /\ pc' = "abRestore" /\ UNCHANGED <<g, then>>
     \/ ~restore /\ Save(Aborted, "off")
  /\ UNCHANGED <<body, backup, meta, run, trial, ready, ota, stack, overwritten>>

AbortRestore ==
  /\ pc = "abRestore"
  /\ first' = [first EXCEPT ![g.previous] = Erased] /\ pc' = "abPage"
  /\ UNCHANGED <<body, backup, meta, ram, then, overwritten>>

AbortPage ==
  /\ pc = "abPage"
  /\ first' = [first EXCEPT ![g.previous] = [mark |-> backup.mark, code |-> Torn]]
  /\ pc' = "abRest"
  /\ UNCHANGED <<body, backup, meta, ram, then, overwritten>>

AbortRest ==
  /\ pc = "abRest"
  /\ first' = [first EXCEPT ![g.previous] = backup]
  /\ Save(Aborted, "off")
  /\ UNCHANGED <<body, backup, meta, run, trial, ready, ota, stack, overwritten>>

-----------------------------------------------------------------------------
(* The confirmation poll, resets and power loss *)

\* app_ota_poll outside an update, once PENDANT_OTA_CONFIRM_DELAY_MS has
\* passed.  Between the result of an update and the reboot it confirms as well,
\* if the update started while the running image was on trial.
GuardPoll ==
  /\ pc = "main" /\ ~ota /\ trial /\ ready
  /\ trial' = FALSE
  /\ overwritten' = (overwritten \/ stack # "idle")
  /\ Save(Confirmed(g), "main")
  /\ UNCHANGED <<flash, run, ready, ota, stack>>

\* The image hangs after the boot check and the watchdog resets the CPU.
Hang ==
  /\ pc \in {"initHead", "initBody", "main"}
  /\ PowerDown /\ UNCHANGED <<flash, overwritten>>

PowerLoss ==
  /\ pc \notin {"off", "dead"}
  /\ PowerDown /\ UNCHANGED <<flash, overwritten>>

-----------------------------------------------------------------------------
Boot     == PowerOn \/ BootCheck \/ SaveErase \/ SaveWrite \/ InitHead \/ InitBody
Rollback == RollbackErase \/ RollbackPage \/ RollbackRest \/ RollbackClear
Prepare  == BackupErase \/ BackupPage \/ BackupRest
Server   == ServerEnds \/ ServerMarksNew \/ ServerClearsOld \/ ServerReboots
Abort    == AbortErase \/ AbortRestore \/ AbortPage \/ AbortRest

Next ==
  \/ Boot \/ Rollback \/ Prepare \/ Server \/ Abort
  \/ OnStart \/ (\E image \in Images : ServerBegins(image))
  \/ OnResultOk \/ OnResultError
  \/ GuardPoll \/ Hang \/ PowerLoss

\* A pendant as it leaves programming: one image in slot 0, nothing else.
Init ==
  \E image \in Images :
    /\ first  = [s \in Slot |-> IF s = 0 THEN [mark |-> "valid", code |-> image]
                                          ELSE Erased]
    /\ body   = [s \in Slot |-> IF s = 0 THEN image ELSE Blank]
    /\ backup = Erased /\ meta = NoRecord
    /\ pc = "off" /\ run = NoSlot /\ g = NoRecord /\ trial = FALSE
    /\ ready = FALSE /\ ota = FALSE /\ stack = "idle" /\ then = "off"
    /\ overwritten = FALSE

Spec == Init /\ [][Next]_vars

\* The CPU does not stop by itself: a started handler runs to its end, an
\* image on trial that passed its self check either lives long enough to be
\* confirmed or is reset by the watchdog, and a transfer the server has taken
\* on ends with a result.
Fairness ==
  /\ WF_vars(Boot) /\ WF_vars(Rollback) /\ WF_vars(Prepare) /\ WF_vars(Abort)
  /\ WF_vars(ServerMarksNew \/ ServerClearsOld \/ ServerReboots)
  /\ WF_vars(OnResultOk \/ OnResultError)
  /\ WF_vars(trial /\ ready /\ (GuardPoll \/ Hang))

LiveSpec == Spec /\ Fairness

-----------------------------------------------------------------------------
(* Properties *)

\* The only steps after which a power failure may leave nothing to boot: a
\* copy back into slot 0 that has written the mark and not yet the code, and
\* the restoration an abort makes once the stack has cleared the old mark.
RestoreWindow ==
  \/ pc = "rbRest" /\ g.previous = 0
  \/ pc \in {"abRestore", "abPage", "abRest"}

\* Outside those windows the ROM finds a mark, and the slot it picks holds
\* one whole image (the erase and mark order of app_ota.c:292-392), unless the
\* record of an installed image was overwritten.
SomeSlotBoots ==
  ~overwritten /\ pc \notin {"off", "dead"} /\ ~RestoreWindow => Boots

\* The image that reaches the main loop is older than the newest version the
\* guard has confirmed and still remembers (app_ota.c:542, 562) only after the
\* poll has overwritten the PENDING record of an image that was installed while
\* the one before was on trial (app_ota.c:424-441).
AntiRollback ==
  pc = "main" /\ Build < g.confirmed => overwritten

\* While the record promises a backup and the image it belongs to still has
\* its body, restoring the backup gives that very image with a valid mark
\* (app_ota.c:367-392 against 292-318).
RollbackReady ==
  meta # NoRecord =>
    (meta.backup /\ body[meta.previous] \in Images =>
       backup = [mark |-> "valid", code |-> body[meta.previous]])

\* A recorded rollback took effect: the ROM starts the slot it names, whole,
\* unless the record of an installed image was overwritten.
RolledBackBoots ==
  ~overwritten /\ meta # NoRecord =>
    (meta.state = "ROLLED_BACK" => RomSlot = meta.active /\ Whole(meta.active))

\* Nothing erases or rewrites the slot the CPU executes from, but for the
\* abort that restores it (app_ota.c:346-347), unless the record of an
\* installed image was overwritten.
RunningIntact ==
  ~overwritten /\ pc \notin {"off", "dead", "abPage", "abRest"} => Whole(run)

\* The server programs without erasing, so its target must be blank when the
\* first packet may arrive (app_ota.c:129-144).
TargetBlank ==
  pc = "main" /\ stack = "receiving" =>
    first[Other(run)] = Erased /\ body[Other(run)] = Blank

\* However often an image hangs or fails its self check, its trial ends, if
\* the power fails no more but where the image might as well have hung and
\* somebody restarts a pendant that failed its self check: every start counts
\* an attempt before anything can go wrong (app.c:822-825).
FailedSelfCheck == pc = "main" /\ ~ready
TrialSettles ==
  <>[][PowerLoss => Hang]_vars /\ []<>~FailedSelfCheck =>
    ((meta # NoRecord /\ meta.state = "PENDING") ~>
     (pc = "dead" \/ (meta # NoRecord /\ meta.state # "PENDING")))

-----------------------------------------------------------------------------
(* Claims that the code does not keep: their runs find the violation.        *)

\* "If the number of pending starts exceeds the limit, roll back"
\* (the OTA design document, section on the guard's state machine).
ExhaustedTrialRollsBack ==
  [][pc = "check" /\ meta # NoRecord /\ meta.state = "PENDING"
       /\ meta.pending = ActiveSlot /\ meta.attempts >= MaxBootAttempts
     => pc' \in {"rbErase", "off"}]_vars

\* "If the version is below the confirmed version, trigger a rollback" (the
\* same document): no older image keeps running.
NeverOlder == pc = "main" => g.confirmed <= Build

\* "Start the watchdog before any init that could hang, so a bad image resets
\* instead of stalling forever (the OTA guard then rolls back)" (main.c:85-86):
\* one that fails its self check stays on trial.
TrialAlwaysSettles ==
  <>[][PowerLoss => Hang]_vars =>
    ((meta # NoRecord /\ meta.state = "PENDING") ~>
     (pc = "dead" \/ (meta # NoRecord /\ meta.state # "PENDING")))

-----------------------------------------------------------------------------
(* The inductive invariant behind the safety properties.  What the guard     *)
(* forgets by overwriting the record of an installed image is the order of    *)
(* the versions and, with it, that a rollback goes to the other slot.         *)

\* The CPU runs what the ROM would start.
RunsRom == run \in Slot /\ RomSlot = run /\ Whole(run)

\* ... and nothing else is installed.
RunsAlone == RunsRom /\ first[Other(run)] = Erased /\ body[Other(run)] = Blank

\* The record remembers no version newer than the image.
NotAhead(r, image) == overwritten \/ r.confirmed <= Version[image]

\* What a saved record, or one about to be saved, promises.
GoodRecord(r) ==
  /\ r \in GuardRecord
  /\ r.state = "CONFIRMED" => ~r.backup /\ (Boots => NotAhead(r, body[RomSlot]))
  /\ r.state # "CONFIRMED" =>
       /\ r.backup /\ r.previous \in Slot /\ body[r.previous] # Torn
       /\ body[r.previous] \in Images =>
            /\ NotAhead(r, body[r.previous])
            /\ backup = [mark |-> "valid", code |-> body[r.previous]]
  /\ r.state \in {"UPDATE_PREPARED", "PENDING"} =>
       /\ r.pending = Other(r.previous)
       /\ \/ body[r.previous] \in Images
          \/ body[r.pending] \in Images /\ NotAhead(r, body[r.pending])
  /\ r.state = "ROLLED_BACK" =>
       /\ r.active = r.previous
       /\ overwritten \/ (RomSlot = r.active /\ Whole(r.active))

\* s_guard of a CPU that has passed the boot check and prepares no update yet.
Settled ==
  /\ g \in GuardRecord /\ NotAhead(g, body[run])
  /\ g.state = "CONFIRMED" => ~trial
  /\ g.state # "CONFIRMED" => g.state = "PENDING" /\ trial /\ g.pending = run
Started == Settled /\ stack = "idle" /\ ~ota

\* s_guard from the prepared backup to the reboot ...
Prepared ==
  /\ g \in GuardRecord /\ NotAhead(g, body[run])
  /\ g.backup /\ g.previous = run /\ g.pending = Other(run)
  /\ g.state \in {"UPDATE_PREPARED", "PENDING"}
  /\ ota => g.state = "UPDATE_PREPARED"
  /\ backup = [mark |-> "valid", code |-> body[run]]

\* ... and once the poll has overwritten it.
Replaced == overwritten /\ ~ota /\ g \in GuardRecord /\ g.state = "CONFIRMED" /\ ~g.backup

\* Both slots in each phase of the transfer.
Transfer ==
  LET o == Other(run) IN
  /\ run \in Slot /\ Whole(run)
  /\ stack # "idle" /\ (stack # "switched" => Valid(run))
  /\ stack = "receiving" => first[o] = Erased /\ body[o] = Blank
  /\ stack = "writing" =>
       first[o].mark = "blank" /\ first[o].code \in Images /\ body[o] = Torn
  /\ stack = "verified" => first[o].mark = "blank" /\ Whole(o)
  /\ stack \in {"marked", "switched"} => Valid(o) /\ Whole(o)
  /\ stack = "switched" => ~Valid(run)

RecordInv == meta # NoRecord => GoodRecord(meta)

BootInv ==
  /\ pc = "off" => stack = "idle" /\ ~ota /\ ~trial
  /\ pc = "check" => RunsRom /\ stack = "idle" /\ ~ota /\ ~trial
  /\ pc = "initHead" => RunsRom /\ Started /\ meta = g
  /\ pc = "initBody" => RunsRom /\ first[Other(run)] = Erased /\ Started /\ meta = g
  /\ pc = "main" /\ stack = "idle" => RunsAlone /\ Started /\ meta = g

SaveInv ==
  pc \in {"saveErase", "saveWrite"} =>
    /\ GoodRecord(g)
    /\ then = "initHead" => RunsRom /\ Started
    /\ then = "main" /\ stack = "idle" => RunsAlone /\ Started /\ g.state = "CONFIRMED"
    /\ then = "main" /\ stack # "idle" => Transfer /\ (Prepared \/ Replaced)
    /\ then = "off" => run \in Slot /\ (overwritten \/ (Boots /\ Whole(run)))

UpdateInv ==
  /\ pc \in {"bkErase", "bkPage", "bkRest"} =>
       /\ RunsAlone /\ stack = "receiving" /\ ota /\ Settled /\ meta = g
  /\ pc = "main" /\ stack # "idle" => Transfer /\ (Prepared \/ Replaced) /\ meta = g
  /\ pc = "abErase" => Transfer /\ Prepared /\ g.active = run /\ g.state = "UPDATE_PREPARED"
  /\ pc \in {"abErase", "abRestore", "abPage", "abRest"} =>
       meta # NoRecord /\ meta.state = "UPDATE_PREPARED"
  /\ pc \in {"abRestore", "abPage", "abRest"} =>
       /\ Prepared /\ g.active = run /\ first[Other(run)] = Erased
       /\ run \in Slot /\ body[run] \in Images
  /\ pc = "abRestore" => Whole(run)

RollbackInv ==
  pc \in {"rbErase", "rbPage", "rbRest", "rbClear"} =>
    /\ run \in Slot
    /\ g \in GuardRecord /\ g.active = run /\ g.previous \in Slot /\ g.backup
    /\ body[g.previous] \in Images
    /\ backup = [mark |-> "valid", code |-> body[g.previous]]
    /\ NotAhead(g, body[g.previous])
    /\ meta # NoRecord
    /\ \/ overwritten
       \/ /\ g.previous = Other(run) /\ Whole(run) /\ Valid(run)
          /\ meta.state \in {"UPDATE_PREPARED", "PENDING"}
    /\ pc = "rbErase" => RomSlot = run
    /\ pc = "rbPage" => first[g.previous] = Erased
    /\ pc = "rbRest" => first[g.previous] = [mark |-> "valid", code |-> Torn]
    /\ pc = "rbClear" => first[g.previous] = backup

IInv == TypeOK /\ RecordInv /\ BootInv /\ SaveInv /\ UpdateInv /\ RollbackInv

=============================================================================
