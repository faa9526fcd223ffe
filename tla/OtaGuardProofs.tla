--------------------------- MODULE OtaGuardProofs ---------------------------
(***************************************************************************)
(* Proofs that the safety properties of OtaGuard hold for any images,      *)
(* versions and attempt limit: IInv is inductive and implies them.         *)
(***************************************************************************)
EXTENDS OtaGuard, TLAPS

-----------------------------------------------------------------------------
(* Facts about the operators *)

LEMMA SlotFacts ==
  /\ Slot = {0, 1} /\ NoSlot \notin Slot /\ NoSlot = 255
  /\ Other(0) = 1 /\ Other(1) = 0
  /\ \A s \in Slot : Other(s) \in Slot /\ Other(s) # s /\ Other(Other(s)) = s
BY DEF Slot, NoSlot, Other

LEMMA SectorFacts ==
  /\ Erased \in Sector /\ Erased.mark = "blank" /\ Erased.code = Blank
  /\ \A m \in Mark, c \in Content : [mark |-> m, code |-> c] \in Sector
  /\ \A x \in Sector : x.mark \in Mark /\ x.code \in Content
  /\ \A x \in Sector, m \in Mark :
       /\ [x EXCEPT !.mark = m] \in Sector
       /\ [x EXCEPT !.mark = m].mark = m /\ [x EXCEPT !.mark = m].code = x.code
  /\ \A i \in Images : i \in Content /\ i # Blank /\ i # Torn
  /\ Blank \in Content /\ Torn \in Content /\ Blank # Torn
  /\ Blank \notin Images /\ Torn \notin Images
BY ContentAssumption DEF Sector, Mark, Content, Erased

\* The record the guard saves when it confirms the running image.
LEMMA ConfirmedFacts ==
  ASSUME NEW r \in GuardRecord, run \in Slot, body[run] \in Images
  PROVE  /\ Confirmed(r) \in GuardRecord
         /\ Confirmed(r).state = "CONFIRMED" /\ Confirmed(r).backup = FALSE
         /\ Build \in Nat
         /\ r.confirmed <= Build => Confirmed(r).confirmed = Build
<1>1. Build \in Nat
  BY VersionAssumption DEF Build
<1>2. r.confirmed \in Nat /\ (IF r.confirmed < Build THEN Build ELSE r.confirmed) \in Nat
  BY <1>1 DEF GuardRecord
<1>3. ActiveSlot \in Slot /\ 0 \in 0..MaxBootAttempts /\ "CONFIRMED" \in GuardState
  BY AttemptsAssumption DEF ActiveSlot, Slot, GuardState
<1>4. Confirmed(r) \in GuardRecord
  BY <1>2, <1>3 DEF Confirmed, GuardRecord
<1>5. /\ Confirmed(r).state = "CONFIRMED" /\ Confirmed(r).backup = FALSE
      /\ Confirmed(r).confirmed = IF r.confirmed < Build THEN Build ELSE r.confirmed
  BY DEF Confirmed, GuardRecord
<1> QED BY <1>1, <1>2, <1>4, <1>5

LEMMA DefaultFacts ==
  ASSUME run \in Slot, body[run] \in Images
  PROVE  /\ DefaultRecord \in GuardRecord
         /\ DefaultRecord.state = "CONFIRMED" /\ DefaultRecord.backup = FALSE
         /\ DefaultRecord.confirmed = Build /\ Build \in Nat
BY VersionAssumption, AttemptsAssumption
DEF DefaultRecord, GuardRecord, GuardState, Build, ActiveSlot, Slot

LEMMA ActiveFacts ==
  ASSUME run \in Slot, Valid(run), RomSlot = run \/ ~Valid(Other(run))
  PROVE  ActiveSlot = run /\ RomSlot = run
BY DEF ActiveSlot, RomSlot, Slot, Other, NoSlot

LEMMA ActiveInSlot == ActiveSlot \in Slot
BY DEF ActiveSlot, Slot

-----------------------------------------------------------------------------
(* The records the guard builds *)

LEMMA RecordFacts ==
  /\ \A r \in GuardRecord :
       /\ r.state \in GuardState /\ r.active \in Slot
       /\ r.previous \in Slot \cup {NoSlot} /\ r.pending \in Slot \cup {NoSlot}
       /\ r.attempts \in 0..MaxBootAttempts /\ r.backup \in BOOLEAN
       /\ r.confirmed \in Nat
  /\ 0 \in 0..MaxBootAttempts
  /\ {"CONFIRMED", "UPDATE_PREPARED", "PENDING", "ROLLED_BACK"} = GuardState
BY AttemptsAssumption DEF GuardRecord, GuardState

LEMMA ActiveSetFacts ==
  ASSUME NEW r \in GuardRecord, NEW s \in Slot
  PROVE  LET q == [r EXCEPT !.active = s]
         IN /\ q \in GuardRecord
            /\ q.state = r.state /\ q.active = s /\ q.previous = r.previous
            /\ q.pending = r.pending /\ q.attempts = r.attempts
            /\ q.backup = r.backup /\ q.confirmed = r.confirmed
BY DEF GuardRecord

LEMMA AttemptFacts ==
  ASSUME NEW r \in GuardRecord, r.attempts < MaxBootAttempts
  PROVE  LET q == NextAttempt(r)
         IN /\ q \in GuardRecord
            /\ q.state = r.state /\ q.active = r.active /\ q.previous = r.previous
            /\ q.pending = r.pending /\ q.backup = r.backup
            /\ q.confirmed = r.confirmed
BY AttemptsAssumption DEF GuardRecord, NextAttempt

LEMMA RolledBackFacts ==
  ASSUME g \in GuardRecord, g.previous \in Slot
  PROVE  /\ RolledBack \in GuardRecord
         /\ RolledBack.state = "ROLLED_BACK" /\ RolledBack.active = g.previous
         /\ RolledBack.previous = g.previous
         /\ RolledBack.backup = g.backup /\ RolledBack.confirmed = g.confirmed
<1>1. RolledBack \in GuardRecord
  BY RecordFacts DEF RolledBack, GuardRecord
<1>2. /\ RolledBack.state = "ROLLED_BACK" /\ RolledBack.active = g.previous
      /\ RolledBack.previous = g.previous
      /\ RolledBack.backup = g.backup /\ RolledBack.confirmed = g.confirmed
  BY DEF RolledBack, GuardRecord
<1> QED BY <1>1, <1>2

LEMMA UpdatePreparedFacts ==
  ASSUME g \in GuardRecord
  PROVE  /\ UpdatePrepared \in GuardRecord
         /\ UpdatePrepared.state = "UPDATE_PREPARED"
         /\ UpdatePrepared.active = ActiveSlot /\ UpdatePrepared.previous = ActiveSlot
         /\ UpdatePrepared.pending = Other(ActiveSlot)
         /\ UpdatePrepared.backup = TRUE /\ UpdatePrepared.confirmed = g.confirmed
<1>1. ActiveSlot \in Slot /\ Other(ActiveSlot) \in Slot
  BY ActiveInSlot, SlotFacts
<1>2. UpdatePrepared \in GuardRecord
  BY <1>1, RecordFacts DEF UpdatePrepared, GuardRecord
<1>3. /\ UpdatePrepared.state = "UPDATE_PREPARED"
      /\ UpdatePrepared.active = ActiveSlot /\ UpdatePrepared.previous = ActiveSlot
      /\ UpdatePrepared.pending = Other(ActiveSlot)
      /\ UpdatePrepared.backup = TRUE /\ UpdatePrepared.confirmed = g.confirmed
  BY DEF UpdatePrepared, GuardRecord
<1> QED BY <1>2, <1>3

LEMMA MarkedPendingFacts ==
  ASSUME g \in GuardRecord, g.state = "UPDATE_PREPARED",
         g.previous \in Slot, g.pending \in Slot
  PROVE  /\ MarkedPending \in GuardRecord
         /\ MarkedPending.state = "PENDING"
         /\ MarkedPending.previous = g.previous /\ MarkedPending.pending = g.pending
         /\ MarkedPending.backup = g.backup /\ MarkedPending.confirmed = g.confirmed
<1>1. g.previous # NoSlot /\ g.pending # NoSlot
  BY SlotFacts
<1>2. MarkedPending = [g EXCEPT !.state = "PENDING", !.previous = g.previous,
        !.pending = g.pending, !.active = ActiveSlot, !.attempts = 0]
  BY <1>1, Zenon DEF MarkedPending
<1>3. MarkedPending \in GuardRecord
  BY <1>2, RecordFacts, ActiveInSlot DEF GuardRecord
<1>4. /\ MarkedPending.state = "PENDING"
      /\ MarkedPending.previous = g.previous /\ MarkedPending.pending = g.pending
      /\ MarkedPending.backup = g.backup /\ MarkedPending.confirmed = g.confirmed
  BY <1>2 DEF GuardRecord
<1> QED BY <1>3, <1>4

LEMMA AbortedFacts ==
  ASSUME g \in GuardRecord
  PROVE  /\ Aborted \in GuardRecord
         /\ Aborted.state = "CONFIRMED" /\ Aborted.backup = FALSE
         /\ Aborted.active = g.active /\ Aborted.confirmed = g.confirmed
<1>1. Aborted \in GuardRecord
  BY RecordFacts DEF Aborted, GuardRecord
<1>2. /\ Aborted.state = "CONFIRMED" /\ Aborted.backup = FALSE
      /\ Aborted.active = g.active /\ Aborted.confirmed = g.confirmed
  BY DEF Aborted, GuardRecord
<1> QED BY <1>1, <1>2

-----------------------------------------------------------------------------
LEMMA InitIInv == Init => IInv
<1> SUFFICES ASSUME NEW image \in Images,
             first = [s \in Slot |-> IF s = 0 THEN [mark |-> "valid", code |-> image]
                                          ELSE Erased],
             body  = [s \in Slot |-> IF s = 0 THEN image ELSE Blank],
             backup = Erased, meta = NoRecord,
             pc = "off", run = NoSlot, g = NoRecord, trial = FALSE, ready = FALSE,
             ota = FALSE, stack = "idle", then = "off", overwritten = FALSE
             PROVE  IInv
  BY DEF Init
<1>1. first \in [Slot -> Sector]
  <2>1. \A s \in Slot : (IF s = 0 THEN [mark |-> "valid", code |-> image] ELSE Erased) \in Sector
    BY SectorFacts DEF Mark
  <2> QED BY <2>1
<1>2. body \in [Slot -> Content]
  <2>1. \A s \in Slot : (IF s = 0 THEN image ELSE Blank) \in Content
    BY SectorFacts
  <2> QED BY <2>1
<1>3. TypeOK
  BY <1>1, <1>2, SectorFacts DEF TypeOK, Label, Phase
<1> QED
  BY <1>3 DEF IInv, RecordInv, BootInv, SaveInv, UpdateInv, RollbackInv

-----------------------------------------------------------------------------
(* Each action preserves the invariant: one step per conjunct. *)

LEMMA PowerOnStep ==
  ASSUME IInv, PowerOn
  PROVE  IInv'
<1>1. TypeOK'
    BY SlotFacts DEF IInv, PowerOn, TypeOK, flash, Label, RomSlot
<1>2. RecordInv'
    BY DEF IInv, PowerOn, RecordInv, flash, Valid, RomSlot, Whole, Boots,
     GoodRecord, NotAhead
<1>3. BootInv'
    BY SlotFacts DEF IInv, PowerOn, BootInv, flash, Valid, RomSlot, Whole,
     Boots, RunsRom
<1>4. SaveInv'
    BY DEF IInv, PowerOn, SaveInv
<1>5. UpdateInv'
    BY DEF IInv, PowerOn, UpdateInv
<1>6. RollbackInv'
    BY DEF IInv, PowerOn, RollbackInv
<1> QED BY <1>1, <1>2, <1>3, <1>4, <1>5, <1>6 DEF IInv

\* Whatever record the boot check saves, the CPU goes on to start the image.
LEMMA StartStep ==
  ASSUME NEW q \in GuardRecord, IInv, pc = "check", Save(q, "initHead"),
         UNCHANGED <<flash, run, ready, ota, stack, overwritten>>, trial' \in BOOLEAN,
         GoodRecord(q), NotAhead(q, body[run]),
         \/ q.state = "CONFIRMED" /\ ~trial'
         \/ q.state = "PENDING" /\ trial' /\ q.pending = run
  PROVE  IInv'
<1>1. RunsRom /\ stack = "idle" /\ ~ota
  BY DEF IInv, BootInv
<1>2. /\ pc' = "saveErase" /\ g' = q /\ then' = "initHead"
      /\ UNCHANGED <<first, body, backup, meta, run, ready, ota, stack, overwritten>>
  BY DEF Save, flash
<1>3. TypeOK'
  BY <1>2, Zenon DEF IInv, TypeOK, Label
<1>4. RecordInv'
  BY <1>2 DEF IInv, RecordInv, GoodRecord, Boots, RomSlot, Whole, Valid, NotAhead
<1>5. GoodRecord(g)'
  BY <1>2 DEF GoodRecord, Boots, RomSlot, Whole, Valid, NotAhead
<1>6. RunsRom' /\ Started'
  BY <1>1, <1>2 DEF RunsRom, RomSlot, Whole, Valid, Started, Build, NotAhead, Settled
<1> QED
  BY <1>2, <1>3, <1>4, <1>5, <1>6
  DEF IInv, BootInv, SaveInv, UpdateInv, RollbackInv

LEMMA BootCheckStep ==
  ASSUME IInv, BootCheck
  PROVE  IInv'
<1> DEFINE r == [meta EXCEPT !.active = ActiveSlot]
           onTrial == meta.state = "PENDING" /\ meta.pending = ActiveSlot
           older   == Build < meta.confirmed
<1>1. /\ RunsRom /\ stack = "idle" /\ ~ota /\ ~trial /\ pc = "check"
      /\ run \in Slot /\ body[run] \in Images /\ Valid(run) /\ Whole(run)
      /\ UNCHANGED <<flash, run, ready, ota, stack, overwritten>>
  BY SlotFacts DEF IInv, BootInv, BootCheck, RunsRom, Whole, RomSlot, Valid
<1>0. ASSUME UNCHANGED trial
      PROVE  trial' \in BOOLEAN /\ ~trial'
  <2>1. trial = FALSE
    BY <1>1 DEF IInv, TypeOK
  <2> QED
    BY <1>0, <2>1
<1>2. ActiveSlot = run /\ RomSlot = run /\ Boots
  BY <1>1, SlotFacts DEF RunsRom, Boots, ActiveSlot, RomSlot
<1>3. Build \in Nat /\ Version[body[RomSlot]] = Build
  BY <1>1, <1>2, VersionAssumption DEF Build
<1>4. ASSUME meta # NoRecord
      PROVE  /\ meta \in GuardRecord /\ GoodRecord(meta) /\ r \in GuardRecord
             /\ r.state = meta.state /\ r.active = run /\ r.previous = meta.previous
             /\ r.pending = meta.pending /\ r.attempts = meta.attempts
             /\ r.backup = meta.backup /\ r.confirmed = meta.confirmed
  BY <1>1, <1>2, <1>4, ActiveSetFacts DEF IInv, TypeOK, RecordInv
<1>5. ASSUME NEW q \in GuardRecord, NotAhead(q, body[run]),
             Save(Confirmed(q), "initHead"), UNCHANGED trial
      PROVE  IInv'
  <2>1. /\ Confirmed(q) \in GuardRecord /\ Confirmed(q).state = "CONFIRMED"
        /\ ~Confirmed(q).backup
        /\ q.confirmed <= Build => Confirmed(q).confirmed = Build
    BY <1>1, <1>5, ConfirmedFacts
  <2>2. NotAhead(Confirmed(q), body[run])
    BY <1>3, <1>5, <2>1 DEF NotAhead, Build
  <2>3. GoodRecord(Confirmed(q))
    BY <1>2, <2>1, <2>2 DEF GoodRecord
  <2> QED
    BY <1>0, <1>1, <1>5, <2>1, <2>2, <2>3, StartStep, Zenon
<1>6. ASSUME meta # NoRecord, RollBackOrKeep(r), UNCHANGED trial,
             meta.state # "CONFIRMED",
             \/ overwritten
             \/ meta.state \in {"UPDATE_PREPARED", "PENDING"} /\ meta.pending = run
      PROVE  IInv'
  <2>1. /\ r.previous \in Slot /\ r.backup
        /\ r.previous # NoSlot /\ body[r.previous] # Torn
        /\ body[r.previous] \in Images \/ NotAhead(r, body[run])
        /\ body[r.previous] \in Images =>
             /\ NotAhead(r, body[r.previous])
             /\ backup = [mark |-> "valid", code |-> body[r.previous]]
    BY <1>4, <1>6, SlotFacts DEF GoodRecord, NotAhead
  <2>2. body[r.previous] \in Images \/ body[r.previous] = Blank
    BY <2>1 DEF IInv, TypeOK, Content
  <2>3. CASE pc' = "rbErase" /\ g' = r /\ UNCHANGED then /\ body[r.previous] \in Images
    <3>1. UNCHANGED <<first, body, backup, meta, run, ready, ota, stack, overwritten>>
      BY <1>1 DEF flash
    <3>2. TypeOK'
      BY <1>4, <1>6, <2>3, <3>1, Zenon DEF IInv, TypeOK, Label
    <3>3. RecordInv'
      BY <3>1 DEF IInv, RecordInv, GoodRecord, Boots, RomSlot, Whole, Valid, NotAhead
    <3>4. \/ overwritten
          \/ r.previous = Other(run) /\ meta.state \in {"UPDATE_PREPARED", "PENDING"}
      BY <1>1, <1>4, <1>6, SlotFacts DEF GoodRecord
    <3>5. g' = r /\ r \in GuardRecord /\ r.active = run /\ pc' = "rbErase"
      BY <1>4, <1>6, <2>3
    <3> HIDE DEF r
    <3>6. RollbackInv'
      BY <1>1, <1>2, <1>6, <2>1, <2>3, <3>1, <3>4, <3>5
      DEF RollbackInv, RomSlot, Whole, Valid, NotAhead
    <3> QED
      BY <2>3, <3>2, <3>3, <3>6 DEF IInv, BootInv, SaveInv, UpdateInv
  <2>4. CASE Save(Confirmed(r), "initHead") /\ body[r.previous] = Blank
    <3>1. NotAhead(r, body[run])
      BY <2>1, <2>4, ContentAssumption
    <3> QED
      BY <1>4, <1>5, <1>6, <2>4, <3>1
  <2>5. \/ pc' = "rbErase" /\ g' = r /\ UNCHANGED then /\ body[r.previous] # Blank
        \/ Save(Confirmed(r), "initHead") /\ body[r.previous] \notin Images
    BY <1>6, <2>1, <2>2, ContentAssumption DEF RollBackOrKeep, BodyProbe
  <2> QED
    BY <2>2, <2>3, <2>4, <2>5
<1>7. CASE meta = NoRecord /\ Save(DefaultRecord, "initHead") /\ UNCHANGED trial
  <2>1. /\ DefaultRecord \in GuardRecord /\ DefaultRecord.state = "CONFIRMED"
        /\ ~DefaultRecord.backup /\ DefaultRecord.confirmed = Build
    BY <1>1, DefaultFacts
  <2>2. GoodRecord(DefaultRecord) /\ NotAhead(DefaultRecord, body[run])
    BY <1>2, <1>3, <2>1 DEF GoodRecord, NotAhead, Build
  <2> QED
    BY <1>0, <1>1, <1>7, <2>1, <2>2, StartStep, Zenon
<1>8. CASE meta # NoRecord /\ onTrial /\ RollBackOrKeep(r) /\ UNCHANGED trial
  BY <1>2, <1>6, <1>8
<1>9. CASE /\ meta # NoRecord /\ onTrial /\ ~older /\ meta.attempts < MaxBootAttempts
           /\ Save(NextAttempt(r), "initHead") /\ trial' = TRUE
  <2> DEFINE q == NextAttempt(r)
  <2>1. /\ q \in GuardRecord /\ q.state = "PENDING" /\ q.previous = meta.previous
        /\ q.pending = meta.pending /\ q.pending = run
        /\ q.backup = meta.backup /\ q.confirmed = meta.confirmed
    BY <1>2, <1>4, <1>9, AttemptFacts
  <2>2. GoodRecord(meta)
    BY <1>4, <1>9
  <2>3. GoodRecord(q)
    BY <1>9, <2>1, <2>2 DEF GoodRecord, NotAhead
  <2>4. NotAhead(q, body[run])
    BY <1>3, <1>4, <1>9, <2>1, RecordFacts DEF NotAhead, Build
  <2>5. Save(q, "initHead")
    BY <1>9
  <2> HIDE DEF q
  <2> QED
    BY <1>1, <1>9, <2>1, <2>3, <2>4, <2>5, StartStep
<1>10. CASE /\ meta # NoRecord /\ ~onTrial /\ older /\ meta.backup
            /\ RollBackOrKeep(r) /\ UNCHANGED trial
  <2>1. meta \in GuardRecord /\ GoodRecord(meta) /\ meta.state \in GuardState
    BY <1>4, <1>10, RecordFacts
  <2>2. meta.state # "CONFIRMED" /\ meta.confirmed \in Nat
    BY <1>10, <2>1, RecordFacts DEF GoodRecord, NotAhead
  <2>3. CASE overwritten
    BY <1>6, <1>10, <2>2, <2>3
  <2>4. CASE ~overwritten
    <3>1. meta.previous # run
      BY <1>1, <1>3, <1>10, <2>1, <2>2, <2>4 DEF GoodRecord, Build, NotAhead
    <3>2. meta.state # "ROLLED_BACK"
      BY <1>2, <2>1, <2>4, <3>1 DEF GoodRecord
    <3>3. meta.state \in {"UPDATE_PREPARED", "PENDING"}
      BY <2>1, <2>2, <3>2 DEF GuardState
    <3>4. meta.pending = run
      BY <1>1, <2>1, <2>2, <3>1, <3>3, SlotFacts DEF GoodRecord
    <3> QED
      BY <1>6, <1>10, <2>2, <3>3, <3>4
  <2> QED
    BY <2>3, <2>4
<1>11. CASE /\ meta # NoRecord /\ ~onTrial /\ ~(older /\ meta.backup) /\ UNCHANGED trial
            /\ IF meta.state # "CONFIRMED" \/ meta.confirmed < Build
                 THEN Save(Confirmed(r), "initHead")
                 ELSE Save(r, "initHead")
  <2>1. /\ meta \in GuardRecord /\ GoodRecord(meta)
        /\ r \in GuardRecord /\ r.confirmed = meta.confirmed /\ r.state = meta.state
        /\ r.backup = meta.backup /\ meta.confirmed \in Nat
    BY <1>4, <1>11, RecordFacts
  <2>2. NotAhead(r, body[run])
    <3>1. CASE meta.state = "CONFIRMED"
      BY <1>2, <2>1, <3>1 DEF GoodRecord, NotAhead
    <3>2. CASE meta.state # "CONFIRMED"
      BY <1>3, <1>11, <2>1, <3>2 DEF GoodRecord, NotAhead, Build
    <3> QED BY <3>1, <3>2
  <2>3. CASE Save(Confirmed(r), "initHead")
    BY <1>5, <1>11, <2>1, <2>2, <2>3
  <2>4. CASE meta.state = "CONFIRMED" /\ Save(r, "initHead")
    <3>1. GoodRecord(r)
      BY <1>2, <2>1, <2>2, <2>4 DEF GoodRecord
    <3>2. NotAhead(r, body[run]) /\ r.state = "CONFIRMED" /\ ~trial'
      BY <1>0, <1>11, <2>1, <2>2, <2>4
    <3>3. r \in GuardRecord /\ Save(r, "initHead")
      BY <2>1, <2>4
    <3> HIDE DEF r
    <3> QED
      BY <1>0, <1>1, <1>11, <3>1, <3>2, <3>3, StartStep, Zenon
  <2> QED
    BY <1>11, <2>3, <2>4
<1> QED
  BY <1>7, <1>8, <1>9, <1>10, <1>11 DEF BootCheck

LEMMA SaveEraseStep ==
  ASSUME IInv, SaveErase
  PROVE  IInv'
<1>1. TypeOK'
    BY DEF IInv, SaveErase, TypeOK, ram, Label
<1>2. RecordInv'
    BY DEF IInv, SaveErase, RecordInv
<1>3. BootInv'
    BY DEF IInv, SaveErase, BootInv
<1>4. SaveInv'
    BY DEF IInv, SaveErase, SaveInv, ram, Valid, RomSlot, Whole, Boots, Build,
     RunsRom, RunsAlone, GoodRecord, Started, Prepared, Transfer, NotAhead, Settled, Replaced
<1>5. UpdateInv'
    BY DEF IInv, SaveErase, UpdateInv
<1>6. RollbackInv'
    BY DEF IInv, SaveErase, RollbackInv
<1> QED BY <1>1, <1>2, <1>3, <1>4, <1>5, <1>6 DEF IInv

LEMMA SaveWriteStep ==
  ASSUME IInv, SaveWrite
  PROVE  IInv'
<1>1. TypeOK'
  <2>1. CASE then = "off"
    BY <2>1, Zenon DEF IInv, TypeOK, SaveWrite, PowerDown, Label, Phase
  <2>2. CASE then # "off"
    BY <2>2, SMT DEF IInv, TypeOK, SaveInv, GoodRecord, SaveWrite, ram, Label, Phase, NotAhead
  <2> QED BY <2>1, <2>2
<1>2. RecordInv'
    BY DEF IInv, SaveWrite, RecordInv, SaveInv, Valid, RomSlot, Whole, Boots,
     GoodRecord, NotAhead
<1>3. BootInv'
    BY DEF IInv, SaveWrite, TypeOK, BootInv, SaveInv, PowerDown, ram, Valid,
     RomSlot, Whole, Build, RunsRom, RunsAlone, Started, NotAhead, Settled
<1>4. SaveInv'
    BY DEF IInv, SaveWrite, TypeOK, SaveInv, PowerDown
<1>5. UpdateInv'
    BY DEF IInv, SaveWrite, TypeOK, SaveInv, UpdateInv, PowerDown, ram, Valid,
     Whole, Build, Prepared, Transfer, NotAhead, Replaced
<1>6. RollbackInv'
    BY DEF IInv, SaveWrite, TypeOK, RollbackInv, PowerDown
<1> QED BY <1>1, <1>2, <1>3, <1>4, <1>5, <1>6 DEF IInv

LEMMA InitHeadStep ==
  ASSUME IInv, InitHead
  PROVE  IInv'
<1>1. TypeOK'
    BY SlotFacts, SectorFacts DEF IInv, InitHead, TypeOK, BootInv, ram, Label,
     RunsRom
<1>2. RecordInv'
    BY SlotFacts, SectorFacts DEF IInv, InitHead, RecordInv, BootInv, Valid,
     RomSlot, Whole, Boots, RunsRom, GoodRecord, NotAhead
<1>3. BootInv'
    BY SlotFacts, SectorFacts DEF IInv, InitHead, TypeOK, BootInv, ram, Valid,
     RomSlot, Whole, Build, RunsRom, Started, NotAhead, Settled
<1>4. SaveInv'
    BY DEF IInv, InitHead, SaveInv
<1>5. UpdateInv'
    BY DEF IInv, InitHead, UpdateInv
<1>6. RollbackInv'
    BY DEF IInv, InitHead, RollbackInv
<1> QED BY <1>1, <1>2, <1>3, <1>4, <1>5, <1>6 DEF IInv

LEMMA InitBodyStep ==
  ASSUME IInv, InitBody
  PROVE  IInv'
<1>1. TypeOK'
    BY SlotFacts, SectorFacts DEF IInv, InitBody, TypeOK, BootInv, ram, Label,
     RunsRom
<1>2. RecordInv'
    BY SectorFacts DEF IInv, InitBody, RecordInv, BootInv, Valid, RomSlot,
     Whole, Build, RunsRom, GoodRecord, Started, NotAhead, Settled
<1>3. BootInv'
    BY SlotFacts DEF IInv, InitBody, TypeOK, BootInv, ram, Valid, RomSlot,
     Whole, Build, RunsRom, RunsAlone, Started, NotAhead, Settled
<1>4. SaveInv'
    BY DEF IInv, InitBody, SaveInv
<1>5. UpdateInv'
    BY DEF IInv, InitBody, BootInv, UpdateInv, ram, Started, NotAhead, Settled
<1>6. RollbackInv'
    BY DEF IInv, InitBody, RollbackInv
<1> QED BY <1>1, <1>2, <1>3, <1>4, <1>5, <1>6 DEF IInv

LEMMA RollbackEraseStep ==
  ASSUME IInv, RollbackErase
  PROVE  IInv'
<1>1. TypeOK'
    BY SlotFacts, SectorFacts DEF IInv, RollbackErase, TypeOK, RollbackInv,
     ram, Label
<1>2. RecordInv'
    BY DEF IInv, RollbackErase, RecordInv, RollbackInv, GoodRecord, NotAhead
<1>3. BootInv'
    BY DEF IInv, RollbackErase, BootInv
<1>4. SaveInv'
    BY DEF IInv, RollbackErase, SaveInv
<1>5. UpdateInv'
    BY DEF IInv, RollbackErase, UpdateInv
<1>6. RollbackInv'
    BY SlotFacts DEF IInv, RollbackErase, TypeOK, RollbackInv, ram, Valid,
     Whole, NotAhead
<1> QED BY <1>1, <1>2, <1>3, <1>4, <1>5, <1>6 DEF IInv

LEMMA RollbackPageStep ==
  ASSUME IInv, RollbackPage
  PROVE  IInv'
<1>1. TypeOK'
    BY SlotFacts, SectorFacts DEF IInv, RollbackPage, TypeOK, RollbackInv,
     ram, Label
<1>2. RecordInv'
    BY DEF IInv, RollbackPage, RecordInv, RollbackInv, GoodRecord, NotAhead
<1>3. BootInv'
    BY DEF IInv, RollbackPage, BootInv
<1>4. SaveInv'
    BY DEF IInv, RollbackPage, SaveInv
<1>5. UpdateInv'
    BY DEF IInv, RollbackPage, UpdateInv
<1>6. RollbackInv'
    BY SlotFacts DEF IInv, RollbackPage, TypeOK, RollbackInv, ram, Valid,
     Whole, NotAhead
<1> QED BY <1>1, <1>2, <1>3, <1>4, <1>5, <1>6 DEF IInv

LEMMA RollbackRestStep ==
  ASSUME IInv, RollbackRest
  PROVE  IInv'
<1>1. TypeOK'
    BY SlotFacts DEF IInv, RollbackRest, TypeOK, RollbackInv, ram, Label
<1>2. RecordInv'
    BY DEF IInv, RollbackRest, RecordInv, RollbackInv, GoodRecord, NotAhead
<1>3. BootInv'
    BY DEF IInv, RollbackRest, BootInv
<1>4. SaveInv'
    BY DEF IInv, RollbackRest, SaveInv
<1>5. UpdateInv'
    BY DEF IInv, RollbackRest, UpdateInv
<1>6. RollbackInv'
    BY SlotFacts DEF IInv, RollbackRest, TypeOK, RollbackInv, ram, Valid,
     Whole, NotAhead
<1> QED BY <1>1, <1>2, <1>3, <1>4, <1>5, <1>6 DEF IInv

LEMMA RollbackClearStep ==
  ASSUME IInv, RollbackClear
  PROVE  IInv'
<1>1. TypeOK'
  <2>1. g \in GuardRecord /\ g.active \in Slot /\ g.previous \in Slot
    BY SlotFacts DEF IInv, RollbackInv, RollbackClear
  <2>2. first' \in [Slot -> Sector]
    BY <2>1, SectorFacts DEF IInv, TypeOK, RollbackClear, Mark
  <2> QED
    BY <2>1, <2>2, RolledBackFacts, SMT DEF IInv, TypeOK, RollbackClear, Save, Label
<1>2. RecordInv'
    BY DEF IInv, RollbackClear, RecordInv, RollbackInv, GoodRecord, NotAhead
<1>3. BootInv'
    BY DEF IInv, RollbackClear, BootInv, Save
<1>4. SaveInv'
  <2>1. /\ run \in Slot /\ g \in GuardRecord /\ g.active = run /\ g.previous \in Slot
        /\ g.backup /\ body[g.previous] \in Images /\ NotAhead(g, body[g.previous])
        /\ backup = [mark |-> "valid", code |-> body[g.previous]]
        /\ first[g.previous] = backup
    BY DEF IInv, RollbackInv, RollbackClear
  <2>2. /\ g' = RolledBack /\ then' = "off" /\ UNCHANGED <<body, backup, run, overwritten>>
        /\ first' = [first EXCEPT ![run] = [@ EXCEPT !.mark = "cleared"]]
    BY <2>1 DEF RollbackClear, Save
  <2>3. /\ g' \in GuardRecord /\ g'.state = "ROLLED_BACK" /\ g'.active = g.previous
        /\ g'.previous = g.previous /\ g'.backup = g.backup /\ g'.confirmed = g.confirmed
    BY <2>1, <2>2, RolledBackFacts
  <2>4. ASSUME ~overwritten
        PROVE  /\ g.previous = Other(run) /\ RomSlot' = Other(run)
               /\ Whole(Other(run))' /\ Boots' /\ Whole(run)'
    <3>1. g.previous = Other(run) /\ Whole(run) /\ first \in [Slot -> Sector]
      BY <2>4 DEF IInv, TypeOK, RollbackInv, RollbackClear
    <3>2. /\ first'[Other(run)] = backup
          /\ first'[run] = [first[run] EXCEPT !.mark = "cleared"] /\ first[run] \in Sector
      BY <2>1, <2>2, <3>1, SlotFacts
    <3>3. first'[run].mark = "cleared" /\ first'[run].code = first[run].code
      BY <3>2, SectorFacts DEF Mark
    <3>4. Valid(Other(run))' /\ ~Valid(run)' /\ Whole(Other(run))' /\ Whole(run)'
      BY <2>1, <2>2, <3>1, <3>2, <3>3 DEF Valid, Whole
    <3>5. RomSlot' = Other(run) /\ Other(run) # NoSlot
      BY <2>1, <2>2, <3>2, <3>3, <3>4, SlotFacts DEF RomSlot, Valid
    <3> QED
      BY <2>2, <3>1, <3>4, <3>5 DEF Boots, Whole
  <2>5. (RomSlot' = g'.active /\ Whole(g.active)') \/ overwritten
    BY <2>2, <2>3, <2>4 DEF Whole
  <2>6. GoodRecord(g)'
    BY <2>1, <2>2, <2>3, <2>5, SectorFacts DEF GoodRecord, NotAhead
  <2> QED
    BY <2>1, <2>2, <2>4, <2>6 DEF SaveInv
<1>5. UpdateInv'
    BY DEF IInv, RollbackClear, UpdateInv, Save
<1>6. RollbackInv'
    BY DEF IInv, RollbackClear, RollbackInv, Save
<1> QED BY <1>1, <1>2, <1>3, <1>4, <1>5, <1>6 DEF IInv

LEMMA BackupEraseStep ==
  ASSUME IInv, BackupErase
  PROVE  IInv'
<1>1. TypeOK'
    BY SectorFacts DEF IInv, BackupErase, TypeOK, ram, Label
<1>2. RecordInv'
  <2>1. meta = g /\ Settled /\ body[Other(run)] = Blank /\ run \in Slot
    BY DEF IInv, BackupErase, UpdateInv, RunsAlone, RunsRom
  <2>2. /\ Boots' = Boots /\ RomSlot' = RomSlot /\ \A s : Whole(s)' = Whole(s)
        /\ UNCHANGED <<first, body, meta, run, overwritten>>
    BY DEF BackupErase, ram, Boots, RomSlot, Whole, Valid
  <2> QED
    BY <2>1, <2>2, SlotFacts, SectorFacts
    DEF IInv, RecordInv, GoodRecord, Settled, NotAhead
<1>3. BootInv'
    BY DEF IInv, BackupErase, BootInv
<1>4. SaveInv'
    BY DEF IInv, BackupErase, SaveInv
<1>5. UpdateInv'
    BY DEF IInv, BackupErase, UpdateInv, ram, Valid, RomSlot, Whole, Build,
     RunsRom, RunsAlone, Settled, NotAhead
<1>6. RollbackInv'
    BY DEF IInv, BackupErase, RollbackInv
<1> QED BY <1>1, <1>2, <1>3, <1>4, <1>5, <1>6 DEF IInv

LEMMA BackupPageStep ==
  ASSUME IInv, BackupPage
  PROVE  IInv'
<1>1. TypeOK'
    BY SlotFacts, SectorFacts, ActiveFacts DEF IInv, BackupPage, TypeOK,
     UpdateInv, ram, Label, RomSlot, RunsRom, RunsAlone
<1>2. RecordInv'
  <2>1. meta = g /\ Settled /\ body[Other(run)] = Blank /\ run \in Slot
    BY DEF IInv, BackupPage, UpdateInv, RunsAlone, RunsRom
  <2>2. /\ Boots' = Boots /\ RomSlot' = RomSlot /\ \A s : Whole(s)' = Whole(s)
        /\ UNCHANGED <<first, body, meta, run, overwritten>>
    BY DEF BackupPage, ram, Boots, RomSlot, Whole, Valid
  <2> QED
    BY <2>1, <2>2, SlotFacts, SectorFacts
    DEF IInv, RecordInv, GoodRecord, Settled, NotAhead
<1>3. BootInv'
    BY DEF IInv, BackupPage, BootInv
<1>4. SaveInv'
    BY DEF IInv, BackupPage, SaveInv
<1>5. UpdateInv'
    BY DEF IInv, BackupPage, UpdateInv, ram, Valid, RomSlot, Whole, Build,
     RunsRom, RunsAlone, Settled, NotAhead
<1>6. RollbackInv'
    BY DEF IInv, BackupPage, RollbackInv
<1> QED BY <1>1, <1>2, <1>3, <1>4, <1>5, <1>6 DEF IInv

LEMMA BackupRestStep ==
  ASSUME IInv, BackupRest
  PROVE  IInv'
<1>1. TypeOK'
    BY RecordFacts, UpdatePreparedFacts DEF IInv, BackupRest, TypeOK,
     UpdateInv, Save, Label, Settled
<1>2. RecordInv'
  <2>1. meta = g /\ Settled /\ body[Other(run)] = Blank /\ run \in Slot
    BY DEF IInv, BackupRest, UpdateInv, RunsAlone, RunsRom
  <2>2. /\ Boots' = Boots /\ RomSlot' = RomSlot /\ \A s : Whole(s)' = Whole(s)
        /\ UNCHANGED <<first, body, meta, run, overwritten>>
    BY DEF BackupRest, Boots, RomSlot, Whole, Valid
  <2> QED
    BY <2>1, <2>2, SlotFacts, SectorFacts
    DEF IInv, RecordInv, GoodRecord, Settled, NotAhead
<1>3. BootInv'
    BY DEF IInv, BackupRest, BootInv, Save
<1>4. SaveInv'
  <2>1. /\ RunsAlone /\ stack = "receiving" /\ ota /\ run \in Slot
        /\ g \in GuardRecord /\ NotAhead(g, body[run]) /\ body[run] \in Images
    BY DEF IInv, UpdateInv, BackupRest, RunsAlone, RunsRom, Whole, Settled
  <2>2. ActiveSlot = run /\ first[run] = [mark |-> "valid", code |-> body[run]]
    BY <2>1, ActiveFacts, SlotFacts DEF IInv, TypeOK, RunsAlone, RunsRom, RomSlot, Whole, Valid, Sector
  <2>3. /\ g' = UpdatePrepared /\ then' = "main" /\ backup' = first[run]
        /\ UNCHANGED <<first, body, run, trial, ota, stack, overwritten>>
    BY <2>2 DEF BackupRest, Save
  <2>4. /\ UpdatePrepared \in GuardRecord /\ UpdatePrepared.state = "UPDATE_PREPARED"
        /\ UpdatePrepared.previous = run /\ UpdatePrepared.pending = Other(run)
        /\ UpdatePrepared.backup = TRUE /\ UpdatePrepared.confirmed = g.confirmed
    BY <2>1, <2>2, UpdatePreparedFacts
  <2>5. Transfer'
    BY <2>1, <2>2, <2>3 DEF Transfer, RunsAlone, RunsRom, Whole, Valid
  <2>6. Prepared'
    BY <2>1, <2>2, <2>3, <2>4 DEF Prepared, Build, NotAhead, Replaced
  <2>7. GoodRecord(g)'
    BY <2>1, <2>2, <2>3, <2>4, SectorFacts DEF GoodRecord, Build, NotAhead
  <2> QED
    BY <2>1, <2>3, <2>5, <2>6, <2>7 DEF SaveInv
<1>5. UpdateInv'
    BY DEF IInv, BackupRest, UpdateInv, Save
<1>6. RollbackInv'
    BY DEF IInv, BackupRest, RollbackInv, Save
<1> QED BY <1>1, <1>2, <1>3, <1>4, <1>5, <1>6 DEF IInv

LEMMA ServerEndsStep ==
  ASSUME IInv, ServerEnds
  PROVE  IInv'
<1>1. TypeOK'
    BY SlotFacts, SectorFacts DEF IInv, ServerEnds, TypeOK, UpdateInv, Phase,
     Transfer
<1>2. RecordInv'
    BY DEF IInv, ServerEnds, RecordInv, UpdateInv, Whole, GoodRecord,
     Prepared, Transfer, NotAhead, Replaced
<1>3. BootInv'
    BY DEF IInv, ServerEnds, BootInv
<1>4. SaveInv'
    BY DEF IInv, ServerEnds, SaveInv
<1>5. UpdateInv'
  <2>1. Transfer /\ (Prepared \/ Replaced) /\ meta = g /\ run \in Slot
    BY DEF IInv, UpdateInv, ServerEnds, Transfer
  <2>2. /\ body'[run] = body[run] /\ body'[Other(run)] = first[Other(run)].code
        /\ stack' = "verified" /\ UNCHANGED <<first, backup, meta, run, g, ota, overwritten>>
        /\ pc' = "main"
    BY <2>1, SlotFacts DEF ServerEnds, IInv, TypeOK
  <2>3. Transfer'
    BY <2>1, <2>2, SlotFacts DEF Transfer, ServerEnds, Whole, Valid
  <2>4. Prepared' \/ Replaced'
    BY <2>1, <2>2 DEF Prepared, Replaced, NotAhead
  <2> QED
    BY <2>1, <2>2, <2>3, <2>4 DEF UpdateInv
<1>6. RollbackInv'
    BY DEF IInv, ServerEnds, RollbackInv
<1> QED BY <1>1, <1>2, <1>3, <1>4, <1>5, <1>6 DEF IInv

LEMMA ServerMarksNewStep ==
  ASSUME IInv, ServerMarksNew
  PROVE  IInv'
<1>1. TypeOK'
  <2>1. first' \in [Slot -> Sector]
    BY SlotFacts, SectorFacts DEF IInv, TypeOK, ServerMarksNew, UpdateInv, Transfer, Mark
  <2> QED
    BY <2>1, SMT DEF IInv, TypeOK, ServerMarksNew, Phase
<1>2. RecordInv'
    BY DEF IInv, ServerMarksNew, RecordInv, UpdateInv, GoodRecord, Prepared, NotAhead, Replaced
<1>3. BootInv'
    BY DEF IInv, ServerMarksNew, BootInv
<1>4. SaveInv'
    BY DEF IInv, ServerMarksNew, SaveInv
<1>5. UpdateInv'
    BY SlotFacts DEF IInv, ServerMarksNew, TypeOK, UpdateInv, Valid, Whole,
     Build, Prepared, Transfer, NotAhead, Replaced
<1>6. RollbackInv'
    BY DEF IInv, ServerMarksNew, RollbackInv
<1> QED BY <1>1, <1>2, <1>3, <1>4, <1>5, <1>6 DEF IInv

LEMMA ServerClearsOldStep ==
  ASSUME IInv, ServerClearsOld
  PROVE  IInv'
<1>1. TypeOK'
  <2>1. first' \in [Slot -> Sector]
    BY SectorFacts DEF IInv, TypeOK, ServerClearsOld, UpdateInv, Transfer, Mark
  <2> QED
    BY <2>1, SMT DEF IInv, TypeOK, ServerClearsOld, Phase
<1>2. RecordInv'
    BY DEF IInv, ServerClearsOld, RecordInv, UpdateInv, GoodRecord, Prepared, NotAhead, Replaced
<1>3. BootInv'
    BY DEF IInv, ServerClearsOld, BootInv
<1>4. SaveInv'
    BY DEF IInv, ServerClearsOld, SaveInv
<1>5. UpdateInv'
    BY SlotFacts DEF IInv, ServerClearsOld, TypeOK, UpdateInv, Valid, Whole,
     Build, Prepared, Transfer, NotAhead, Replaced
<1>6. RollbackInv'
    BY DEF IInv, ServerClearsOld, RollbackInv
<1> QED BY <1>1, <1>2, <1>3, <1>4, <1>5, <1>6 DEF IInv

LEMMA ServerRebootsStep ==
  ASSUME IInv, ServerReboots
  PROVE  IInv'
<1>1. TypeOK'
  BY Zenon DEF IInv, TypeOK, ServerReboots, PowerDown, flash, Label, Phase
<1>2. RecordInv'
    BY DEF IInv, ServerReboots, RecordInv, flash, Valid, RomSlot, Whole,
     Boots, GoodRecord, NotAhead
<1>3. BootInv'
    BY DEF IInv, ServerReboots, BootInv, PowerDown
<1>4. SaveInv'
    BY DEF IInv, ServerReboots, SaveInv, PowerDown
<1>5. UpdateInv'
    BY DEF IInv, ServerReboots, UpdateInv, PowerDown
<1>6. RollbackInv'
    BY DEF IInv, ServerReboots, RollbackInv, PowerDown
<1> QED BY <1>1, <1>2, <1>3, <1>4, <1>5, <1>6 DEF IInv

LEMMA AbortEraseStep ==
  ASSUME IInv, AbortErase
  PROVE  IInv'
<1>1. TypeOK'
    BY SlotFacts, SectorFacts, RecordFacts, AbortedFacts DEF IInv, AbortErase,
     TypeOK, UpdateInv, Save, Label, Prepared, NotAhead, Replaced
<1>2. RecordInv'
    BY DEF IInv, AbortErase, RecordInv, UpdateInv, GoodRecord, NotAhead
<1>3. BootInv'
    BY DEF IInv, AbortErase, BootInv, Save
<1>4. SaveInv'
  <2>1. /\ Transfer /\ Prepared /\ g.active = run /\ run \in Slot
        /\ g \in GuardRecord /\ NotAhead(g, body[run]) /\ body[run] \in Images
    BY DEF IInv, UpdateInv, AbortErase, Transfer, Prepared, Whole, NotAhead, Replaced
  <2>2. CASE pc' # "saveErase"
    BY <2>2, Zenon DEF AbortErase, Save, SaveInv
  <2>3. CASE pc' = "saveErase"
    <3>1. g.pending = Other(run) /\ g.pending # NoSlot /\ g.backup /\ g.previous = run
          /\ g.previous # NoSlot
      BY <2>1, SlotFacts DEF Prepared, NotAhead, Replaced
    <3>2. first' = [first EXCEPT ![Other(run)] = Erased] /\ UNCHANGED <<body, run, backup, overwritten>>
      BY <3>1 DEF AbortErase
    <3>3. first \in [Slot -> Sector] /\ first'[run] = first[run]
      BY <2>1, <3>2, SlotFacts DEF IInv, TypeOK
    <3>4. g' = Aborted /\ then' = "off" /\ first'[run].mark = "valid"
      BY <2>3, <3>1 DEF AbortErase, Save
    <3>5. Valid(run)' /\ Whole(run)' /\ RomSlot' = run
      BY <2>1, <3>2, <3>3, <3>4, SlotFacts, SectorFacts DEF Valid, Whole, RomSlot, Transfer, IInv, TypeOK
    <3>6. Boots'
      BY <2>1, <3>2, <3>5, SlotFacts DEF Boots, Whole
    <3>7. GoodRecord(g)'
      BY <2>1, <3>2, <3>4, <3>5, AbortedFacts DEF GoodRecord, Build, NotAhead
    <3> QED
      BY <2>1, <3>2, <3>4, <3>5, <3>6, <3>7 DEF SaveInv
  <2> QED
    BY <2>2, <2>3
<1>5. UpdateInv'
    BY SlotFacts DEF IInv, AbortErase, TypeOK, UpdateInv, Save, Whole, Build,
     Prepared, Transfer, NotAhead, Replaced
<1>6. RollbackInv'
    BY DEF IInv, AbortErase, RollbackInv, Save
<1> QED BY <1>1, <1>2, <1>3, <1>4, <1>5, <1>6 DEF IInv

LEMMA AbortRestoreStep ==
  ASSUME IInv, AbortRestore
  PROVE  IInv'
<1>1. TypeOK'
    BY SectorFacts DEF IInv, AbortRestore, TypeOK, UpdateInv, ram, Label,
     Prepared, NotAhead, Replaced
<1>2. RecordInv'
    BY DEF IInv, AbortRestore, RecordInv, UpdateInv, GoodRecord, NotAhead
<1>3. BootInv'
    BY DEF IInv, AbortRestore, BootInv
<1>4. SaveInv'
    BY DEF IInv, AbortRestore, SaveInv
<1>5. UpdateInv'
    BY DEF IInv, AbortRestore, UpdateInv, ram, Build, Prepared, NotAhead, Replaced
<1>6. RollbackInv'
    BY DEF IInv, AbortRestore, RollbackInv
<1> QED BY <1>1, <1>2, <1>3, <1>4, <1>5, <1>6 DEF IInv

LEMMA AbortPageStep ==
  ASSUME IInv, AbortPage
  PROVE  IInv'
<1>1. TypeOK'
    BY SectorFacts DEF IInv, AbortPage, TypeOK, UpdateInv, ram, Label,
     Prepared, NotAhead, Replaced
<1>2. RecordInv'
    BY DEF IInv, AbortPage, RecordInv, UpdateInv, GoodRecord, NotAhead
<1>3. BootInv'
    BY DEF IInv, AbortPage, BootInv
<1>4. SaveInv'
    BY DEF IInv, AbortPage, SaveInv
<1>5. UpdateInv'
    BY SlotFacts DEF IInv, AbortPage, UpdateInv, ram, Build, Prepared, NotAhead, Replaced
<1>6. RollbackInv'
    BY DEF IInv, AbortPage, RollbackInv
<1> QED BY <1>1, <1>2, <1>3, <1>4, <1>5, <1>6 DEF IInv

LEMMA AbortRestStep ==
  ASSUME IInv, AbortRest
  PROVE  IInv'
<1>1. TypeOK'
    BY AbortedFacts DEF IInv, AbortRest, TypeOK, UpdateInv, Save, Label,
     Prepared, NotAhead, Replaced
<1>2. RecordInv'
    BY DEF IInv, AbortRest, RecordInv, UpdateInv, GoodRecord, NotAhead
<1>3. BootInv'
    BY DEF IInv, AbortRest, BootInv, Save
<1>4. SaveInv'
  <2>1. /\ Prepared /\ g.active = run /\ run \in Slot /\ first[Other(run)] = Erased
        /\ g \in GuardRecord /\ NotAhead(g, body[run]) /\ body[run] \in Images
        /\ g.previous = run /\ backup = [mark |-> "valid", code |-> body[run]]
    BY DEF IInv, UpdateInv, AbortRest, Prepared, NotAhead, Replaced
  <2>2. /\ first' = [first EXCEPT ![run] = backup] /\ first \in [Slot -> Sector]
        /\ g' = Aborted /\ then' = "off" /\ UNCHANGED <<body, run, backup, overwritten>>
    BY <2>1 DEF AbortRest, Save, IInv, TypeOK
  <2>3. first'[run] = backup /\ first'[Other(run)] = Erased
    BY <2>1, <2>2, SlotFacts
  <2>4. Valid(run)' /\ Whole(run)' /\ RomSlot' = run
    BY <2>1, <2>2, <2>3, SlotFacts, SectorFacts DEF Valid, Whole, RomSlot
  <2>5. Boots'
    BY <2>1, <2>2, <2>4, SlotFacts DEF Boots, Whole
  <2>6. GoodRecord(g)'
    BY <2>1, <2>2, <2>4, AbortedFacts DEF GoodRecord, Build, NotAhead
  <2> QED
    BY <2>1, <2>2, <2>4, <2>5, <2>6 DEF SaveInv
<1>5. UpdateInv'
    BY DEF IInv, AbortRest, UpdateInv, Save
<1>6. RollbackInv'
    BY DEF IInv, AbortRest, RollbackInv, Save
<1> QED BY <1>1, <1>2, <1>3, <1>4, <1>5, <1>6 DEF IInv

LEMMA OnStartStep ==
  ASSUME IInv, OnStart
  PROVE  IInv'
<1>1. TypeOK'
    BY SlotFacts, ActiveFacts DEF IInv, OnStart, TypeOK, BootInv, Label,
     Phase, RomSlot, RunsRom, RunsAlone
<1>2. RecordInv'
    BY SlotFacts, SectorFacts DEF IInv, OnStart, RecordInv, BootInv, RomSlot,
     Whole, Boots, RunsRom, RunsAlone, GoodRecord, Started, NotAhead, Settled
<1>3. BootInv'
    BY DEF IInv, OnStart, BootInv
<1>4. SaveInv'
    BY DEF IInv, OnStart, SaveInv
<1>5. UpdateInv'
    BY SlotFacts, ActiveFacts DEF IInv, OnStart, BootInv, UpdateInv, Valid,
     RomSlot, Whole, Build, RunsRom, RunsAlone, Started, NotAhead, Settled
<1>6. RollbackInv'
    BY DEF IInv, OnStart, RollbackInv
<1> QED BY <1>1, <1>2, <1>3, <1>4, <1>5, <1>6 DEF IInv

LEMMA ServerBeginsStep ==
  ASSUME NEW image \in Images, IInv, ServerBegins(image)
  PROVE  IInv'
<1>1. TypeOK'
    BY SlotFacts, SectorFacts DEF IInv, ServerBegins, TypeOK, UpdateInv,
     Phase, Transfer
<1>2. RecordInv'
    BY SectorFacts DEF IInv, ServerBegins, RecordInv, UpdateInv, GoodRecord,
     Prepared, Transfer, NotAhead, Replaced
<1>3. BootInv'
    BY DEF IInv, ServerBegins, BootInv
<1>4. SaveInv'
    BY DEF IInv, ServerBegins, SaveInv
<1>5. UpdateInv'
    BY SlotFacts DEF IInv, ServerBegins, TypeOK, UpdateInv, Valid, Whole,
     Build, Prepared, Transfer, NotAhead, Replaced
<1>6. RollbackInv'
    BY DEF IInv, ServerBegins, RollbackInv
<1> QED BY <1>1, <1>2, <1>3, <1>4, <1>5, <1>6 DEF IInv

LEMMA OnResultOkStep ==
  ASSUME IInv, OnResultOk
  PROVE  IInv'
<1>1. TypeOK'
  <2>1. g \in GuardRecord /\ g.state = "UPDATE_PREPARED" /\ g.previous \in Slot /\ g.pending \in Slot
    BY SlotFacts DEF IInv, BootInv, UpdateInv, OnResultOk, Transfer, Prepared, Started, NotAhead, Settled, Replaced
  <2>2. MarkedPending \in GuardRecord
    BY <2>1, MarkedPendingFacts
  <2> QED
    BY <2>2, Zenon DEF IInv, TypeOK, OnResultOk, Save, flash, Label
<1>2. RecordInv'
    BY DEF IInv, OnResultOk, RecordInv, flash, Valid, RomSlot, Whole, Boots,
     GoodRecord, NotAhead
<1>3. BootInv'
    BY DEF IInv, OnResultOk, BootInv, Save
<1>4. SaveInv'
    BY SlotFacts, SectorFacts, MarkedPendingFacts DEF IInv, OnResultOk,
     SaveInv, UpdateInv, Save, flash, Valid, Whole, Build, GoodRecord,
     Prepared, Transfer, NotAhead, Replaced
<1>5. UpdateInv'
    BY DEF IInv, OnResultOk, UpdateInv, Save
<1>6. RollbackInv'
    BY DEF IInv, OnResultOk, RollbackInv, Save
<1> QED BY <1>1, <1>2, <1>3, <1>4, <1>5, <1>6 DEF IInv

LEMMA OnResultErrorStep ==
  ASSUME IInv, OnResultError
  PROVE  IInv'
<1>1. TypeOK'
  <2>1. Transfer /\ Prepared
    BY DEF IInv, BootInv, UpdateInv, OnResultError, Started, Replaced
  <2>2. g' \in GuardRecord
    BY <2>1, ActiveInSlot, ActiveSetFacts, SlotFacts DEF OnResultError, Prepared, Transfer, NotAhead, Replaced
  <2> QED
    BY <2>2, Zenon DEF IInv, TypeOK, OnResultError, flash, Label
<1>2. RecordInv'
    BY DEF IInv, OnResultError, RecordInv, BootInv, UpdateInv, flash,
     GoodRecord, Started, Prepared, NotAhead, Settled, Replaced
<1>3. BootInv'
    BY DEF IInv, OnResultError, BootInv
<1>4. SaveInv'
    BY DEF IInv, OnResultError, SaveInv
<1>5. UpdateInv'
  <2>1. Transfer /\ Prepared /\ g.state = "UPDATE_PREPARED" /\ meta = g
    BY DEF IInv, BootInv, UpdateInv, OnResultError, Started, Prepared, NotAhead, Settled, Replaced
  <2>2. g' = [g EXCEPT !.active = run] /\ run \in Slot /\ g \in GuardRecord
    BY <2>1, SlotFacts DEF OnResultError, Prepared, Transfer, NotAhead, Replaced
  <2>3. /\ g' \in GuardRecord /\ g'.state = g.state /\ g'.active = run
        /\ g'.previous = g.previous /\ g'.pending = g.pending
        /\ g'.backup = g.backup /\ g'.confirmed = g.confirmed
    BY <2>2, ActiveSetFacts
  <2>4. Transfer'
    BY <2>1 DEF OnResultError, Transfer, flash, Whole, Valid
  <2>5. Prepared'
    BY <2>1, <2>3 DEF OnResultError, Prepared, flash, Build, NotAhead, Replaced
  <2>6. meta' # NoRecord
    BY <2>1, <2>2, RecordAssumption DEF OnResultError, flash
  <2> QED
    BY <2>1, <2>3, <2>4, <2>5, <2>6 DEF UpdateInv, OnResultError, flash
<1>6. RollbackInv'
    BY DEF IInv, OnResultError, RollbackInv
<1> QED BY <1>1, <1>2, <1>3, <1>4, <1>5, <1>6 DEF IInv

LEMMA GuardPollStep ==
  ASSUME IInv, GuardPoll
  PROVE  IInv'
<1>1. TypeOK'
  <2>1. run \in Slot /\ body[run] \in Images /\ g \in GuardRecord
    BY DEF IInv, BootInv, UpdateInv, GuardPoll, Started, Transfer, RunsAlone, RunsRom, Whole, Prepared, NotAhead, Settled, Replaced
  <2>2. Confirmed(g) \in GuardRecord
    BY <2>1, ConfirmedFacts
  <2> QED
    BY <2>2, Zenon DEF IInv, TypeOK, GuardPoll, Save, flash, Label
<1>2. RecordInv'
    BY DEF IInv, GuardPoll, RecordInv, flash, Valid, RomSlot, Whole, Boots,
     GoodRecord, NotAhead
<1>3. BootInv'
    BY DEF IInv, GuardPoll, BootInv, Save
<1>4. SaveInv'
  <2>1. /\ g \in GuardRecord /\ run \in Slot /\ body[run] \in Images /\ ~ota /\ ~trial'
        /\ g' = Confirmed(g) /\ then' = "main"
        /\ UNCHANGED <<first, body, backup, run, ota, stack>>
    BY DEF IInv, BootInv, UpdateInv, GuardPoll, Save, flash, Started, Settled, Transfer,
       RunsAlone, RunsRom, Whole, Prepared, Replaced
  <2>2. /\ Confirmed(g) \in GuardRecord /\ Confirmed(g).state = "CONFIRMED"
        /\ ~Confirmed(g).backup /\ Build \in Nat
        /\ g.confirmed <= Build => Confirmed(g).confirmed = Build
    BY <2>1, ConfirmedFacts
  <2>3. CASE stack = "idle"
    <3>1. RunsAlone /\ NotAhead(g, body[run]) /\ overwritten' = overwritten
      BY <2>3 DEF IInv, TypeOK, BootInv, GuardPoll, Started, Settled
    <3>2. RunsAlone' /\ Boots' = Boots /\ RomSlot' = run
      BY <2>1, <3>1 DEF RunsAlone, RunsRom, RomSlot, Whole, Valid, Boots
    <3>3. NotAhead(g, body[run])'
      BY <2>1, <2>2, <3>1 DEF NotAhead, Build
    <3>4. GoodRecord(g)' /\ Started'
      BY <2>1, <2>2, <2>3, <3>2, <3>3 DEF GoodRecord, Started, Settled
    <3> QED
      BY <2>1, <2>2, <2>3, <3>2, <3>4 DEF SaveInv
  <2>4. CASE stack # "idle"
    <3>1. Transfer /\ overwritten'
      BY <2>4 DEF IInv, UpdateInv, GuardPoll
    <3>2. Transfer'
      BY <2>1, <3>1 DEF Transfer, Whole, Valid
    <3>3. GoodRecord(g)' /\ Replaced'
      BY <2>1, <2>2, <3>1 DEF GoodRecord, Replaced, NotAhead
    <3> QED
      BY <2>1, <2>4, <3>2, <3>3 DEF SaveInv
  <2> QED
    BY <2>3, <2>4
<1>5. UpdateInv'
    BY DEF IInv, GuardPoll, UpdateInv, Save
<1>6. RollbackInv'
    BY DEF IInv, GuardPoll, RollbackInv, Save
<1> QED BY <1>1, <1>2, <1>3, <1>4, <1>5, <1>6 DEF IInv

LEMMA HangStep ==
  ASSUME IInv, Hang
  PROVE  IInv'
<1>1. TypeOK'
  BY Zenon DEF IInv, TypeOK, Hang, PowerDown, flash, Label, Phase
<1>2. RecordInv'
    BY DEF IInv, Hang, RecordInv, flash, Valid, RomSlot, Whole, Boots,
     GoodRecord, NotAhead
<1>3. BootInv'
    BY DEF IInv, Hang, BootInv, PowerDown
<1>4. SaveInv'
    BY DEF IInv, Hang, SaveInv, PowerDown
<1>5. UpdateInv'
    BY DEF IInv, Hang, UpdateInv, PowerDown
<1>6. RollbackInv'
    BY DEF IInv, Hang, RollbackInv, PowerDown
<1> QED BY <1>1, <1>2, <1>3, <1>4, <1>5, <1>6 DEF IInv

LEMMA PowerLossStep ==
  ASSUME IInv, PowerLoss
  PROVE  IInv'
<1>1. TypeOK'
  BY Zenon DEF IInv, TypeOK, PowerLoss, PowerDown, flash, Label, Phase
<1>2. RecordInv'
    BY DEF IInv, PowerLoss, RecordInv, flash, Valid, RomSlot, Whole, Boots,
     GoodRecord, NotAhead
<1>3. BootInv'
    BY DEF IInv, PowerLoss, BootInv, PowerDown
<1>4. SaveInv'
    BY DEF IInv, PowerLoss, SaveInv, PowerDown
<1>5. UpdateInv'
    BY DEF IInv, PowerLoss, UpdateInv, PowerDown
<1>6. RollbackInv'
    BY DEF IInv, PowerLoss, RollbackInv, PowerDown
<1> QED BY <1>1, <1>2, <1>3, <1>4, <1>5, <1>6 DEF IInv

-----------------------------------------------------------------------------
(* The theorems *)

LEMMA NextStep ==
  ASSUME IInv, [Next]_vars
  PROVE  IInv'
<1>1. CASE Boot
  BY <1>1, PowerOnStep, BootCheckStep, SaveEraseStep, SaveWriteStep, InitHeadStep,
     InitBodyStep DEF Boot
<1>2. CASE Rollback
  BY <1>2, RollbackEraseStep, RollbackPageStep, RollbackRestStep, RollbackClearStep
  DEF Rollback
<1>3. CASE Prepare
  BY <1>3, BackupEraseStep, BackupPageStep, BackupRestStep DEF Prepare
<1>4. CASE Server
  BY <1>4, ServerEndsStep, ServerMarksNewStep, ServerClearsOldStep, ServerRebootsStep
  DEF Server
<1>5. CASE Abort
  BY <1>5, AbortEraseStep, AbortRestoreStep, AbortPageStep, AbortRestStep DEF Abort
<1>6. CASE OnStart \/ \E image \in Images : ServerBegins(image)
  BY <1>6, OnStartStep, ServerBeginsStep
<1>7. CASE OnResultOk \/ OnResultError
  BY <1>7, OnResultOkStep, OnResultErrorStep
<1>8. CASE GuardPoll \/ Hang \/ PowerLoss
  BY <1>8, GuardPollStep, HangStep, PowerLossStep
<1>9. CASE UNCHANGED vars
  <2>1. /\ TypeOK' /\ RunsRom' = RunsRom /\ RunsAlone' = RunsAlone /\ Boots' = Boots
        /\ Settled' = Settled /\ Started' = Started
    BY <1>9
    DEF vars, TypeOK, IInv, RunsRom, RunsAlone, RomSlot, Whole, Valid, Boots, Settled,
        Started, NotAhead
  <2>2. Prepared' = Prepared /\ Replaced' = Replaced /\ Transfer' = Transfer
    BY <1>9 DEF vars, Prepared, Replaced, Transfer, NotAhead, Whole, Valid
  <2>3. RecordInv' /\ GoodRecord(g)' = GoodRecord(g)
    BY <1>9, <2>1 DEF vars, IInv, RecordInv, GoodRecord, NotAhead, RomSlot, Whole, Valid
  <2>4. BootInv'
    BY <1>9, <2>1 DEF vars, IInv, BootInv
  <2>5. SaveInv'
    BY <1>9, <2>1, <2>2, <2>3 DEF vars, IInv, SaveInv, Whole
  <2>6. UpdateInv'
    BY <1>9, <2>1, <2>2 DEF vars, IInv, UpdateInv, Whole
  <2>7. RollbackInv'
    BY <1>9 DEF vars, IInv, RollbackInv, RomSlot, Whole, Valid, NotAhead
  <2> QED
    BY <2>1, <2>3, <2>4, <2>5, <2>6, <2>7 DEF IInv
<1> QED
  BY <1>1, <1>2, <1>3, <1>4, <1>5, <1>6, <1>7, <1>8, <1>9 DEF Next

\* The invariant holds of every behaviour, whatever the images, their versions,
\* the attempt limit and the moments at which hosts start updates.
THEOREM Invariance == Spec => []IInv
<1>1. Init => IInv
  BY InitIInv
<1>2. IInv /\ [Next]_vars => IInv'
  BY NextStep
<1> QED
  BY <1>1, <1>2, PTL DEF Spec

\* Every variable keeps its type.
THEOREM TypeCorrect == Spec => []TypeOK
<1>1. IInv => TypeOK
  BY DEF IInv
<1> QED
  BY <1>1, Invariance, PTL

\* The ROM finds one whole image whenever power may fail, but for the windows
\* RestoreWindow names, until the record of an installed image is overwritten.
THEOREM AlwaysBootable == Spec => []SomeSlotBoots
<1>1. IInv => SomeSlotBoots
  <2> SUFFICES ASSUME IInv, ~overwritten, pc \notin {"off", "dead"}, ~RestoreWindow
               PROVE  Boots
    BY DEF SomeSlotBoots
  <2>1. ASSUME RunsRom
        PROVE  Boots
    BY <2>1, SlotFacts DEF RunsRom, Boots
  <2>2. ASSUME Transfer
        PROVE  Boots
    BY <2>2, SlotFacts, SectorFacts
    DEF IInv, TypeOK, Phase, Transfer, Boots, RomSlot, Whole, Valid
  <2>3. CASE pc \in {"check", "initHead", "initBody", "main"}
    BY <2>1, <2>2, <2>3 DEF IInv, BootInv, UpdateInv, RunsAlone
  <2>4. CASE pc \in {"saveErase", "saveWrite"}
    BY <2>1, <2>2, <2>4 DEF IInv, SaveInv, TypeOK, RunsAlone
  <2>5. CASE pc \in {"bkErase", "bkPage", "bkRest", "abErase"}
    BY <2>1, <2>2, <2>5 DEF IInv, UpdateInv, RunsAlone
  <2>6. CASE pc \in {"rbErase", "rbPage", "rbRest", "rbClear"}
    BY <2>6, SlotFacts
    DEF IInv, RollbackInv, RestoreWindow, Boots, RomSlot, Whole, Valid, Erased
  <2> QED
    BY <2>3, <2>4, <2>5, <2>6 DEF IInv, TypeOK, Label, RestoreWindow
<1> QED
  BY <1>1, Invariance, PTL

\* An image older than the newest confirmed one reaches the main loop only if
\* the poll has overwritten the record of an image installed during a trial.
THEOREM NoDowngrade == Spec => []AntiRollback
<1>1. IInv => AntiRollback
  <2> SUFFICES ASSUME IInv, pc = "main", ~overwritten
               PROVE  ~(Build < g.confirmed)
    BY DEF AntiRollback
  <2>1. g \in GuardRecord /\ body[run] \in Images /\ g.confirmed <= Build
    BY DEF IInv, BootInv, UpdateInv, RunsAlone, RunsRom, Transfer, Whole, Started, Settled,
       Prepared, Replaced, NotAhead, Build
  <2>2. g.confirmed \in Nat /\ Build \in Nat
    BY <2>1, RecordFacts, VersionAssumption DEF Build
  <2> QED
    BY <2>1, <2>2
<1> QED
  BY <1>1, Invariance, PTL

\* A backup a record promises is the first sector of the image it belongs to.
THEOREM BackupUsable == Spec => []RollbackReady
<1>1. IInv => RollbackReady
  BY DEF IInv, RecordInv, GoodRecord, RollbackReady, NotAhead
<1> QED
  BY <1>1, Invariance, PTL

\* After a recorded rollback the ROM starts the restored slot, whole, until the
\* record of an installed image is overwritten.
THEOREM RollbackTookEffect == Spec => []RolledBackBoots
<1>1. IInv => RolledBackBoots
  BY DEF IInv, RecordInv, GoodRecord, RolledBackBoots, NotAhead
<1> QED
  BY <1>1, Invariance, PTL

\* The image being executed is never erased or rewritten, the restoration of an
\* aborted update excepted, until the record of an installed image is overwritten.
THEOREM RunningImageIntact == Spec => []RunningIntact
<1>1. IInv => RunningIntact
  BY SMTT(30) DEF IInv, BootInv, SaveInv, UpdateInv, RollbackInv, TypeOK, Label,
     RunningIntact, RunsRom, RunsAlone, Transfer, Prepared, NotAhead, Replaced
<1> QED
  BY <1>1, Invariance, PTL

\* The server never programs a slot that is not blank.
THEOREM TargetErased == Spec => []TargetBlank
<1>1. IInv => TargetBlank
  BY DEF IInv, BootInv, UpdateInv, TargetBlank, Transfer
<1> QED
  BY <1>1, Invariance, PTL

=============================================================================
