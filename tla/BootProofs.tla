----------------------------- MODULE BootProofs ----------------------------
(***************************************************************************)
(* Proofs about BootSystem for every generation width, every number of     *)
(* attempts, every set of images and any number of failures and resets.    *)
(*                                                                         *)
(* Two facts carry everything about the records: NextGeneration is newer   *)
(* than the generation it succeeds (also across the wrap), and while       *)
(* PersistControl runs, the record it is not writing holds the newest      *)
(* decodable state until the commit word is programmed (IInv).  So the     *)
(* selected state is replaced in one step (NextMoves), and what may        *)
(* replace it is what PolicyInv says of the call in progress; from there   *)
(* follow the anti-rollback minimum, the trial budget, the image that      *)
(* runs, the abstract policy and the fallback that survives power losses.  *)
(***************************************************************************)
EXTENDS BootSystem, TLAPS

----------------------------------------------------------------------------
(* Generations.                                                            *)

\* The successor of a valid generation is a valid generation.
LEMMA NextGenerationType ==
    ASSUME NEW g \in Generations
    PROVE  NextGeneration(g) \in Generations \ {0}
BY GenerationAssumption DEF Generations, NextGeneration

\* Serial-number comparison orders a generation and its successor, in both
\* directions, and never finds them in conflict.
LEMMA NextGenerationIsNewer ==
    ASSUME NEW g \in Generations, g # 0
    PROVE  /\ IsGenerationNewer(NextGeneration(g), g)
           /\ ~IsGenerationNewer(g, NextGeneration(g))
           /\ GenerationDelta(NextGeneration(g), g) # 0
           /\ GenerationDelta(g, NextGeneration(g)) # 0
           /\ 2 * GenerationDelta(NextGeneration(g), g) # GenerationModulus
           /\ 2 * GenerationDelta(g, NextGeneration(g)) # GenerationModulus
BY GenerationAssumption
   DEF Generations, NextGeneration, IsGenerationNewer, GenerationDelta

----------------------------------------------------------------------------
(* The policy functions produce control states of the next generation.     *)

Follows(new, old) == new.generation = NextGeneration(old.generation)

\* NewGeneration advances the generation and keeps the state well typed.
LEMMA NewGenerationType ==
    ASSUME NEW s \in Control
    PROVE  NewGeneration(s) \in Control /\ Follows(NewGeneration(s), s)
BY NextGenerationType DEF NewGeneration, Control, Follows

\* ClearPendingFields leaves a well-typed state of the same generation.
LEMMA ClearPendingType ==
    ASSUME NEW s \in Control
    PROVE  ClearPending(s) \in Control
           /\ ClearPending(s).generation = s.generation
BY DEF ClearPending, Control

\* Giving up a pending update is one generation forward.
LEMMA AbandonedType ==
    ASSUME NEW s \in Control
    PROVE  Abandoned(s) \in Control /\ Follows(Abandoned(s), s)
BY NewGenerationType, ClearPendingType DEF Abandoned, Follows

\* Taking an attempt is one generation forward and cannot go below zero.
LEMMA TriedType ==
    ASSUME NEW s \in Control, s.attempts_remaining > 0
    PROVE  Tried(s) \in Control /\ Follows(Tried(s), s)
<1> DEFINE taken == [s EXCEPT !.attempts_remaining = @ - 1]
<1>1. s.attempts_remaining - 1 \in Nat
  BY DEF Control
<1>2. taken \in Control /\ taken.generation = s.generation
  BY <1>1 DEF Control
<1>3. NewGeneration(taken) \in Control /\ Follows(NewGeneration(taken), taken)
  BY <1>2, NewGenerationType
<1> QED BY <1>2, <1>3 DEF Tried, Follows

\* Boot_Control_ScheduleUpdate is one generation forward.
LEMMA ScheduledType ==
    ASSUME NEW s \in Control, NEW slot \in Slots, NEW c \in Nat, NEW b \in Nat
    PROVE  /\ Scheduled(s, slot, c, b) \in Control
           /\ Follows(Scheduled(s, slot, c, b), s)
BY NextGenerationType, AttemptsAssumption
   DEF Scheduled, NewGeneration, Control, Follows

\* Boot_Control_ConfirmRunning is one generation forward.
LEMMA ConfirmedType ==
    ASSUME NEW s \in Control, NEW slot \in Slots, NEW c \in Nat, NEW b \in Nat
    PROVE  /\ Confirmed(s, slot, c, b) \in Control
           /\ Follows(Confirmed(s, slot, c, b), s)
BY NextGenerationType
   DEF Confirmed, NewGeneration, ClearPending, Control, Follows

\* Boot_Control_Initialize produces a state that IsStateValid accepts.
LEMMA InitializeType ==
    ASSUME NEW slot \in Slots, NEW c \in Nat, NEW b \in Nat
    PROVE  /\ Initialize(slot, c, b) \in Control
           /\ IsStateValid(Initialize(slot, c, b))
BY GenerationAssumption
   DEF Initialize, Control, IsStateValid, Generations, Slots

----------------------------------------------------------------------------
(* The records.                                                            *)

RecordContents == [Units -> Control \cup Blank]
Flash == [Records -> RecordContents]

\* Record r is the one Load selects: it decodes, and the other one either
\* does not or is exactly one generation older.
Newest(f, r) ==
    /\ Decodes(f[r])
    /\ Decodes(f[1 - r]) => Follows(Decoded(f[r]), Decoded(f[1 - r]))

\* What Boot_Control_Decode accepts is a valid state.
LEMMA DecodedType ==
    ASSUME NEW record, Decodes(record)
    PROVE  /\ Decoded(record) \in Control
           /\ IsStateValid(Decoded(record))
           /\ Decoded(record).generation \in Generations \ {0}
BY DEF Decodes, Decoded, IsStateValid, Control

\* A record written completely with one valid state decodes to it, and a
\* record with a blank flashword does not decode.
LEMMA CompleteDecodes ==
    ASSUME NEW record, NEW s \in Control, IsStateValid(s),
           \A u \in Units : record[u] = s
    PROVE  Decodes(record) /\ Decoded(record) = s
BY DEF Decodes, Decoded, Units, BodyUnits, CommitUnit

\* One erased, damaged or unreadable flashword is enough to refuse a record.
LEMMA BlankDoesNotDecode ==
    ASSUME NEW record, NEW u \in Units, record[u] \in Blank
    PROVE  ~Decodes(record)
<1> SUFFICES ASSUME Decodes(record) PROVE FALSE
  OBVIOUS
<1>1. record[u] = record[CommitUnit]
  BY DEF Decodes, Units, BodyUnits, CommitUnit
<1>2. record[u] \in Control
  BY <1>1 DEF Decodes
<1> QED BY <1>2, FlashwordAssumption

\* Boot_Control_Load finds the newest record.
LEMMA NewestIsSelected ==
    ASSUME NEW f, NEW r \in Records, Newest(f, r)
    PROVE  /\ SelectedRecord(f) = r
           /\ OtherRecord(f) = 1 - r
           /\ Loads(f)
           /\ Selected(f) = Decoded(f[r])
           /\ Selected(f) \in Control
<1>1. Decodes(f[r]) /\ 1 - r \in Records
  BY DEF Newest, Records
<1>2. CASE ~Decodes(f[1 - r])
  <2>1. SelectedRecord(f) = r
    BY <1>1, <1>2 DEF SelectedRecord, Records
  <2>2. Loads(f)
    BY <1>1, <1>2 DEF Loads, Conflict, Records
  <2> QED BY <1>1, <2>1, <2>2, DecodedType DEF Selected, OtherRecord
<1>3. CASE Decodes(f[1 - r])
  <2> DEFINE new == Decoded(f[r]).generation
             old == Decoded(f[1 - r]).generation
  <2>1. new = NextGeneration(old)
    BY <1>3 DEF Newest, Follows
  <2>2. old \in Generations /\ old # 0
    BY <1>3, DecodedType
  <2> HIDE DEF new, old
  <2>3. /\ IsGenerationNewer(new, old) /\ ~IsGenerationNewer(old, new)
        /\ GenerationDelta(new, old) # 0 /\ GenerationDelta(old, new) # 0
        /\ 2 * GenerationDelta(new, old) # GenerationModulus
        /\ 2 * GenerationDelta(old, new) # GenerationModulus
    BY <2>1, <2>2, NextGenerationIsNewer
  <2>4. SelectedRecord(f) = r
    BY <1>1, <1>3, <2>3 DEF SelectedRecord, Records, new, old
  <2>5. ~Conflict(f)
    <3>1. CASE r = 0
      BY <2>3, <3>1 DEF Conflict, new, old
    <3>2. CASE r = 1
      BY <2>3, <3>2 DEF Conflict, new, old
    <3> QED BY <3>1, <3>2 DEF Records
  <2>6. Loads(f)
    BY <1>1, <2>5 DEF Loads
  <2> QED BY <1>1, <2>4, <2>6, DecodedType DEF Selected, OtherRecord
<1> QED BY <1>2, <1>3

\* A failed or interrupted erase cannot produce a record that decodes,
\* unless it left all of it as it was.
LEMMA ErasedPartlyType ==
    ASSUME NEW record \in RecordContents, NEW partly \in ErasedPartly(record)
    PROVE  /\ partly \in RecordContents
           /\ Decodes(partly) =>
                 Decodes(record) /\ Decoded(partly) = Decoded(record)
<1>1. PICK hit \in SUBSET Units, v \in TornValues \cup {Erased} :
         partly = [u \in Units |-> IF u \in hit THEN v ELSE record[u]]
  BY DEF ErasedPartly
<1>2. v \in Blank
  BY TornAssumption DEF Blank
<1>3. partly \in RecordContents
  BY <1>1, <1>2 DEF RecordContents
<1>4. CASE hit = {}
  <2>1. \A u \in Units : partly[u] = record[u]
    BY <1>1, <1>4
  <2> QED BY <1>3, <2>1 DEF Decodes, Decoded, Units, BodyUnits, CommitUnit
<1>5. CASE hit # {}
  <2>1. PICK u \in Units : u \in hit
    BY <1>5
  <2>2. partly[u] \in Blank
    BY <1>1, <1>2, <2>1
  <2> QED BY <1>3, <2>2, BlankDoesNotDecode
<1> QED BY <1>4, <1>5

\* What Load selects is a valid control state.
LEMMA LoadsType ==
    ASSUME NEW f, Loads(f)
    PROVE  /\ SelectedRecord(f) \in Records /\ OtherRecord(f) \in Records
           /\ Selected(f) \in Control /\ IsStateValid(Selected(f))
<1>1. SelectedRecord(f) \in Records /\ Decodes(f[SelectedRecord(f)])
  BY DEF Loads, SelectedRecord, Records
<1>2. OtherRecord(f) \in Records
  BY <1>1 DEF OtherRecord, Records
<1> QED BY <1>1, <1>2, DecodedType DEF Selected

----------------------------------------------------------------------------
(* Types.                                                                  *)

Call == [at : PersistSteps, state : Control, target : Records,
         unit : Nat, result : Results]

\* The state a device ships with is valid.
LEMMA FactoryType ==
    /\ FactoryControl \in Control
    /\ IsStateValid(FactoryControl)
    /\ NoCall \in Call
<1>1. FactoryControl \in Control /\ IsStateValid(FactoryControl)
  BY FactoryAssumption, InitializeType DEF FactoryControl, Slots
<1>2. NoCall \in Call
  BY <1>1 DEF NoCall, Call, PersistSteps, Results, Records
<1> QED BY <1>1, <1>2

\* The count of hardware failures stays a natural number.
LEMMA FaultType ==
    ASSUME faults \in Nat, Fault
    PROVE  faults' \in Nat
BY DEF Fault

\* Writing a record or a flashword keeps the flash well formed.
LEMMA SetTargetType ==
    ASSUME flash \in Flash, persist \in Call,
           NEW record \in RecordContents, SetTarget(record)
    PROVE  flash' \in Flash
BY DEF SetTarget, Flash, Call

\* Writing one flashword keeps the flash well formed.
LEMMA SetUnitType ==
    ASSUME flash \in Flash, persist \in Call, NEW u,
           NEW value \in Control \cup Blank, SetUnit(u, value)
    PROVE  flash' \in Flash
<1> DEFINE record == [flash[persist.target] EXCEPT ![u] = value]
<1>1. persist.target \in Records
  BY DEF Call
<1>2. record \in RecordContents
  BY <1>1 DEF Flash, RecordContents
<1>3. flash' = [flash EXCEPT ![persist.target] = record]
  BY DEF SetUnit
<1> QED BY <1>1, <1>2, <1>3 DEF Flash

\* An interrupted flashword holds the intended state or nothing that decodes.
LEMMA ProgrammedPartlyType ==
    ASSUME NEW s \in Control, NEW value \in ProgrammedPartly(s)
    PROVE  value \in Control \cup Blank /\ (value \in Control => value = s)
BY TornAssumption, FlashwordAssumption DEF ProgrammedPartly, Blank

\* Advancing the call keeps it well typed.
LEMMA GoToType ==
    ASSUME persist \in Call, NEW step \in PersistSteps, GoTo(step)
    PROVE  persist' \in Call
BY DEF GoTo, Call

\* Leaving for Boot_Flash_Finish keeps the call well typed.
LEMMA FinishWithType ==
    ASSUME persist \in Call, NEW result \in Results, FinishWith(result)
    PROVE  persist' \in Call
BY DEF FinishWith, Call, PersistSteps

\* Starting Boot_Flash_PersistControl keeps the flash variables well typed.
LEMMA PersistControlType ==
    ASSUME FlashTypeOK, NEW s \in Control, NEW r \in Records,
           PersistControl(s, r)
    PROVE  FlashTypeOK'
BY DEF FlashTypeOK, PersistControl, PersistSteps, Results

\* One flash operation, successful or not.
LEMMA ProgramUnitType ==
    ASSUME FlashTypeOK, NEW u, NEW next, NEW error \in Results,
           next => persist' \in Call,
           ProgramUnit(u, next, error)
    PROVE  FlashTypeOK'
<1> USE DEF FlashTypeOK, Flash, RecordContents, Call
<1>1. persist.state \in Control
  OBVIOUS
<1>2. unlocked' \in BOOLEAN /\ powerLosses' \in Nat
  BY DEF ProgramUnit
<1>3. CASE SetUnit(u, persist.state) /\ next /\ UNCHANGED faults
  BY <1>1, <1>2, <1>3, SetUnitType
<1>4. CASE /\ Fault
           /\ \E value \in ProgrammedPartly(persist.state) : SetUnit(u, value)
           /\ next \/ FinishWith(error)
  <2>1. PICK value \in ProgrammedPartly(persist.state) : SetUnit(u, value)
    BY <1>4
  <2>2. flash' \in Flash
    BY <1>1, <2>1, ProgrammedPartlyType, SetUnitType
  <2>3. persist' \in Call
    BY <1>4, FinishWithType
  <2> QED BY <1>2, <1>4, <2>2, <2>3, FaultType
<1> QED BY <1>3, <1>4 DEF ProgramUnit

\* So does each of its flash operations, successful or not.
LEMMA PersistStepType ==
    ASSUME FlashTypeOK, PersistStep
    PROVE  FlashTypeOK'
<1>1. flash \in Flash /\ persist \in Call /\ faults \in Nat
  BY DEF FlashTypeOK, Flash, RecordContents, Call
<1>2. CASE Unlock
  <2>1. persist' \in Call
    BY <1>1, <1>2, GoToType, FinishWithType DEF Unlock, PersistSteps, Results
  <2>2. faults' \in Nat
    BY <1>1, <1>2, FaultType DEF Unlock
  <2> QED BY <1>2, <2>1, <2>2 DEF Unlock, FlashTypeOK, Call
<1>3. CASE EraseSector
  <2>1. persist' \in Call
    BY <1>1, <1>3, GoToType, FinishWithType
       DEF EraseSector, PersistSteps, Results
  <2>2. faults' \in Nat
    BY <1>1, <1>3, FaultType DEF EraseSector
  <2>3. flash' \in Flash
    <3>1. CASE SetTarget([u \in Units |-> Erased])
      BY <1>1, <3>1, SetTargetType DEF RecordContents, Blank
    <3>2. CASE \E record \in ErasedPartly(Target) : SetTarget(record)
      <4>1. Target \in RecordContents
        BY <1>1 DEF Target, Flash, Call
      <4> QED BY <1>1, <3>2, <4>1, ErasedPartlyType, SetTargetType
    <3> QED BY <1>3, <3>1, <3>2 DEF EraseSector
  <2> QED BY <1>3, <2>1, <2>2, <2>3
          DEF EraseSector, FlashTypeOK, Call, Flash, RecordContents
<1>4. CASE VerifyErasedRecord
  <2>1. persist' \in Call
    <3>1. CASE FinishWith("ERASE_VERIFY_FAILED")
      BY <1>1, <3>1, FinishWithType DEF Results
    <3>2. CASE persist' = [persist EXCEPT !.at = "body", !.unit = 0]
      BY <1>1, <3>2 DEF PersistSteps, Call
    <3> QED BY <1>4, <3>1, <3>2 DEF VerifyErasedRecord
  <2>2. faults' \in Nat
    BY <1>1, <1>4, FaultType DEF VerifyErasedRecord
  <2> QED BY <1>4, <2>1, <2>2 DEF VerifyErasedRecord, FlashTypeOK, Call
<1>5. CASE ProgramBody
  <2>1. NextBodyUnit => persist' \in Call
    <3>1. persist.unit + 1 \in Nat
      BY <1>1 DEF Call
    <3>2. {"body", "verify_body"} \subseteq PersistSteps
      BY DEF PersistSteps
    <3> QED BY <1>1, <3>1, <3>2 DEF Call, NextBodyUnit
  <2>2. "BODY_PROGRAM_FAILED" \in Results
    BY DEF Results
  <2> QED BY <1>5, <2>1, <2>2, ProgramUnitType DEF ProgramBody
<1>6. CASE VerifyBody
  <2>1. persist' \in Call
    BY <1>1, <1>6, GoToType, FinishWithType
       DEF VerifyBody, PersistSteps, Results
  <2>2. faults' \in Nat
    BY <1>1, <1>6, FaultType DEF VerifyBody
  <2> QED BY <1>6, <2>1, <2>2 DEF VerifyBody, FlashTypeOK, Call
<1>7. CASE ProgramCommit
  <2>1. GoTo("verify_final") => persist' \in Call
    BY <1>1, GoToType DEF PersistSteps
  <2>2. "COMMIT_PROGRAM_FAILED" \in Results
    BY DEF Results
  <2> QED BY <1>7, <2>1, <2>2, ProgramUnitType DEF ProgramCommit
<1>8. CASE VerifyFinal
  <2>1. persist' \in Call
    BY <1>1, <1>8, GoToType, FinishWithType
       DEF VerifyFinal, PersistSteps, Results
  <2>2. faults' \in Nat
    BY <1>1, <1>8, FaultType DEF VerifyFinal
  <2> QED BY <1>8, <2>1, <2>2 DEF VerifyFinal, FlashTypeOK, Call
<1>9. CASE Finish
  <2>1. persist' \in Call
    BY <1>1, <1>9, GoToType DEF Finish, PersistSteps, Results, Call
  <2>2. faults' \in Nat
    BY <1>1, <1>9, FaultType DEF Finish
  <2> QED BY <1>9, <2>1, <2>2 DEF Finish, FlashTypeOK, Call
<1> QED BY <1>2, <1>3, <1>4, <1>5, <1>6, <1>7, <1>8, <1>9 DEF PersistStep

\* So does losing power in the middle of one.
LEMMA InterruptedType ==
    ASSUME FlashTypeOK, Interrupted
    PROVE  flash' \in Flash /\ persist' \in Call /\ faults' \in Nat
<1>1. flash \in Flash /\ persist \in Call /\ persist.state \in Control
  BY DEF FlashTypeOK, Flash, RecordContents, Call
<1>2. Target \in RecordContents
  BY <1>1 DEF Target, Flash, Call
<1>3. flash' \in Flash
  <2>1. CASE UNCHANGED flash
    BY <1>1, <2>1
  <2>2. CASE \E record \in ErasedPartly(Target) : SetTarget(record)
    BY <1>1, <1>2, <2>2, ErasedPartlyType, SetTargetType
  <2>3. CASE \E value \in ProgrammedPartly(persist.state), u \in {persist.unit, CommitUnit} :
                SetUnit(u, value)
    BY <1>1, <2>3, ProgrammedPartlyType, SetUnitType
  <2> QED BY <2>1, <2>2, <2>3 DEF Interrupted
<1> QED BY <1>3, FactoryType DEF Interrupted, FlashTypeOK

\* A factory-programmed device is well typed.
LEMMA InitType == Init => TypeOK
<1> SUFFICES ASSUME Init PROVE TypeOK
  OBVIOUS
<1>1. FlashTypeOK
  BY FactoryType
     DEF Init, FlashInit, FlashTypeOK, Call, Records, Units, Blank
<1>2. images \in [Slots -> Image]
  BY FactoryAssumption DEF Init, Image, NoImage, Slots
<1> QED BY <1>1, <1>2 DEF Init, TypeOK

\* Every step of Boot_Target_Run preserves the types.
LEMMA BootStepType ==
    ASSUME TypeOK, BootStep
    PROVE  TypeOK'
<1> USE DEF TypeOK
<1>1. CASE BootStops
  BY <1>1, FaultsAssumption DEF BootStops, Fault, FlashTypeOK
<1>2. CASE BootSelect
  <2> DEFINE s == Selected(flash)
             boot == SelectBoot(s, Usable(s))
  <2>1. s \in Control /\ OtherRecord(flash) \in Records
    BY <1>2, LoadsType DEF BootSelect
  <2>2. boot.state \in Control /\ boot.decision \in Slots \cup {"RECOVERY"}
    <3>1. CASE CanTry(s, Usable(s))
      BY <2>1, <3>1, TriedType DEF SelectBoot, CanTry, Usable
    <3>2. CASE ~CanTry(s, Usable(s))
      BY <2>1, <3>2, AbandonedType DEF SelectBoot, Control
    <3> QED BY <3>1, <3>2
  <2>3. FlashTypeOK'
    <3>1. CASE UNCHANGED flashVars
      BY <3>1 DEF flashVars, FlashTypeOK
    <3>2. CASE PersistControl(boot.state, OtherRecord(flash))
      BY <2>1, <2>2, <3>2, PersistControlType
    <3> QED BY <1>2, <3>1, <3>2 DEF BootSelect
  <2>4. decision' = boot.decision /\ pc' \in {"start", "boot_persist"}
    BY <1>2 DEF BootSelect
  <2> QED BY <1>2, <2>2, <2>3, <2>4 DEF BootSelect
<1>3. CASE BootPersisted
  BY <1>3, FactoryType DEF BootPersisted, FlashTypeOK, Call
<1>4. CASE BootRecovery
  BY <1>4 DEF BootRecovery, flashVars, FlashTypeOK
<1>5. CASE BootJump
  <2>1. faults' \in Nat
    BY <1>5, FaultType DEF BootJump, FlashTypeOK
  <2>2. trials' \in Nat /\ running' \in Slots \cup {"NONE"}
    BY <1>5 DEF BootJump
  <2> QED BY <1>5, <2>1, <2>2 DEF BootJump, FlashTypeOK
<1> QED BY <1>1, <1>2, <1>3, <1>4, <1>5 DEF BootStep

\* Every step of the application preserves the types.
LEMMA AppStepType ==
    ASSUME TypeOK, running # "NONE", AppStep
    PROVE  TypeOK'
<1> USE DEF TypeOK
<1>1. running \in Slots /\ OtherSlot(running) \in Slots
  BY DEF OtherSlot, Slots
<1>2. CASE EraseInactiveSlot
  <2>1. sacrificed' \in BOOLEAN
    BY <1>2 DEF EraseInactiveSlot
  <2> QED BY <1>2, <2>1
          DEF EraseInactiveSlot, flashVars, FlashTypeOK, Image, NoImage
<1>3. CASE DownloadImage
  <2>1. images' \in [Slots -> Image]
    <3>1. PICK counter \in SecurityCounters, build \in BuildVersions :
             images' = [images EXCEPT ![OtherSlot(running)] =
                           [good |-> TRUE, security_counter |-> counter,
                            build_version |-> build]]
      BY <1>3 DEF DownloadImage
    <3>2. [good |-> TRUE, security_counter |-> counter,
           build_version |-> build] \in Image
      BY ImagesAssumption DEF Image
    <3> QED BY <3>1, <3>2
  <2> QED BY <1>3, <2>1 DEF DownloadImage, flashVars, FlashTypeOK
<1>4. CASE ScheduleUpdate
  <2> DEFINE image == images[OtherSlot(running)]
             new == Scheduled(Selected(flash), OtherSlot(running),
                              image.security_counter, image.build_version)
  <2>1. image.security_counter \in Nat /\ image.build_version \in Nat
    BY <1>1 DEF Image
  <2>2. Selected(flash) \in Control /\ OtherRecord(flash) \in Records
    BY <1>4, LoadsType DEF ScheduleUpdate, AppLoads
  <2>3. new \in Control
    BY <1>1, <2>1, <2>2, ScheduledType
  <2>4. PersistControl(new, OtherRecord(flash))
    BY <1>4 DEF ScheduleUpdate
  <2>5. FlashTypeOK'
    BY <2>2, <2>3, <2>4, PersistControlType
  <2> QED BY <1>4, <2>5 DEF ScheduleUpdate
<1>5. CASE ConfirmRunning
  <2> DEFINE image == images[running]
             new == Confirmed(Selected(flash), running,
                              image.security_counter, image.build_version)
  <2>1. image.security_counter \in Nat /\ image.build_version \in Nat
    BY <1>1 DEF Image
  <2>2. Selected(flash) \in Control /\ OtherRecord(flash) \in Records
    BY <1>5, LoadsType DEF ConfirmRunning, AppLoads
  <2>3. new \in Control
    BY <1>1, <2>1, <2>2, ConfirmedType
  <2>4. PersistControl(new, OtherRecord(flash))
    BY <1>5 DEF ConfirmRunning
  <2>5. FlashTypeOK'
    BY <2>2, <2>3, <2>4, PersistControlType
  <2> QED BY <1>5, <2>5 DEF ConfirmRunning
<1>6. CASE AppPersisted
  BY <1>6, FactoryType DEF AppPersisted, FlashTypeOK, Call
<1> QED BY <1>2, <1>3, <1>4, <1>5, <1>6 DEF AppStep

\* Who executes, whether a call of PersistControl is in progress, and
\* whether an application is running go together.
PcOK ==
    /\ persist.at = "idle" <=> pc \notin {"boot_persist", "app_persist"}
    /\ running = "NONE" <=> pc \notin {"run", "app_persist"}

\* Every step of the device preserves the types.
LEMMA NextType ==
    ASSUME TypeOK, PcOK, Next
    PROVE  TypeOK'
<1>1. CASE BootStep
  BY <1>1, BootStepType
<1>2. CASE AppStep
  BY <1>2, AppStepType
     DEF PcOK, AppStep, EraseInactiveSlot, DownloadImage, ScheduleUpdate,
         ConfirmRunning, AppLoads, AppPersisted
<1>3. CASE FlashStep
  <2>1. FlashTypeOK'
    BY <1>3, PersistStepType DEF FlashStep, TypeOK
  <2>2. trials' \in Nat
    BY <1>3 DEF FlashStep, CountsAgain, TypeOK
  <2>3. sacrificed' \in BOOLEAN
    BY <1>3 DEF FlashStep, CountsAgain
  <2> QED BY <1>3, <2>1, <2>2, <2>3 DEF FlashStep, TypeOK
<1>4. CASE Reset
  BY <1>4 DEF Reset, ResetState, TypeOK, FlashTypeOK
<1>5. CASE PowerLoss
  <2>1. flash' \in Flash /\ persist' \in Call /\ faults' \in Nat
    BY <1>5, InterruptedType DEF PowerLoss, TypeOK
  <2>2. trials' \in Nat
    BY <1>5 DEF PowerLoss, CountsAgain, TypeOK
  <2>4. sacrificed' \in BOOLEAN
    BY <1>5 DEF PowerLoss, CountsAgain
  <2>3. unlocked' \in BOOLEAN /\ powerLosses' \in Nat
    <3>1. unlocked' \in BOOLEAN
      BY <1>5 DEF PowerLoss, Interrupted
    <3>2. powerLosses' \in Nat
      BY <1>5 DEF PowerLoss, TypeOK, FlashTypeOK
    <3> QED BY <3>1, <3>2
  <2> QED BY <1>5, <2>1, <2>2, <2>3, <2>4
          DEF PowerLoss, ResetState, TypeOK, FlashTypeOK, Flash,
              RecordContents, Call
<1>6. CASE ImageDecays
  <2>1. images' \in [Slots -> Image]
    BY <1>6 DEF ImageDecays, TypeOK, Image
  <2>2. faults' \in Nat
    BY <1>6, FaultType DEF ImageDecays, TypeOK, FlashTypeOK
  <2> QED BY <1>6, <2>1, <2>2 DEF ImageDecays, TypeOK, FlashTypeOK
<1> QED BY <1>1, <1>2, <1>3, <1>4, <1>5, <1>6 DEF Next

----------------------------------------------------------------------------
(* The inductive invariant of the flash records.                           *)

Written == \A u \in Units : flash[persist.target][u] = persist.state

\* While PersistControl runs, the record it does not touch decodes and is
\* one generation behind the state being written.  It also stays the newest
\* one until every flashword of the new record is in place.
FlashInv ==
    IF persist.at = "idle"
    THEN \E r \in Records : Newest(flash, r)
    ELSE /\ IsStateValid(persist.state)
         /\ Decodes(flash[1 - persist.target])
         /\ Follows(persist.state, Decoded(flash[1 - persist.target]))
         /\ \/ Newest(flash, 1 - persist.target)
            \/ persist.at \in {"verify_final", "lock", "done"} /\ Written
         /\ persist.at \in {"body", "verify_body", "commit"} =>
               flash[persist.target][CommitUnit] = Erased
         /\ persist.at = "body" => persist.unit \in BodyUnits
         /\ persist.at \in {"lock", "done"} /\ persist.result = "OK" => Written

\* The flash controller is locked outside PersistControl, except after a
\* call that reported LOCK_FAILED.
LockInv ==
    /\ pc \in {"reset", "start", "recovery"} => ~unlocked
    /\ persist.at = "done" /\ persist.result = "OK" => ~unlocked

IInv == TypeOK /\ PcOK /\ FlashInv /\ LockInv

\* The inductive invariant holds of a factory-programmed device.
LEMMA InitInv == Init => IInv
<1> SUFFICES ASSUME Init PROVE IInv
  OBVIOUS
<1>1. TypeOK
  BY InitType
<1>2. PcOK
  BY DEF Init, FlashInit, NoCall, PcOK
<1>3. FlashInv
  <2>1. persist.at = "idle"
    BY DEF Init, FlashInit, NoCall
  <2>2. Decodes(flash[0])
    BY FactoryType, CompleteDecodes
       DEF Init, FlashInit, Records, Units
  <2>3. flash[1][CommitUnit] \in Blank
    BY DEF Init, FlashInit, Records, Units, CommitUnit, Blank
  <2>4. ~Decodes(flash[1])
    BY <2>3, BlankDoesNotDecode DEF Units, CommitUnit
  <2> QED BY <2>1, <2>2, <2>4 DEF FlashInv, Newest, Records
<1>4. LockInv
  BY DEF Init, FlashInit, NoCall, LockInv
<1> QED BY <1>1, <1>2, <1>3, <1>4 DEF IInv

----------------------------------------------------------------------------
(* Steps that write flash.                                                 *)

\* The two records, as seen by a call in progress.
LEMMA OtherIsARecord ==
    ASSUME persist \in Call
    PROVE  /\ persist.target \in Records /\ 1 - persist.target \in Records
           /\ 1 - (1 - persist.target) = persist.target
           /\ 1 - persist.target # persist.target
BY DEF Call, Records

\* Writing the target cannot make the other record old, unless what it
\* wrote decodes to something new.
LEMMA NewestSurvives ==
    ASSUME flash \in Flash, persist \in Call,
           NEW record \in RecordContents, SetTarget(record),
           Newest(flash, 1 - persist.target),
           Decodes(record) => /\ Decodes(Target)
                              /\ Decoded(record) = Decoded(Target)
    PROVE  Newest(flash', 1 - persist.target)
<1>1. flash'[persist.target] = record
      /\ flash'[1 - persist.target] = flash[1 - persist.target]
  BY OtherIsARecord DEF SetTarget, Flash
<1> QED BY <1>1, OtherIsARecord DEF Newest, Target

\* SetUnit is SetTarget of the record with one flashword replaced.
LEMMA SetUnitIsSetTarget ==
    ASSUME flash \in Flash, persist \in Call, NEW u \in Units,
           NEW value \in Control \cup Blank, SetUnit(u, value)
    PROVE  /\ [Target EXCEPT ![u] = value] \in RecordContents
           /\ SetTarget([Target EXCEPT ![u] = value])
           /\ flash'[persist.target] = [Target EXCEPT ![u] = value]
           /\ flash'[1 - persist.target] = flash[1 - persist.target]
<1>1. Target \in RecordContents
  BY OtherIsARecord DEF Target, Flash
<1>2. [Target EXCEPT ![u] = value] \in RecordContents
  BY <1>1 DEF RecordContents
<1>3. SetTarget([Target EXCEPT ![u] = value])
  BY DEF SetTarget, SetUnit, Target
<1> QED BY <1>2, <1>3, OtherIsARecord DEF SetTarget, Flash

\* Programming a body word, or damaging it, leaves the other record newest:
\* the commit word of the target is still erased.
LEMMA BodyWordKeepsNewest ==
    ASSUME flash \in Flash, persist \in Call, NEW u \in BodyUnits,
           NEW value \in Control \cup Blank, SetUnit(u, value),
           Target[CommitUnit] = Erased,
           Newest(flash, 1 - persist.target)
    PROVE  /\ flash'[persist.target][CommitUnit] = Erased
           /\ flash'[1 - persist.target] = flash[1 - persist.target]
           /\ Newest(flash', 1 - persist.target)
<1> DEFINE record == [Target EXCEPT ![u] = value]
<1>1. u \in Units /\ u # CommitUnit
  BY DEF BodyUnits, Units, CommitUnit
<1>2. /\ record \in RecordContents /\ SetTarget(record)
      /\ flash'[persist.target] = record
      /\ flash'[1 - persist.target] = flash[1 - persist.target]
  BY <1>1, SetUnitIsSetTarget
<1>3. record[CommitUnit] = Erased
  <2>1. Target \in RecordContents /\ CommitUnit \in Units
    BY OtherIsARecord DEF Target, Flash, CommitUnit, Units
  <2> QED BY <1>1, <2>1 DEF RecordContents
<1>4. ~Decodes(record)
  <2>1. record[CommitUnit] \in Blank /\ CommitUnit \in Units
    BY <1>3 DEF Blank, Units, CommitUnit
  <2> HIDE DEF record
  <2> QED BY <2>1, BlankDoesNotDecode
<1>5. Newest(flash', 1 - persist.target)
  BY <1>2, <1>4, NewestSurvives
<1> QED BY <1>2, <1>3, <1>5

\* Programming the commit word either leaves the other record newest or
\* completes the new record.
LEMMA CommitWordDecides ==
    ASSUME flash \in Flash, persist \in Call,
           NEW value \in ProgrammedPartly(persist.state),
           SetUnit(CommitUnit, value),
           Newest(flash, 1 - persist.target)
    PROVE  /\ flash'[1 - persist.target] = flash[1 - persist.target]
           /\ \/ Newest(flash', 1 - persist.target)
              \/ \A u \in Units : flash'[persist.target][u] = persist.state
<1> DEFINE record == [Target EXCEPT ![CommitUnit] = value]
<1>1. persist.state \in Control /\ CommitUnit \in Units
  BY DEF Call, CommitUnit, Units
<1>2. value \in Control \cup Blank /\ (value \in Control => value = persist.state)
  BY <1>1, ProgrammedPartlyType
<1>3. /\ record \in RecordContents /\ SetTarget(record)
      /\ flash'[persist.target] = record
      /\ flash'[1 - persist.target] = flash[1 - persist.target]
  BY <1>1, <1>2, SetUnitIsSetTarget
<1>4. record[CommitUnit] = value
  BY <1>1, OtherIsARecord DEF Target, Flash, RecordContents
<1>5. CASE Decodes(record)
  <2>1. value = persist.state
    BY <1>2, <1>4, <1>5 DEF Decodes
  <2>2. \A u \in Units : record[u] = persist.state
    BY <1>4, <1>5, <2>1 DEF Decodes, Units, BodyUnits, CommitUnit
  <2> QED BY <1>3, <2>2
<1>6. CASE ~Decodes(record)
  BY <1>3, <1>6, NewestSurvives
<1> QED BY <1>5, <1>6

\* A step of a call that leaves flash alone.
LEMMA QuietStepInv ==
    ASSUME FlashInv, persist.at # "idle", UNCHANGED flash,
           persist'.target = persist.target,
           persist'.state = persist.state,
           persist'.at \notin {"idle", "body"},
           persist'.at \in {"verify_body", "commit"} =>
              persist.at \in {"body", "verify_body", "commit"},
           persist.at \in {"verify_final", "lock", "done"} =>
              persist'.at \in {"verify_final", "lock", "done"},
           persist'.at \in {"lock", "done"} /\ persist'.result = "OK" => Written
    PROVE  FlashInv'
BY DEF FlashInv, Written

\* No operation of PersistControl changes its arguments or ends the call.
LEMMA PersistKeepsCall ==
    ASSUME TypeOK, PersistStep
    PROVE  /\ persist.at # "idle"
           /\ persist'.at # "idle"
           /\ persist'.target = persist.target
           /\ persist'.state = persist.state
<1>1. persist \in Call
  BY DEF TypeOK, FlashTypeOK, Call
<1>2. persist.at # "idle"
  BY DEF PersistStep, Unlock, EraseSector, VerifyErasedRecord,
         ProgramBody, VerifyBody, ProgramCommit, VerifyFinal, Finish
<1> USE <1>1 DEF Call, GoTo, FinishWith
<1>3. CASE Unlock BY <1>2, <1>3 DEF Unlock
<1>4. CASE EraseSector BY <1>2, <1>4 DEF EraseSector
<1>5. CASE VerifyErasedRecord BY <1>2, <1>5 DEF VerifyErasedRecord
<1>6. CASE ProgramBody
  BY <1>2, <1>6 DEF ProgramBody, ProgramUnit, NextBodyUnit
<1>7. CASE VerifyBody BY <1>2, <1>7 DEF VerifyBody
<1>8. CASE ProgramCommit BY <1>2, <1>8 DEF ProgramCommit, ProgramUnit
<1>9. CASE VerifyFinal BY <1>2, <1>9 DEF VerifyFinal
<1>10. CASE Finish BY <1>2, <1>10 DEF Finish
<1> QED BY <1>3, <1>4, <1>5, <1>6, <1>7, <1>8, <1>9, <1>10 DEF PersistStep

\* One operation of PersistControl keeps the newest record selectable.
LEMMA FlashStepInv ==
    ASSUME TypeOK, FlashInv, FlashStep
    PROVE  FlashInv'
<1>1. /\ flash \in Flash /\ persist \in Call /\ persist.result \in Results
      /\ persist.state \in Control
  BY DEF TypeOK, FlashTypeOK, Flash, RecordContents, Call
<1>2. persist.at # "idle"
  BY PersistKeepsCall DEF FlashStep
<1> DEFINE t == persist.target
           o == 1 - persist.target
<1>3. /\ IsStateValid(persist.state) /\ Decodes(flash[o])
      /\ Follows(persist.state, Decoded(flash[o]))
      /\ \/ Newest(flash, o)
         \/ persist.at \in {"verify_final", "lock", "done"} /\ Written
  BY <1>2, Zenon DEF FlashInv
<1>4. persist'.target = t /\ persist'.state = persist.state
  BY PersistKeepsCall DEF FlashStep
<1>5. CASE Unlock
  <2>1. \/ persist'.at = "erase"
        \/ persist'.at = "lock" /\ persist'.result # "OK"
    BY <1>1, <1>5 DEF Unlock, GoTo, FinishWith, Call
  <2> QED BY <1>2, <1>4, <1>5, <2>1, QuietStepInv DEF Unlock
<1>6. CASE EraseSector
  <2>1. PICK record \in RecordContents :
          /\ SetTarget(record)
          /\ Decodes(record) =>
               Decodes(Target) /\ Decoded(record) = Decoded(Target)
    <3>1. CASE SetTarget([u \in Units |-> Erased])
      <4> DEFINE blank == [u \in Units |-> Erased]
      <4>1. blank \in RecordContents /\ blank[CommitUnit] \in Blank
            /\ CommitUnit \in Units
        BY DEF RecordContents, Blank, Units, CommitUnit
      <4>2. SetTarget(blank)
        BY <3>1
      <4> HIDE DEF blank
      <4>3. ~Decodes(blank)
        BY <4>1, BlankDoesNotDecode
      <4> QED BY <4>1, <4>2, <4>3
    <3>2. CASE \E record \in ErasedPartly(Target) : SetTarget(record)
      <4>1. Target \in RecordContents
        BY <1>1, OtherIsARecord DEF Target, Flash
      <4> QED BY <3>2, <4>1, ErasedPartlyType
    <3> QED BY <1>6, <3>1, <3>2 DEF EraseSector
  <2>2. Newest(flash, o)
    BY <1>3, <1>6 DEF EraseSector
  <2>3. Newest(flash', o)
    BY <1>1, <2>1, <2>2, NewestSurvives
  <2>4. flash'[o] = flash[o]
    BY <1>1, <2>1, OtherIsARecord DEF SetTarget, Flash
  <2>5. \/ persist'.at = "verify_erased"
        \/ persist'.at = "lock" /\ persist'.result # "OK"
    BY <1>1, <1>6 DEF EraseSector, GoTo, FinishWith, Call
  <2> QED BY <1>3, <1>4, <2>3, <2>4, <2>5 DEF FlashInv
<1>7. CASE VerifyErasedRecord
  <2>1. UNCHANGED flash
    BY <1>7 DEF VerifyErasedRecord
  <2>2. CASE FinishWith("ERASE_VERIFY_FAILED")
    <3>1. persist'.at = "lock" /\ persist'.result # "OK"
      BY <1>1, <2>2 DEF FinishWith, Call
    <3> QED BY <1>2, <1>4, <2>1, <3>1, QuietStepInv
  <2>3. CASE /\ persist' = [persist EXCEPT !.at = "body", !.unit = 0]
             /\ Target = [u \in Units |-> Erased]
    <3>1. flash[t][CommitUnit] = Erased
      BY <2>3 DEF Target, Units, CommitUnit
    <3>2. persist'.at = "body" /\ persist'.unit \in BodyUnits
      BY <1>1, <2>3 DEF Call, BodyUnits
    <3>3. Newest(flash, o)
      BY <1>3, <1>7 DEF VerifyErasedRecord
    <3> QED BY <1>3, <1>4, <2>1, <3>1, <3>2, <3>3 DEF FlashInv
  <2> QED BY <1>7, <2>2, <2>3 DEF VerifyErasedRecord
<1>8. CASE ProgramBody
  <2>1. /\ persist.unit \in BodyUnits /\ Target[CommitUnit] = Erased
        /\ Newest(flash, o)
    BY <1>2, <1>3, <1>8 DEF ProgramBody, FlashInv, Target
  <2>2. PICK value \in Control \cup Blank : SetUnit(persist.unit, value)
    BY <1>1, <1>8, ProgrammedPartlyType DEF ProgramBody, ProgramUnit
  <2>3. /\ flash'[t][CommitUnit] = Erased /\ flash'[o] = flash[o]
        /\ Newest(flash', o)
    BY <1>1, <2>1, <2>2, BodyWordKeepsNewest
  <2>4. \/ persist'.at = "body" /\ persist'.unit \in BodyUnits
        \/ persist'.at = "verify_body"
        \/ persist'.at = "lock" /\ persist'.result # "OK"
    <3>1. CASE NextBodyUnit
      BY <1>1, <2>1, <3>1 DEF NextBodyUnit, Call, BodyUnits
    <3>2. CASE FinishWith("BODY_PROGRAM_FAILED")
      BY <1>1, <3>2 DEF FinishWith, Call
    <3> QED BY <1>8, <3>1, <3>2 DEF ProgramBody, ProgramUnit
  <2> QED BY <1>3, <1>4, <2>3, <2>4 DEF FlashInv
<1>9. CASE VerifyBody
  <2>1. \/ persist'.at = "commit"
        \/ persist'.at = "lock" /\ persist'.result # "OK"
    BY <1>1, <1>9 DEF VerifyBody, GoTo, FinishWith, Call
  <2> QED BY <1>2, <1>4, <1>9, <2>1, QuietStepInv DEF VerifyBody
<1>10. CASE ProgramCommit
  <2>1. Newest(flash, o)
    BY <1>3, <1>10 DEF ProgramCommit
  <2>2. PICK value \in ProgrammedPartly(persist.state) :
           SetUnit(CommitUnit, value)
    BY <1>10 DEF ProgramCommit, ProgramUnit, ProgrammedPartly
  <2>3. /\ flash'[o] = flash[o]
        /\ \/ Newest(flash', o)
           \/ \A u \in Units : flash'[t][u] = persist.state
    BY <1>1, <2>1, <2>2, CommitWordDecides
  <2>4. \/ persist'.at = "verify_final"
        \/ persist'.at = "lock" /\ persist'.result # "OK"
    BY <1>1, <1>10 DEF ProgramCommit, ProgramUnit, GoTo, FinishWith, Call
  <2> QED BY <1>3, <1>4, <2>3, <2>4 DEF FlashInv, Written
<1>11. CASE VerifyFinal
  <2>1. \/ persist'.at = "lock" /\ Written
        \/ persist'.at = "lock" /\ persist'.result # "OK"
    BY <1>1, <1>11
       DEF VerifyFinal, GoTo, FinishWith, Call, Written, Target
  <2> QED BY <1>2, <1>4, <1>11, <2>1, QuietStepInv DEF VerifyFinal
<1>12. CASE Finish
  <2>1. /\ persist'.at = "done"
        /\ persist'.result = "OK" => persist.result = "OK"
    BY <1>1, <1>12 DEF Finish, GoTo, Call
  <2>2. persist'.result = "OK" => Written
    BY <1>2, <1>12, <2>1 DEF Finish, FlashInv
  <2> QED BY <1>2, <1>4, <1>12, <2>1, <2>2, QuietStepInv DEF Finish
<1> QED BY <1>5, <1>6, <1>7, <1>8, <1>9, <1>10, <1>11, <1>12
        DEF FlashStep, PersistStep

----------------------------------------------------------------------------
(* The call starts, returns, or is cut off by a reset.                     *)

\* A complete new record is the newest one.
LEMMA WrittenIsNewest ==
    ASSUME persist \in Call, NEW f,
           IsStateValid(persist.state),
           Decodes(f[1 - persist.target]),
           Follows(persist.state, Decoded(f[1 - persist.target])),
           \A u \in Units : f[persist.target][u] = persist.state
    PROVE  /\ Newest(f, persist.target)
           /\ Decoded(f[persist.target]) = persist.state
<1>1. persist.state \in Control
  BY DEF Call
<1>2. /\ Decodes(f[persist.target])
      /\ Decoded(f[persist.target]) = persist.state
  BY <1>1, CompleteDecodes
<1> QED BY <1>2 DEF Newest

\* Whatever the call has reached, one of the records is the newest.
LEMMA SomeNewest ==
    ASSUME TypeOK, FlashInv
    PROVE  \E r \in Records : Newest(flash, r)
<1>1. CASE persist.at = "idle"
  BY <1>1 DEF FlashInv
<1>2. CASE persist.at # "idle"
  <2>1. persist \in Call
    BY DEF TypeOK, FlashTypeOK, Call
  <2>2. CASE Newest(flash, 1 - persist.target)
    BY <2>1, <2>2, OtherIsARecord
  <2>3. CASE Written
    BY <1>2, <2>1, <2>3, WrittenIsNewest, OtherIsARecord DEF FlashInv, Written
  <2> QED BY <1>2, <2>2, <2>3 DEF FlashInv
<1> QED BY <1>1, <1>2

\* A call that starts writes to the record that is not selected.
LEMMA CallStartInv ==
    ASSUME TypeOK, FlashInv, persist.at = "idle",
           NEW new \in Control, Follows(new, Selected(flash)),
           PersistControl(new, OtherRecord(flash))
    PROVE  FlashInv'
<1>1. PICK r \in Records : Newest(flash, r)
  BY SomeNewest
<1>2. /\ OtherRecord(flash) = 1 - r /\ Selected(flash) = Decoded(flash[r])
      /\ 1 - (1 - r) = r
  BY <1>1, NewestIsSelected DEF Records
<1>3. /\ persist'.at = "unlock" /\ persist'.state = new
      /\ persist'.target = 1 - r /\ persist'.result = "OK"
      /\ IsStateValid(new) /\ UNCHANGED flash
  BY <1>2 DEF PersistControl
<1>4. /\ IsStateValid(persist'.state)
      /\ Decodes(flash'[1 - persist'.target])
      /\ Follows(persist'.state, Decoded(flash'[1 - persist'.target]))
      /\ Newest(flash', 1 - persist'.target)
  BY <1>1, <1>2, <1>3 DEF Newest
<1> QED BY <1>3, <1>4 DEF FlashInv

\* When a call has returned, one record is the newest again.
LEMMA CallEndInv ==
    ASSUME TypeOK, FlashInv, UNCHANGED flash, persist' = NoCall
    PROVE  FlashInv'
<1>1. PICK r \in Records : Newest(flash', r)
  BY SomeNewest
<1>2. persist'.at = "idle"
  BY DEF NoCall
<1> QED BY <1>1, <1>2 DEF FlashInv

\* A power loss leaves flash as it was, keeps the other record newest, or
\* comes just after the last flashword of the new record was in place.
LEMMA InterruptedDecides ==
    ASSUME TypeOK, FlashInv, persist.at # "idle", Interrupted
    PROVE  \/ UNCHANGED flash
           \/ /\ Newest(flash, 1 - persist.target)
              /\ flash'[1 - persist.target] = flash[1 - persist.target]
              /\ \/ Newest(flash', 1 - persist.target)
                 \/ \A u \in Units : flash'[persist.target][u] = persist.state
<1>1. /\ flash \in Flash /\ persist \in Call /\ persist.state \in Control
  BY DEF TypeOK, FlashTypeOK, Flash, RecordContents, Call
<1> DEFINE o == 1 - persist.target
<1>2. CASE UNCHANGED flash
  BY <1>2
<1>3. CASE /\ persist.at = "erase"
           /\ \E record \in ErasedPartly(Target) : SetTarget(record)
  <2>1. Newest(flash, o)
    BY <1>3 DEF FlashInv
  <2>2. Target \in RecordContents
    BY <1>1, OtherIsARecord DEF Target, Flash
  <2>3. Newest(flash', o)
    BY <1>1, <1>3, <2>1, <2>2, ErasedPartlyType, NewestSurvives
  <2>4. flash'[o] = flash[o]
    BY <1>1, <1>3, OtherIsARecord DEF SetTarget, Flash
  <2> QED BY <2>1, <2>3, <2>4
<1>4. CASE /\ persist.at = "body"
           /\ \E value \in ProgrammedPartly(persist.state) :
                 SetUnit(persist.unit, value)
  <2>1. /\ Newest(flash, o) /\ persist.unit \in BodyUnits
        /\ Target[CommitUnit] = Erased
    BY <1>4 DEF FlashInv, Target
  <2>2. PICK value \in Control \cup Blank : SetUnit(persist.unit, value)
    BY <1>1, <1>4, ProgrammedPartlyType
  <2>3. Newest(flash', o) /\ flash'[o] = flash[o]
    BY <1>1, <2>1, <2>2, BodyWordKeepsNewest
  <2> QED BY <2>1, <2>3
<1>5. CASE /\ persist.at = "commit"
           /\ \E value \in ProgrammedPartly(persist.state) :
                 SetUnit(CommitUnit, value)
  <2>1. Newest(flash, o)
    BY <1>5 DEF FlashInv
  <2>2. PICK value \in ProgrammedPartly(persist.state) :
           SetUnit(CommitUnit, value)
    BY <1>5
  <2> QED BY <1>1, <2>1, <2>2, CommitWordDecides
<1> QED BY <1>2, <1>3, <1>4, <1>5 DEF Interrupted

\* A power loss inside a call leaves a newest record.
LEMMA InterruptedInv ==
    ASSUME TypeOK, FlashInv, persist.at # "idle", Interrupted
    PROVE  FlashInv'
<1>1. /\ flash \in Flash /\ persist \in Call /\ persist.state \in Control
  BY DEF TypeOK, FlashTypeOK, Flash, RecordContents, Call
<1>2. persist'.at = "idle"
  BY DEF Interrupted, NoCall
<1> DEFINE o == 1 - persist.target
<1>3. /\ IsStateValid(persist.state) /\ Decodes(flash[o])
      /\ Follows(persist.state, Decoded(flash[o]))
  BY Zenon DEF FlashInv
<1>4. \E r \in Records : Newest(flash', r)
  <2>1. CASE UNCHANGED flash
    BY <2>1, SomeNewest
  <2>2. CASE Newest(flash', o)
    BY <1>1, <2>2, OtherIsARecord
  <2>3. CASE /\ flash'[o] = flash[o]
             /\ \A u \in Units : flash'[persist.target][u] = persist.state
    <3>1. Newest(flash', persist.target)
      BY <1>1, <1>3, <2>3, WrittenIsNewest
    <3> QED BY <1>1, <3>1, OtherIsARecord
  <2> QED BY <2>1, <2>2, <2>3, InterruptedDecides
<1> QED BY <1>2, <1>4 DEF FlashInv

----------------------------------------------------------------------------
(* The invariant holds.                                                    *)

\* Only the bootloader and the application have a call in progress.
LEMMA NextPcOK ==
    ASSUME TypeOK, PcOK, Next
    PROVE  PcOK'
<1> USE DEF PcOK
<1>1. CASE BootStops
  BY <1>1 DEF BootStops, flashVars
<1>2. CASE BootSelect
  BY <1>2 DEF BootSelect, PersistControl, flashVars
<1>3. CASE BootPersisted
  BY <1>3 DEF BootPersisted, NoCall
<1>4. CASE BootRecovery
  BY <1>4 DEF BootRecovery, flashVars
<1>5. CASE BootJump
  BY <1>5 DEF BootJump, Slots
<1>6. CASE EraseInactiveSlot
  BY <1>6 DEF EraseInactiveSlot, flashVars
<1>7. CASE DownloadImage
  BY <1>7 DEF DownloadImage, flashVars
<1>8. CASE ScheduleUpdate
  BY <1>8 DEF ScheduleUpdate, AppLoads, PersistControl
<1>9. CASE ConfirmRunning
  BY <1>9 DEF ConfirmRunning, AppLoads, PersistControl
<1>10. CASE AppPersisted
  BY <1>10 DEF AppPersisted, NoCall
<1>11. CASE FlashStep
  <2>1. persist.at # "idle" /\ persist'.at # "idle"
    BY <1>11, PersistKeepsCall DEF FlashStep
  <2> QED BY <1>11, <2>1 DEF FlashStep
<1>12. CASE Reset
  BY <1>12 DEF Reset, ResetState
<1>13. CASE PowerLoss
  BY <1>13 DEF PowerLoss, ResetState, Interrupted, NoCall
<1>14. CASE ImageDecays
  BY <1>14 DEF ImageDecays
<1> QED BY <1>1, <1>2, <1>3, <1>4, <1>5, <1>6, <1>7, <1>8, <1>9, <1>10,
           <1>11, <1>12, <1>13, <1>14 DEF Next, BootStep, AppStep

\* A step that calls PersistControl passes it the state that follows the
\* selected one.
LEMMA CallsFollow ==
    ASSUME TypeOK, PcOK, BootSelect \/ ScheduleUpdate \/ ConfirmRunning
    PROVE  \/ UNCHANGED flashVars
           \/ \E new \in Control :
                 /\ Follows(new, Selected(flash))
                 /\ PersistControl(new, OtherRecord(flash))
<1>1. Selected(flash) \in Control
  BY LoadsType DEF BootSelect, ScheduleUpdate, ConfirmRunning, AppLoads
<1>2. CASE BootSelect
  <2> DEFINE s == Selected(flash)
             boot == SelectBoot(s, Usable(s))
  <2>1. \/ UNCHANGED flashVars
        \/ boot.state # s /\ PersistControl(boot.state, OtherRecord(flash))
    BY <1>2 DEF BootSelect
  <2>2. boot.state = s \/ (boot.state \in Control /\ Follows(boot.state, s))
    <3>1. CASE CanTry(s, Usable(s))
      BY <1>1, <3>1, TriedType DEF SelectBoot, CanTry
    <3>2. CASE ~CanTry(s, Usable(s))
      BY <1>1, <3>2, AbandonedType DEF SelectBoot
    <3> QED BY <3>1, <3>2
  <2> QED BY <2>1, <2>2
<1>3. CASE ScheduleUpdate
  <2> DEFINE target == OtherSlot(running)
             image == images[target]
  <2>1. target \in Slots /\ image \in Image
    BY <1>3 DEF ScheduleUpdate, AppLoads, TypeOK, OtherSlot, Slots, PcOK
  <2>2. image.security_counter \in Nat /\ image.build_version \in Nat
    BY <2>1 DEF Image
  <2> QED BY <1>1, <1>3, <2>1, <2>2, ScheduledType DEF ScheduleUpdate
<1>4. CASE ConfirmRunning
  <2> DEFINE image == images[running]
  <2>1. running \in Slots /\ image \in Image
    BY <1>4 DEF ConfirmRunning, AppLoads, TypeOK, PcOK
  <2>2. image.security_counter \in Nat /\ image.build_version \in Nat
    BY <2>1 DEF Image
  <2> QED BY <1>1, <1>4, <2>1, <2>2, ConfirmedType DEF ConfirmRunning
<1> QED BY <1>2, <1>3, <1>4

\* Every step of the device keeps a newest record.
LEMMA NextFlashInv ==
    ASSUME TypeOK, PcOK, FlashInv, Next
    PROVE  FlashInv'
<1>1. CASE BootSelect \/ ScheduleUpdate \/ ConfirmRunning
  <2>1. persist.at = "idle"
    BY <1>1 DEF BootSelect, ScheduleUpdate, ConfirmRunning, AppLoads, PcOK
  <2>2. CASE UNCHANGED flashVars
    BY <2>2 DEF flashVars, FlashInv, Written
  <2>3. CASE \E new \in Control :
               /\ Follows(new, Selected(flash))
               /\ PersistControl(new, OtherRecord(flash))
    BY <2>1, <2>3, CallStartInv
  <2> QED BY <1>1, <2>2, <2>3, CallsFollow
<1>2. CASE BootPersisted \/ AppPersisted
  BY <1>2, CallEndInv DEF BootPersisted, AppPersisted
<1>3. CASE FlashStep
  BY <1>3, FlashStepInv
<1>4. CASE PowerLoss
  BY <1>4, InterruptedInv DEF PowerLoss, PcOK
<1>5. CASE \/ BootStops \/ BootRecovery \/ BootJump
           \/ EraseInactiveSlot \/ DownloadImage \/ Reset \/ ImageDecays
  <2>1. UNCHANGED <<flash, persist>>
    BY <1>5 DEF BootStops, BootRecovery, BootJump, EraseInactiveSlot,
                DownloadImage, Reset, ImageDecays, flashVars
  <2> QED BY <2>1 DEF FlashInv, Written
<1> QED BY <1>1, <1>2, <1>3, <1>4, <1>5 DEF Next, BootStep, AppStep

\* Every step of the device keeps the flash locked outside a call.
LEMMA NextLockInv ==
    ASSUME TypeOK, PcOK, LockInv, Next
    PROVE  LockInv'
<1> USE DEF LockInv
<1>1. CASE BootSelect
  BY <1>1 DEF BootSelect, PersistControl, flashVars
<1>2. CASE ScheduleUpdate \/ ConfirmRunning
  BY <1>2 DEF ScheduleUpdate, ConfirmRunning, PersistControl
<1>3. CASE BootPersisted
  BY <1>3 DEF BootPersisted, NoCall
<1>4. CASE AppPersisted
  BY <1>4 DEF AppPersisted, NoCall
<1>5. CASE FlashStep
  <2>1. pc \in {"boot_persist", "app_persist"} /\ UNCHANGED pc
        /\ persist \in Call
    BY <1>5
       DEF FlashStep, PersistStep, Unlock, EraseSector, VerifyErasedRecord,
           ProgramBody, VerifyBody, ProgramCommit, VerifyFinal, Finish, PcOK,
           TypeOK, FlashTypeOK, Call
  <2>2. persist'.at = "done" /\ persist'.result = "OK" => ~unlocked'
    <3> USE <2>1 DEF Call, GoTo, FinishWith
    <3>1. CASE Unlock BY <3>1 DEF Unlock
    <3>2. CASE EraseSector BY <3>2 DEF EraseSector
    <3>3. CASE VerifyErasedRecord BY <3>3 DEF VerifyErasedRecord
    <3>4. CASE ProgramBody
      BY <3>4 DEF ProgramBody, ProgramUnit, NextBodyUnit
    <3>5. CASE VerifyBody BY <3>5 DEF VerifyBody
    <3>6. CASE ProgramCommit BY <3>6 DEF ProgramCommit, ProgramUnit
    <3>7. CASE VerifyFinal BY <3>7 DEF VerifyFinal
    <3>8. CASE Finish BY <3>8 DEF Finish
    <3> QED BY <1>5, <3>1, <3>2, <3>3, <3>4, <3>5, <3>6, <3>7, <3>8
            DEF FlashStep, PersistStep
  <2> QED BY <2>1, <2>2
<1>6. CASE PowerLoss
  BY <1>6 DEF PowerLoss, Interrupted, NoCall
<1>7. CASE Reset
  BY <1>7 DEF Reset
<1>8. CASE BootStops \/ BootRecovery \/ BootJump
  BY <1>8 DEF BootStops, BootRecovery, BootJump, flashVars
<1>9. CASE EraseInactiveSlot \/ DownloadImage \/ ImageDecays
  BY <1>9 DEF EraseInactiveSlot, DownloadImage, ImageDecays, flashVars
<1> QED BY <1>1, <1>2, <1>3, <1>4, <1>5, <1>6, <1>7, <1>8, <1>9
        DEF Next, BootStep, AppStep

\* IInv is an invariant of every run of the boot manager.
THEOREM Invariance == Spec => []IInv
<1>1. IInv /\ [Next]_vars => IInv'
  <2>1. CASE Next
    BY <2>1, NextType, NextPcOK, NextFlashInv, NextLockInv DEF IInv
  <2>2. CASE UNCHANGED vars
    BY <2>2 DEF vars, IInv, TypeOK, FlashTypeOK, PcOK, FlashInv, LockInv,
                Written
  <2> QED BY <2>1, <2>2
<1> QED BY <1>1, InitInv, PTL DEF Spec

\* The boot manager never leaves its types: attempts_remaining does not
\* underflow and a generation stays within its uint32_t.
THEOREM TypeCorrect == Spec => []TypeOK
<1>1. IInv => TypeOK
  BY DEF IInv
<1> QED BY <1>1, Invariance, PTL

\* However PersistControl is interrupted and whatever fails in it,
\* Boot_Control_Load always finds one newest record, never a conflict.
THEOREM ControlAlwaysSurvives == Spec => []ControlSurvives
<1>1. IInv => ControlSurvives
  BY SomeNewest, NewestIsSelected DEF IInv, ControlSurvives
<1> QED BY <1>1, Invariance, PTL

\* The application is never started with the flash controller unlocked.
THEOREM HandoverIsLocked == Spec => JumpsWithFlashLocked
<1>1. IInv /\ [Next]_vars => (running = "NONE" /\ running' # "NONE" => ~unlocked)
  <2> SUFFICES ASSUME IInv, Next, running = "NONE", running' # "NONE"
               PROVE  ~unlocked
    BY DEF vars
  <2>1. CASE BootJump
    BY <2>1 DEF BootJump, IInv, LockInv
  <2>2. CASE ~BootJump
    BY <2>2 DEF Next, BootStep, AppStep, BootStops, BootSelect, BootPersisted,
                BootRecovery, EraseInactiveSlot, DownloadImage, ScheduleUpdate,
                ConfirmRunning, AppPersisted, FlashStep, Reset, PowerLoss,
                ResetState, ImageDecays
  <2> QED BY <2>1, <2>2
<1> QED BY <1>1, Invariance, PTL DEF Spec, JumpsWithFlashLocked

----------------------------------------------------------------------------
(* Which state is selected while a call runs.                              *)

\* The state a call started from.
Old == Decoded(flash[1 - persist.target])

\* The record a call leaves alone is the state it started from, and the
\* selected state is that one or the one being written.
CallSelects ==
    /\ Loads(flash)
    /\ Old \in Control /\ IsStateValid(Old)
    /\ \/ Newest(flash, 1 - persist.target) /\ Selected(flash) = Old
       \/ /\ persist.at \in {"verify_final", "lock", "done"} /\ Written
          /\ Selected(flash) = persist.state
    /\ persist.at \in {"lock", "done"} /\ persist.result = "OK" =>
          Selected(flash) = persist.state

\* While PersistControl runs, Boot_Control_Load selects the state the call
\* started from or the one it writes; after a call that returned OK, the
\* latter.
LEMMA CallSelectsOne ==
    TypeOK /\ FlashInv /\ persist.at # "idle" => CallSelects
<1> SUFFICES ASSUME TypeOK, FlashInv, persist.at # "idle"
             PROVE  CallSelects
  OBVIOUS
<1>1. persist \in Call
  BY DEF TypeOK, FlashTypeOK, Call
<1> DEFINE o == 1 - persist.target
<1>2. /\ IsStateValid(persist.state) /\ Decodes(flash[o])
      /\ Follows(persist.state, Decoded(flash[o]))
      /\ \/ Newest(flash, o)
         \/ persist.at \in {"verify_final", "lock", "done"} /\ Written
  BY Zenon DEF FlashInv
<1>3. Old \in Control /\ IsStateValid(Old)
  BY <1>2, DecodedType DEF Old
<1>4. Newest(flash, o) => Loads(flash) /\ Selected(flash) = Old
  BY <1>1, OtherIsARecord, NewestIsSelected DEF Old
<1>5. Written => Loads(flash) /\ Selected(flash) = persist.state
  <2> SUFFICES ASSUME Written
               PROVE  Loads(flash) /\ Selected(flash) = persist.state
    OBVIOUS
  <2>1. /\ Newest(flash, persist.target)
        /\ Decoded(flash[persist.target]) = persist.state
    BY <1>1, <1>2, WrittenIsNewest DEF Written
  <2> QED BY <1>1, <2>1, OtherIsARecord, NewestIsSelected
<1>6. persist.at \in {"lock", "done"} /\ persist.result = "OK" => Written
  BY Zenon DEF FlashInv
<1> QED BY <1>2, <1>3, <1>4, <1>5, <1>6, Zenon DEF CallSelects

\* No operation of PersistControl touches the record it is not writing.
LEMMA PersistKeepsOther ==
    ASSUME TypeOK, PersistStep
    PROVE  /\ flash'[1 - persist.target] = flash[1 - persist.target]
           /\ persist.at \notin {"erase", "body", "commit"} => UNCHANGED flash
<1>1. flash \in Flash /\ persist \in Call
  BY DEF TypeOK, FlashTypeOK, Flash, RecordContents, Call
<1>2. ASSUME NEW record, SetTarget(record)
      PROVE  flash'[1 - persist.target] = flash[1 - persist.target]
  BY <1>1, <1>2, OtherIsARecord DEF SetTarget, Flash
<1>3. ASSUME NEW u, NEW value, SetUnit(u, value)
      PROVE  flash'[1 - persist.target] = flash[1 - persist.target]
  BY <1>1, <1>3, OtherIsARecord DEF SetUnit, Flash
<1>4. CASE EraseSector BY <1>2, <1>4 DEF EraseSector
<1>5. CASE ProgramBody BY <1>3, <1>5 DEF ProgramBody, ProgramUnit
<1>6. CASE ProgramCommit BY <1>3, <1>6 DEF ProgramCommit, ProgramUnit
<1>7. CASE Unlock \/ VerifyErasedRecord \/ VerifyBody \/ VerifyFinal \/ Finish
  BY <1>7 DEF Unlock, VerifyErasedRecord, VerifyBody, VerifyFinal, Finish
<1> QED BY <1>4, <1>5, <1>6, <1>7 DEF PersistStep

\* The selected state stays, or is replaced by the one being written.
StateMoves ==
    \/ Selected(flash') = Selected(flash)
    \/ Selected(flash) = Old /\ Selected(flash') = persist.state

\* One operation of PersistControl leaves the selected state alone or
\* replaces it by the one being written.
LEMMA PersistMoves ==
    ASSUME TypeOK, TypeOK', FlashInv, FlashInv', PersistStep
    PROVE  StateMoves
<1>1. CASE persist.at \notin {"erase", "body", "commit"}
  BY <1>1, PersistKeepsOther DEF StateMoves
<1>2. CASE persist.at \in {"erase", "body", "commit"}
  <2>1. CallSelects
    BY PersistKeepsCall, CallSelectsOne
  <2>2. persist'.at # "idle"
    BY PersistKeepsCall
  <2>3. (TypeOK /\ FlashInv /\ persist.at # "idle" => CallSelects)'
    BY CallSelectsOne, PTL
  <2>4. CallSelects'
    BY <2>2, <2>3
  <2>5. Selected(flash) = Old
    BY <1>2, <2>1 DEF CallSelects
  <2>6. Old' = Old
    BY PersistKeepsCall, PersistKeepsOther DEF Old
  <2>7. Selected(flash') = Old' \/ Selected(flash') = persist'.state
    BY <2>4 DEF CallSelects
  <2> QED BY <2>5, <2>6, <2>7, PersistKeepsCall DEF StateMoves
<1> QED BY <1>1, <1>2

\* A power loss inside a call leaves the selected state alone or replaces it
\* by the one being written.
LEMMA InterruptedMoves ==
    ASSUME TypeOK, FlashInv, persist.at # "idle", Interrupted
    PROVE  StateMoves
<1>1. persist \in Call
  BY DEF TypeOK, FlashTypeOK, Call
<1> DEFINE o == 1 - persist.target
<1>2. /\ IsStateValid(persist.state) /\ Decodes(flash[o])
      /\ Follows(persist.state, Decoded(flash[o]))
  BY Zenon DEF FlashInv
<1>3. CASE UNCHANGED flash
  BY <1>3 DEF StateMoves
<1>4. CASE /\ Newest(flash, o) /\ flash'[o] = flash[o]
           /\ \/ Newest(flash', o)
              \/ \A u \in Units : flash'[persist.target][u] = persist.state
  <2>1. Selected(flash) = Old
    BY <1>1, <1>4, OtherIsARecord, NewestIsSelected DEF Old
  <2>2. Newest(flash', o) => Selected(flash') = Old
    BY <1>1, <1>4, OtherIsARecord, NewestIsSelected DEF Old
  <2>3. ASSUME \A u \in Units : flash'[persist.target][u] = persist.state
        PROVE  Selected(flash') = persist.state
    <3>1. /\ Newest(flash', persist.target)
          /\ Decoded(flash'[persist.target]) = persist.state
      BY <1>1, <1>2, <1>4, <2>3, WrittenIsNewest
    <3> QED BY <1>1, <3>1, OtherIsARecord, NewestIsSelected
  <2> QED BY <1>4, <2>1, <2>2, <2>3 DEF StateMoves
<1> QED BY <1>3, <1>4, InterruptedDecides

\* Only the flash driver and a power loss inside one of its operations can
\* replace the selected state, and only by the state being written.
LEMMA NextMoves ==
    ASSUME IInv, IInv', Next
    PROVE  \/ ~(FlashStep \/ PowerLoss) /\ UNCHANGED flash
           \/ (FlashStep \/ PowerLoss) /\ persist.at # "idle" /\ StateMoves
<1> USE DEF IInv
<1>1. CASE FlashStep
  BY <1>1, PersistMoves, PersistKeepsCall DEF FlashStep
<1>2. CASE PowerLoss
  <2>1. persist.at # "idle" /\ Interrupted
    BY <1>2 DEF PowerLoss, PcOK
  <2> QED BY <1>2, <2>1, InterruptedMoves
<1>3. CASE ~(FlashStep \/ PowerLoss)
  BY <1>3 DEF Next, BootStep, AppStep, BootStops, BootSelect, BootPersisted,
              BootRecovery, BootJump, EraseInactiveSlot, DownloadImage,
              ScheduleUpdate, ConfirmRunning, AppPersisted, Reset,
              ImageDecays, PersistControl, flashVars
<1> QED BY <1>1, <1>2, <1>3

----------------------------------------------------------------------------
(* What the transitions of the policy keep.                                *)

\* Taking an attempt changes the attempts and nothing else of the policy.
LEMMA TriedFields ==
    ASSUME NEW s \in Control, IsStateValid(s), s.attempts_remaining > 0
    PROVE  LET new == Tried(s)
           IN  /\ new.confirmed_slot = s.confirmed_slot
               /\ new.pending_slot = s.pending_slot
               /\ new.attempts_remaining = s.attempts_remaining - 1
               /\ new.minimum_security_counter = s.minimum_security_counter
               /\ new.confirmed_security_counter = s.confirmed_security_counter
               /\ new.confirmed_build_version = s.confirmed_build_version
               /\ new.pending_security_counter = s.pending_security_counter
               /\ new.pending_build_version = s.pending_build_version
BY DEF Tried, NewGeneration, Control

\* Giving up a pending update keeps what is confirmed.
LEMMA AbandonedFields ==
    ASSUME NEW s \in Control
    PROVE  LET new == Abandoned(s)
           IN  /\ new.confirmed_slot = s.confirmed_slot
               /\ new.pending_slot = "NONE"
               /\ new.attempts_remaining = 0
               /\ new.minimum_security_counter = s.minimum_security_counter
               /\ new.confirmed_security_counter = s.confirmed_security_counter
               /\ new.confirmed_build_version = s.confirmed_build_version
BY DEF Abandoned, ClearPending, NewGeneration, Control

\* Scheduling an update keeps what is confirmed and gives it all attempts.
LEMMA ScheduledFields ==
    ASSUME NEW s \in Control, NEW slot \in Slots, NEW c \in Nat, NEW b \in Nat
    PROVE  LET new == Scheduled(s, slot, c, b)
           IN  /\ new.confirmed_slot = s.confirmed_slot
               /\ new.pending_slot = slot
               /\ new.attempts_remaining = MaxPendingAttempts
               /\ new.minimum_security_counter = s.minimum_security_counter
               /\ new.confirmed_security_counter = s.confirmed_security_counter
               /\ new.confirmed_build_version = s.confirmed_build_version
BY DEF Scheduled, NewGeneration, Control

\* Confirming moves the confirmed image and the minimum to the image that
\* runs.
LEMMA ConfirmedFields ==
    ASSUME NEW s \in Control, NEW slot \in Slots, NEW c \in Nat, NEW b \in Nat
    PROVE  LET new == Confirmed(s, slot, c, b)
           IN  /\ new.confirmed_slot = slot
               /\ new.pending_slot = "NONE"
               /\ new.minimum_security_counter = c
               /\ new.confirmed_security_counter = c
               /\ new.confirmed_build_version = b
BY DEF Confirmed, ClearPending, NewGeneration, Control

----------------------------------------------------------------------------
(* What the state machine of an update keeps.                              *)

\* The state a call is writing is one of the four transitions of the policy
\* from the state the call started from, and the image the bootloader will
\* jump to afterwards is usable in it.
CallInv ==
    /\ pc = "boot_persist" =>
          /\ Old.pending_slot # "NONE"
          /\ \/ /\ persist.state = Tried(Old)
                /\ Old.attempts_remaining > 0
                /\ decision = Old.pending_slot
                /\ trials + Old.attempts_remaining <= MaxPendingAttempts
             \/ /\ persist.state = Abandoned(Old)
                /\ decision \in {Old.confirmed_slot, "RECOVERY"}
          /\ decision # "RECOVERY" => decision \in Usable(persist.state)
    /\ pc = "app_persist" =>
          \/ \E counter \in SecurityCounters, build \in BuildVersions :
                /\ CanSchedule(Old, OtherSlot(running), counter)
                /\ persist.state =
                      Scheduled(Old, OtherSlot(running), counter, build)
          \/ /\ running = Old.pending_slot
             /\ persist.state =
                   Confirmed(Old, running, Old.pending_security_counter,
                             Old.pending_build_version)

\* The bootloader jumps to an image the selected state records; to a pending
\* one only after an attempt was taken from the state.
StartInv ==
    pc = "start" /\ decision # "RECOVERY" =>
        LET s == Selected(flash)
        IN  /\ decision \in Usable(s)
            /\ \/ /\ decision = s.pending_slot
                  /\ trials + s.attempts_remaining < MaxPendingAttempts
               \/ decision = s.confirmed_slot /\ s.pending_slot = "NONE"

\* The attempts on record and the jumps made together stay in the budget.
TrialInv ==
    LET s == Selected(flash)
    IN  IF s.pending_slot = "NONE"
        THEN trials = 0
        ELSE trials + s.attempts_remaining <= MaxPendingAttempts

\* Every good image is one that exists.
ImagesInv ==
    \A slot \in Slots :
        images[slot].good =>
            /\ images[slot].security_counter \in SecurityCounters
            /\ images[slot].build_version \in BuildVersions

PolicyInv ==
    CallInv /\ StartInv /\ TrialInv /\ ImagesInv /\ RunsRecordedImage

\* The selected state is a valid control state, so the slot on trial is the
\* one it records.
LEMMA SelectedType ==
    ASSUME IInv
    PROVE  /\ Loads(flash)
           /\ Selected(flash) \in Control /\ IsStateValid(Selected(flash))
           /\ PendingIn(flash) = Selected(flash).pending_slot
<1>1. Loads(flash)
  BY SomeNewest, NewestIsSelected DEF IInv
<1> QED BY <1>1, LoadsType DEF PendingIn

\* A call writes into the record that is not selected, so the record it
\* leaves alone is the selected one.
LEMMA CallStartsFromSelected ==
    ASSUME IInv, NEW new, PersistControl(new, OtherRecord(flash))
    PROVE  /\ Old' = Selected(flash) /\ persist'.state = new
           /\ UNCHANGED flash
<1>1. PICK r \in Records : Newest(flash, r)
  BY SomeNewest DEF IInv
<1>2. /\ OtherRecord(flash) = 1 - r /\ Selected(flash) = Decoded(flash[r])
      /\ 1 - (1 - r) = r
  BY <1>1, NewestIsSelected DEF Records
<1> QED BY <1>2 DEF PersistControl, Old

\* An application runs from one of the two slots; the other one is the one
\* it erases and downloads into.
LEMMA OtherSlotIsOther ==
    ASSUME NEW slot \in Slots
    PROVE  /\ OtherSlot(slot) \in Slots /\ OtherSlot(slot) # slot
           /\ OtherSlot(OtherSlot(slot)) = slot
           /\ slot # "NONE" /\ slot # "RECOVERY"
BY DEF Slots, OtherSlot

\* The images stay images that exist.
LEMMA NextImagesInv ==
    ASSUME IInv, ImagesInv, Next
    PROVE  ImagesInv'
<1>1. images \in [Slots -> Image]
  BY DEF IInv, TypeOK
<1>2. CASE EraseInactiveSlot
  BY <1>1, <1>2 DEF EraseInactiveSlot, ImagesInv, NoImage
<1>3. CASE DownloadImage
  <2>1. PICK counter \in SecurityCounters, build \in BuildVersions :
           images' = [images EXCEPT ![OtherSlot(running)] =
                         [good |-> TRUE, security_counter |-> counter,
                          build_version |-> build]]
    BY <1>3 DEF DownloadImage
  <2> QED BY <1>1, <2>1 DEF ImagesInv
<1>4. CASE ImageDecays
  <2>1. PICK slot \in Slots : images' = [images EXCEPT ![slot].good = FALSE]
    BY <1>4 DEF ImageDecays
  <2>2. ASSUME NEW other \in Slots
        PROVE  /\ images'[other].good => images[other].good
               /\ images'[other].security_counter =
                     images[other].security_counter
               /\ images'[other].build_version = images[other].build_version
    BY <1>1, <2>1 DEF Image
  <2> QED BY <2>2 DEF ImagesInv
<1>5. CASE UNCHANGED images
  BY <1>5 DEF ImagesInv
<1> QED BY <1>2, <1>3, <1>4, <1>5
        DEF Next, BootStep, AppStep, BootStops, BootSelect, BootPersisted,
            BootRecovery, BootJump, ScheduleUpdate, ConfirmRunning,
            AppPersisted, FlashStep, Reset, PowerLoss

\* The step that replaces the selected state is one of the four transitions
\* of the policy, and what it does to the trials counted so far.
Replaced ==
    LET s == Selected(flash)
        new == Selected(flash')
    IN  \/ /\ pc = "boot_persist" /\ s.pending_slot # "NONE"
           /\ s.attempts_remaining > 0 /\ new = Tried(s)
           /\ new.pending_slot # "NONE" /\ trials' = trials
        \/ /\ pc = "boot_persist" /\ s.pending_slot # "NONE"
           /\ new = Abandoned(s) /\ trials' = 0
        \/ /\ pc = "app_persist" /\ trials' = 0
           /\ \E counter \in SecurityCounters, build \in BuildVersions :
                 /\ CanSchedule(s, OtherSlot(running), counter)
                 /\ new = Scheduled(s, OtherSlot(running), counter, build)
        \/ /\ pc = "app_persist" /\ trials' = 0
           /\ running = s.pending_slot
           /\ new = Confirmed(s, running, s.pending_security_counter,
                              s.pending_build_version)

\* A step of the flash driver, or a power loss in one, leaves the selected
\* state and the trials alone or is one of those transitions.
LEMMA StateIsReplaced ==
    ASSUME IInv, IInv', PolicyInv, FlashStep \/ PowerLoss
    PROVE  \/ Selected(flash') = Selected(flash) /\ trials' = trials
           \/ Replaced
<1> DEFINE s == Selected(flash)
           new == Selected(flash')
<1>1. CountsAgain /\ pc \in {"boot_persist", "app_persist"}
  <2>1. CASE FlashStep
    BY <2>1, PersistKeepsCall DEF FlashStep, IInv, PcOK
  <2>2. CASE PowerLoss
    BY <2>2 DEF PowerLoss
  <2> QED BY <2>1, <2>2
<1>2. /\ s \in Control /\ IsStateValid(s)
      /\ PendingIn(flash) = s.pending_slot
  BY SelectedType
<1>3. PendingIn(flash') = new.pending_slot
  <2>1. (IInv => PendingIn(flash) = Selected(flash).pending_slot)'
    BY SelectedType, PTL
  <2> QED BY <2>1
<1>4. trials' = IF s.pending_slot = "NONE" \/ new.pending_slot = "NONE"
                THEN 0 ELSE trials
  BY <1>1, <1>2, <1>3 DEF CountsAgain
<1>5. StateMoves
  BY <1>1, NextMoves DEF Next
<1>6. CASE new = s
  BY <1>4, <1>6 DEF PolicyInv, TrialInv
<1>7. CASE s = Old /\ new = persist.state
  <2>1. CASE /\ pc = "boot_persist" /\ persist.state = Tried(Old)
             /\ Old.attempts_remaining > 0
    <3>1. s.pending_slot # "NONE"
      BY <1>7, <2>1, Zenon DEF PolicyInv, CallInv
    <3>2. new.pending_slot = s.pending_slot
      BY <1>2, <1>7, <2>1, TriedFields
    <3> QED BY <1>4, <1>7, <2>1, <3>1, <3>2 DEF Replaced
  <2>2. CASE pc = "boot_persist" /\ persist.state = Abandoned(Old)
    <3>1. new.pending_slot = "NONE"
      BY <1>2, <1>7, <2>2, AbandonedFields
    <3>2. s.pending_slot # "NONE"
      BY <1>7, <2>2, Zenon DEF PolicyInv, CallInv
    <3> QED BY <1>4, <1>7, <2>2, <3>1, <3>2 DEF Replaced
  <2>3. CASE /\ pc = "app_persist"
             /\ \E counter \in SecurityCounters, build \in BuildVersions :
                   /\ CanSchedule(Old, OtherSlot(running), counter)
                   /\ persist.state =
                         Scheduled(Old, OtherSlot(running), counter, build)
    <3>1. s.pending_slot = "NONE"
      BY <1>7, <2>3 DEF CanSchedule
    <3> QED BY <1>4, <1>7, <2>3, <3>1 DEF Replaced
  <2>4. CASE /\ pc = "app_persist" /\ running = Old.pending_slot
             /\ persist.state =
                   Confirmed(Old, running, Old.pending_security_counter,
                             Old.pending_build_version)
    <3>1. running \in Slots
      BY <2>4 DEF IInv, TypeOK, PcOK
    <3>2. new.pending_slot = "NONE"
      BY <1>2, <1>7, <2>4, <3>1, ConfirmedFields DEF Control
    <3> QED BY <1>4, <1>7, <2>4, <3>2 DEF Replaced
  <2> QED BY <1>1, <2>1, <2>2, <2>3, <2>4 DEF PolicyInv, CallInv
<1> QED BY <1>5, <1>6, <1>7 DEF StateMoves

\* Jumping to the pending image is counted, and stays in the budget.
LEMMA NextTrialInv ==
    ASSUME IInv, IInv', PolicyInv, Next
    PROVE  TrialInv'
<1> DEFINE s == Selected(flash)
           new == Selected(flash')
<1>1. /\ s \in Control /\ IsStateValid(s) /\ trials \in Nat
      /\ PendingIn(flash) = s.pending_slot
  BY SelectedType DEF IInv, TypeOK
<1>2. CASE FlashStep \/ PowerLoss
  <2>1. CASE new = s /\ trials' = trials
    BY <2>1 DEF PolicyInv, TrialInv
  <2>2. CASE Replaced
    <3>1. CASE /\ s.pending_slot # "NONE" /\ s.attempts_remaining > 0
               /\ new = Tried(s) /\ trials' = trials
      <4>1. /\ new.pending_slot # "NONE"
            /\ new.attempts_remaining = s.attempts_remaining - 1
        BY <1>1, <3>1, TriedFields
      <4>2. trials + s.attempts_remaining <= MaxPendingAttempts
        BY <3>1 DEF PolicyInv, TrialInv
      <4>3. s.attempts_remaining \in Nat
        BY <1>1 DEF Control
      <4> QED BY <1>1, <3>1, <4>1, <4>2, <4>3, AttemptsAssumption DEF TrialInv
    <3>2. CASE new = Abandoned(s) /\ trials' = 0
      BY <1>1, <3>2, AbandonedFields DEF TrialInv
    <3>3. CASE /\ trials' = 0
               /\ \E counter \in SecurityCounters, build \in BuildVersions :
                     /\ CanSchedule(s, OtherSlot(running), counter)
                     /\ new = Scheduled(s, OtherSlot(running), counter, build)
      <4>1. PICK counter \in SecurityCounters, build \in BuildVersions :
               /\ CanSchedule(s, OtherSlot(running), counter)
               /\ new = Scheduled(s, OtherSlot(running), counter, build)
        BY <3>3
      <4>2. OtherSlot(running) \in Slots /\ counter \in Nat /\ build \in Nat
        BY <4>1, ImagesAssumption DEF CanSchedule
      <4>3. new.attempts_remaining = MaxPendingAttempts
        BY <1>1, <4>1, <4>2, ScheduledFields
      <4> QED BY <3>3, <4>3, AttemptsAssumption DEF TrialInv
    <3>4. CASE /\ running = s.pending_slot /\ pc = "app_persist" /\ trials' = 0
               /\ new = Confirmed(s, running, s.pending_security_counter,
                                  s.pending_build_version)
      <4>1. running \in Slots
        BY <3>4 DEF IInv, TypeOK, PcOK
      <4>2. new.pending_slot = "NONE"
        BY <1>1, <3>4, <4>1, ConfirmedFields DEF Control
      <4> QED BY <3>4, <4>2 DEF TrialInv
    <3> QED BY <2>2, <3>1, <3>2, <3>3, <3>4 DEF Replaced
  <2> QED BY <1>2, <2>1, <2>2, StateIsReplaced
<1>3. CASE BootJump
  <2>1. flash' = flash
    BY <1>3 DEF BootJump
  <2>2. CASE decision = s.pending_slot
    <3>1. /\ decision # "NONE" /\ decision # "RECOVERY" /\ pc = "start"
          /\ trials' \in {trials, trials + 1}
      BY <1>3, OtherSlotIsOther DEF BootJump
    <3>2. trials + s.attempts_remaining < MaxPendingAttempts
      BY <2>2, <3>1, Zenon DEF PolicyInv, StartInv
    <3>3. s.attempts_remaining \in Nat
      BY <1>1 DEF Control
    <3> QED BY <1>1, <2>1, <2>2, <3>1, <3>2, <3>3, AttemptsAssumption
            DEF TrialInv
  <2>3. CASE decision # s.pending_slot
    <3>1. trials' = trials
      BY <1>1, <1>3, <2>3 DEF BootJump
    <3> QED BY <2>1, <3>1 DEF PolicyInv, TrialInv
  <2> QED BY <2>2, <2>3
<1>4. CASE UNCHANGED <<flash, trials>>
  BY <1>4 DEF PolicyInv, TrialInv
<1>5. Next => \/ FlashStep \/ PowerLoss \/ BootJump
              \/ UNCHANGED <<flash, trials>>
  BY DEF Next, BootStep, AppStep, BootStops, BootSelect, BootPersisted,
         BootRecovery, EraseInactiveSlot, DownloadImage, ScheduleUpdate,
         ConfirmRunning, AppPersisted, Reset, ImageDecays, PersistControl,
         flashVars
<1> QED BY <1>2, <1>3, <1>4, <1>5

\* A generation is never its own successor.
LEMMA NextGenerationIsDifferent ==
    ASSUME NEW g \in Generations
    PROVE  NextGeneration(g) # g
BY GenerationAssumption DEF Generations, NextGeneration

\* A slot stays usable when the state keeps what is said of its image.
LEMMA UsableKept ==
    ASSUME NEW s, NEW t, NEW slot \in Usable(s),
           t.confirmed_slot = s.confirmed_slot,
           t.minimum_security_counter = s.minimum_security_counter,
           t.confirmed_security_counter = s.confirmed_security_counter,
           t.confirmed_build_version = s.confirmed_build_version,
           slot # s.confirmed_slot =>
              /\ t.pending_slot = s.pending_slot
              /\ t.pending_security_counter = s.pending_security_counter
              /\ t.pending_build_version = s.pending_build_version
    PROVE  slot \in Usable(t)
<1>1. /\ slot \in Slots /\ images[slot].good
      /\ images[slot].security_counter >= t.minimum_security_counter
      /\ ImageMatchesState(slot, s, images[slot])
  BY Zenon DEF Usable
<1>2. ImageMatchesState(slot, t, images[slot])
  BY <1>1, Zenon DEF ImageMatchesState
<1> QED BY <1>1, <1>2, Zenon DEF Usable

\* The images that are usable after a step that keeps the images.
LEMMA UsableNext ==
    ASSUME images' = images, NEW t, persist'.state = t
    PROVE  Usable(persist.state)' = Usable(t)
BY Zenon DEF Usable, ImageMatchesState

\* The state the bootloader persists before a jump, and the decision it took
\* with it.
LEMMA SelectCallInv ==
    ASSUME IInv, IInv', PolicyInv, BootSelect
    PROVE  CallInv' /\ StartInv'
<1> DEFINE s == Selected(flash)
           boot == SelectBoot(s, Usable(s))
<1>1. /\ s \in Control /\ IsStateValid(s) /\ trials \in Nat
      /\ PendingIn(flash) = s.pending_slot
  BY SelectedType DEF IInv, TypeOK
<1>2. /\ decision' = boot.decision
      /\ pc' = IF boot.state = s THEN "start" ELSE "boot_persist"
      /\ UNCHANGED <<images, running, trials>> /\ flash' = flash
      /\ boot.state # s =>
            Old' = s /\ persist'.state = boot.state
  <2>1. CASE boot.state = s
    BY <2>1 DEF BootSelect, flashVars
  <2>2. CASE boot.state # s
    <3>1. PersistControl(boot.state, OtherRecord(flash))
      BY <2>2 DEF BootSelect
    <3>2. /\ Old' = s /\ persist'.state = boot.state
          /\ UNCHANGED flash
      BY <3>1, CallStartsFromSelected
    <3> QED BY <2>2, <3>2 DEF BootSelect
  <2> QED BY <2>1, <2>2
<1>3. CASE boot.state # s /\ CanTry(s, Usable(s))
  <2>1. /\ boot.state = Tried(s) /\ boot.decision = s.pending_slot
        /\ s.pending_slot \in Usable(s) /\ s.attempts_remaining > 0
    BY <1>3 DEF SelectBoot, CanTry
  <2>2. decision' \in Slots /\ s.pending_slot # "NONE"
    BY <1>2, <2>1, OtherSlotIsOther DEF Usable
  <2>3. trials' + s.attempts_remaining <= MaxPendingAttempts
    BY <1>2, <2>2 DEF PolicyInv, TrialInv
  <2>4. decision' \in Usable(persist.state)'
    <3> DEFINE t == Tried(s)
    <3>1. /\ images' = images /\ decision' = s.pending_slot
          /\ persist'.state = t
      BY <1>2, <1>3, <2>1
    <3>2. /\ t.confirmed_slot = s.confirmed_slot
          /\ t.pending_slot = s.pending_slot
          /\ t.minimum_security_counter = s.minimum_security_counter
          /\ t.confirmed_security_counter = s.confirmed_security_counter
          /\ t.confirmed_build_version = s.confirmed_build_version
          /\ t.pending_security_counter = s.pending_security_counter
          /\ t.pending_build_version = s.pending_build_version
      BY <1>1, <2>1, TriedFields
    <3> HIDE DEF t, s
    <3>3. s.pending_slot \in Usable(t)
      BY <2>1, <3>2, UsableKept
    <3>4. Usable(persist.state)' = Usable(t)
      BY <3>1, UsableNext
    <3> QED BY <3>1, <3>3, <3>4
  <2>5. /\ pc' = "boot_persist" /\ Old' = s /\ persist'.state = Tried(s)
        /\ decision' = s.pending_slot
    BY <1>2, <1>3, <2>1
  <2> QED BY <2>1, <2>2, <2>3, <2>4, <2>5 DEF CallInv, StartInv
<1>4. CASE boot.state # s /\ ~CanTry(s, Usable(s))
  <2>1. /\ boot.state = Abandoned(s) /\ s.pending_slot # "NONE"
        /\ \/ boot.decision = s.confirmed_slot /\ s.confirmed_slot \in Usable(s)
           \/ boot.decision = "RECOVERY"
    BY <1>4 DEF SelectBoot
  <2>2. decision' # "RECOVERY" => decision' \in Usable(persist.state)'
    <3> DEFINE t == Abandoned(s)
    <3> SUFFICES ASSUME decision' # "RECOVERY"
                 PROVE  decision' \in Usable(persist.state)'
      OBVIOUS
    <3>1. /\ images' = images /\ decision' = s.confirmed_slot
          /\ s.confirmed_slot \in Usable(s) /\ persist'.state = t
      BY <1>2, <1>4, <2>1
    <3>2. /\ t.confirmed_slot = s.confirmed_slot
          /\ t.minimum_security_counter = s.minimum_security_counter
          /\ t.confirmed_security_counter = s.confirmed_security_counter
          /\ t.confirmed_build_version = s.confirmed_build_version
      BY <1>1, AbandonedFields
    <3> HIDE DEF t, s
    <3>3. s.confirmed_slot \in Usable(t)
      BY <3>1, <3>2, UsableKept
    <3>4. Usable(persist.state)' = Usable(t)
      BY <3>1, UsableNext
    <3> QED BY <3>1, <3>3, <3>4
  <2>3. /\ pc' = "boot_persist" /\ Old' = s /\ persist'.state = Abandoned(s)
        /\ decision' \in {s.confirmed_slot, "RECOVERY"}
    BY <1>2, <1>4, <2>1
  <2> QED BY <2>1, <2>2, <2>3 DEF CallInv, StartInv
<1>5. CASE boot.state = s
  <2>1. s.pending_slot = "NONE"
    <3>1. Tried(s).generation # s.generation
          /\ Abandoned(s).generation # s.generation
      BY <1>1, NextGenerationIsDifferent
         DEF Tried, Abandoned, NewGeneration, ClearPending, Control
    <3> QED BY <1>5, <3>1 DEF SelectBoot
  <2>2. \/ boot.decision = s.confirmed_slot /\ s.confirmed_slot \in Usable(s)
        \/ boot.decision = "RECOVERY"
    BY <2>1, OtherSlotIsOther DEF SelectBoot, CanTry, Usable
  <2>3. decision' # "RECOVERY" =>
           decision' \in Usable(Selected(flash))'
    BY <1>2, <2>2 DEF Usable, ImageMatchesState
  <2> QED BY <1>2, <1>5, <2>1, <2>2, <2>3 DEF CallInv, StartInv
<1> QED BY <1>3, <1>4, <1>5

\* What the application persists is a schedule of the image in the other
\* slot or the confirmation of itself.
LEMMA AppCallInv ==
    ASSUME IInv, PolicyInv, ScheduleUpdate \/ ConfirmRunning
    PROVE  CallInv'
<1> DEFINE s == Selected(flash)
<1>1. running \in Slots
  BY DEF ScheduleUpdate, ConfirmRunning, AppLoads, IInv, TypeOK, PcOK
<1>2. pc' = "app_persist" /\ UNCHANGED <<images, running>>
  BY DEF ScheduleUpdate, ConfirmRunning
<1>3. CASE ScheduleUpdate
  <2> DEFINE image == images[OtherSlot(running)]
  <2>1. /\ image.good
        /\ CanSchedule(s, OtherSlot(running), image.security_counter)
        /\ PersistControl(Scheduled(s, OtherSlot(running),
                                    image.security_counter,
                                    image.build_version),
                          OtherRecord(flash))
    BY <1>3 DEF ScheduleUpdate
  <2>2. /\ image.security_counter \in SecurityCounters
        /\ image.build_version \in BuildVersions
    BY <1>1, <2>1, OtherSlotIsOther DEF PolicyInv, ImagesInv
  <2>3. /\ Old' = s
        /\ persist'.state = Scheduled(s, OtherSlot(running),
                                      image.security_counter,
                                      image.build_version)
    BY <2>1, CallStartsFromSelected
  <2> QED BY <1>2, <2>1, <2>2, <2>3 DEF CallInv
<1>4. CASE ConfirmRunning
  <2> DEFINE image == images[running]
  <2>1. /\ CanConfirm(s, running, image.security_counter, image.build_version)
        /\ PersistControl(Confirmed(s, running, image.security_counter,
                                    image.build_version),
                          OtherRecord(flash))
    BY <1>4 DEF ConfirmRunning
  <2>2. /\ running = s.pending_slot
        /\ image.security_counter = s.pending_security_counter
        /\ image.build_version = s.pending_build_version
    BY <2>1 DEF CanConfirm
  <2>3. /\ Old' = s
        /\ persist'.state = Confirmed(s, running, image.security_counter,
                                      image.build_version)
    BY <2>1, CallStartsFromSelected
  <2> QED BY <1>2, <2>2, <2>3 DEF CallInv
<1> QED BY <1>3, <1>4

\* While PersistControl runs, nothing touches the images, and the state it
\* writes and the state it started from stay the same.
LEMMA NextCallInv ==
    ASSUME IInv, IInv', PolicyInv, Next
    PROVE  CallInv'
<1>1. CASE BootSelect
  BY <1>1, SelectCallInv
<1>2. CASE ScheduleUpdate \/ ConfirmRunning
  BY <1>2, AppCallInv
<1>3. CASE FlashStep
  <2>1. /\ UNCHANGED <<images, pc, decision, running>>
        /\ persist'.state = persist.state /\ Old' = Old
    BY <1>3, PersistKeepsCall, PersistKeepsOther DEF FlashStep, IInv, Old
  <2>2. trials' <= trials
    BY <1>3 DEF FlashStep, CountsAgain, IInv, TypeOK
  <2>3. CASE pc = "boot_persist"
    <3>1. Usable(persist.state)' = Usable(persist.state)
      BY <2>1 DEF Usable, ImageMatchesState
    <3>2. /\ Old \in Control /\ Old.attempts_remaining \in Nat
          /\ trials \in Nat /\ trials' \in Nat
      BY <1>3, CallSelectsOne, PersistKeepsCall
         DEF FlashStep, CallSelects, IInv, TypeOK, Control
    <3>3. trials + Old.attempts_remaining <= MaxPendingAttempts =>
             trials' + Old.attempts_remaining <= MaxPendingAttempts
      BY <2>2, <3>2, AttemptsAssumption
    <3> QED BY <2>1, <2>3, <3>1, <3>3, Zenon DEF PolicyInv, CallInv
  <2>4. CASE pc = "app_persist"
    BY <2>1, <2>4, Zenon DEF PolicyInv, CallInv
  <2>5. CASE pc \notin {"boot_persist", "app_persist"}
    BY <2>1, <2>5, Zenon DEF CallInv
  <2> QED BY <2>3, <2>4, <2>5
<1>4. CASE pc' \notin {"boot_persist", "app_persist"}
  BY <1>4 DEF CallInv
<1>5. Next => \/ BootSelect \/ ScheduleUpdate \/ ConfirmRunning \/ FlashStep
              \/ pc' \notin {"boot_persist", "app_persist"}
  BY DEF Next, BootStep, AppStep, BootStops, BootPersisted, BootRecovery,
         BootJump, EraseInactiveSlot, DownloadImage, AppPersisted, Reset,
         PowerLoss, ResetState, ImageDecays
<1> QED BY <1>1, <1>2, <1>3, <1>4, <1>5

\* A boot reaches the jump either with nothing to persist or after the state
\* it persisted is the selected one.
LEMMA NextStartInv ==
    ASSUME IInv, IInv', PolicyInv, Next
    PROVE  StartInv'
<1> DEFINE s == Selected(flash)
<1>1. CASE BootSelect
  BY <1>1, SelectCallInv
<1>2. CASE BootPersisted /\ persist.result = "OK"
  <2>1. /\ pc = "boot_persist" /\ persist.at = "done"
        /\ UNCHANGED <<flash, images, decision, trials>>
    BY <1>2 DEF BootPersisted
  <2>2. s = persist.state /\ Old \in Control /\ IsStateValid(Old)
    BY <1>2, <2>1, CallSelectsOne DEF CallSelects, IInv
  <2>3. decision # "RECOVERY" => decision \in Usable(s)
    BY <2>1, <2>2, Zenon DEF PolicyInv, CallInv
  <2>5. decision' # "RECOVERY" => decision' \in Usable(Selected(flash))'
    BY <2>1, <2>3 DEF Usable, ImageMatchesState
  <2>6. CASE /\ persist.state = Tried(Old) /\ Old.attempts_remaining > 0
             /\ decision = Old.pending_slot
             /\ trials + Old.attempts_remaining <= MaxPendingAttempts
    <3>1. /\ s.pending_slot = decision
          /\ s.attempts_remaining = Old.attempts_remaining - 1
      BY <2>2, <2>6, TriedFields
    <3>2. trials + s.attempts_remaining < MaxPendingAttempts
      BY <2>2, <2>6, <3>1, AttemptsAssumption DEF IInv, TypeOK, Control
    <3> QED BY <2>1, <2>5, <3>1, <3>2 DEF StartInv
  <2>7. CASE /\ persist.state = Abandoned(Old)
             /\ decision \in {Old.confirmed_slot, "RECOVERY"}
    <3>1. s.confirmed_slot = Old.confirmed_slot /\ s.pending_slot = "NONE"
      BY <2>2, <2>7, AbandonedFields
    <3> QED BY <2>1, <2>5, <2>7, <3>1 DEF StartInv
  <2> QED BY <2>1, <2>6, <2>7, Zenon DEF PolicyInv, CallInv
<1>3. CASE pc' # "start"
  BY <1>3 DEF StartInv
<1>4. Next => \/ BootSelect
              \/ BootPersisted /\ persist.result = "OK"
              \/ pc' # "start"
  <2>1. FlashStep => pc' # "start"
    BY PersistKeepsCall DEF FlashStep, IInv, PcOK
  <2>2. BootStops \/ BootRecovery \/ BootJump => pc' # "start"
    BY DEF BootStops, BootRecovery, BootJump
  <2>3. BootPersisted => persist.result = "OK" \/ pc' # "start"
    BY DEF BootPersisted
  <2>4. AppStep => pc' # "start"
    BY DEF AppStep, EraseInactiveSlot, DownloadImage, ScheduleUpdate,
           ConfirmRunning, AppPersisted
  <2>5. Reset \/ PowerLoss \/ ImageDecays => pc' # "start"
    BY DEF Reset, PowerLoss, ResetState, ImageDecays
  <2> QED BY <2>1, <2>2, <2>3, <2>4, <2>5 DEF Next, BootStep
<1> QED BY <1>1, <1>2, <1>3, <1>4

\* A record still covers an image when the transition of the state keeps the
\* confirmed image's numbers and does not touch the image's own.
LEMMA NextRunsRecordedImage ==
    ASSUME IInv, IInv', PolicyInv, Next
    PROVE  RunsRecordedImage'
<1> DEFINE s == Selected(flash)
           new == Selected(flash')
<1>1. s \in Control /\ IsStateValid(s)
  BY SelectedType
<1>2. running # "NONE" => running \in Slots /\ OtherSlot(running) # running
  BY OtherSlotIsOther DEF IInv, TypeOK
<1>3. CASE running' = "NONE"
  BY <1>3 DEF RunsRecordedImage
<1>4. CASE BootJump
  <2>1. flash' = flash /\ images' = images
    BY <1>4 DEF BootJump
  <2>2. CASE running' = decision /\ pc = "start" /\ decision \in Slots
    <3>1. decision \in Usable(s)
      BY <2>2, OtherSlotIsOther, Zenon DEF PolicyInv, StartInv
    <3> QED BY <2>1, <2>2, <3>1
            DEF Usable, ImageMatchesState, RunsRecordedImage
  <2>3. CASE UNCHANGED running
    BY <2>1, <2>3 DEF PolicyInv, RunsRecordedImage
  <2> QED BY <1>4, <2>2, <2>3 DEF BootJump
<1>5. CASE /\ running # "NONE" /\ running' = running /\ flash' = flash
           /\ images'[running] = images[running]
  BY <1>5 DEF PolicyInv, RunsRecordedImage
<1>6. CASE EraseInactiveSlot \/ DownloadImage
  <2>1. running # "NONE"
    BY <1>6 DEF EraseInactiveSlot, DownloadImage, IInv, PcOK
  <2>2. /\ images' = [images EXCEPT ![OtherSlot(running)] =
                         images'[OtherSlot(running)]]
        /\ running' = running /\ flash' = flash
    BY <1>6 DEF EraseInactiveSlot, DownloadImage, flashVars, IInv, TypeOK
  <2>3. images'[running] = images[running]
    BY <1>2, <2>1, <2>2 DEF IInv, TypeOK
  <2> QED BY <1>5, <2>1, <2>2, <2>3
<1>7. CASE ImageDecays
  <2>1. running' = running /\ flash' = flash
        /\ \E slot \in Slots \ {running} :
              images' = [images EXCEPT ![slot].good = FALSE]
    BY <1>7 DEF ImageDecays
  <2>2. CASE running # "NONE"
    <3>1. images'[running] = images[running]
      BY <1>2, <2>1, <2>2 DEF IInv, TypeOK
    <3> QED BY <1>5, <2>1, <2>2, <3>1
  <2>3. CASE running = "NONE"
    BY <1>3, <2>1, <2>3
  <2> QED BY <2>2, <2>3
<1>8. CASE FlashStep /\ running # "NONE"
  <2>1. running' = running /\ images' = images
    BY <1>8 DEF FlashStep
  <2>2. pc = "app_persist"
    BY <1>8, PersistKeepsCall DEF FlashStep, IInv, PcOK
  <2>3. CASE new = s
    BY <2>1, <2>3 DEF PolicyInv, RunsRecordedImage
  <2>4. CASE \E counter \in SecurityCounters, build \in BuildVersions :
                /\ CanSchedule(s, OtherSlot(running), counter)
                /\ new = Scheduled(s, OtherSlot(running), counter, build)
    <3>1. PICK counter \in SecurityCounters, build \in BuildVersions :
             /\ CanSchedule(s, OtherSlot(running), counter)
             /\ new = Scheduled(s, OtherSlot(running), counter, build)
      BY <2>4
    <3>2. /\ OtherSlot(running) # s.confirmed_slot /\ s.confirmed_slot \in Slots
          /\ OtherSlot(running) \in Slots /\ s.pending_slot = "NONE"
      BY <3>1 DEF CanSchedule, IsStateValid
    <3>3. running = s.confirmed_slot
      BY <1>2, <1>8, <3>2 DEF Slots, OtherSlot
    <3>4. /\ new.confirmed_slot = s.confirmed_slot
          /\ new.minimum_security_counter = s.minimum_security_counter
          /\ new.confirmed_security_counter = s.confirmed_security_counter
          /\ new.confirmed_build_version = s.confirmed_build_version
      BY <1>1, <3>1, <3>2, ImagesAssumption, ScheduledFields
    <3> QED BY <2>1, <1>8, <3>2, <3>3, <3>4 DEF PolicyInv, RunsRecordedImage
  <2>5. CASE /\ running = s.pending_slot
             /\ new = Confirmed(s, running, s.pending_security_counter,
                                s.pending_build_version)
    <3>1. /\ s.pending_security_counter \in Nat
          /\ s.pending_build_version \in Nat
          /\ s.confirmed_slot # s.pending_slot
      BY <1>1, <1>2, <1>8, <2>5 DEF Control, IsStateValid, OtherSlot, Slots
    <3>2. /\ images[running].good
          /\ images[running].security_counter = s.pending_security_counter
          /\ images[running].build_version = s.pending_build_version
      BY <1>8, <2>5, <3>1 DEF PolicyInv, RunsRecordedImage
    <3>3. /\ new.confirmed_slot = running
          /\ new.minimum_security_counter = s.pending_security_counter
          /\ new.confirmed_security_counter = s.pending_security_counter
          /\ new.confirmed_build_version = s.pending_build_version
      BY <1>1, <1>2, <1>8, <2>5, <3>1, ConfirmedFields
    <3> QED BY <2>1, <3>1, <3>2, <3>3 DEF RunsRecordedImage
  <2> QED BY <1>8, <2>2, <2>3, <2>4, <2>5, StateIsReplaced DEF Replaced
<1>9. CASE UNCHANGED <<flash, images, running>>
  BY <1>9 DEF PolicyInv, RunsRecordedImage
<1>10. Next => \/ running' = "NONE" \/ BootJump
               \/ EraseInactiveSlot \/ DownloadImage \/ ImageDecays
               \/ FlashStep /\ running # "NONE"
               \/ UNCHANGED <<flash, images, running>>
  <2>1. FlashStep /\ running = "NONE" => running' = "NONE"
    BY DEF FlashStep
  <2>2. BootStep => BootJump \/ UNCHANGED <<flash, images, running>>
    BY DEF BootStep, BootStops, BootSelect, BootPersisted, BootRecovery,
           PersistControl, flashVars
  <2>3. AppStep => \/ EraseInactiveSlot \/ DownloadImage
                   \/ UNCHANGED <<flash, images, running>>
    BY DEF AppStep, ScheduleUpdate, ConfirmRunning, AppPersisted,
           PersistControl
  <2>4. Reset \/ PowerLoss => running' = "NONE"
    BY DEF Reset, PowerLoss, ResetState
  <2> QED BY <2>1, <2>2, <2>3, <2>4 DEF Next
<1> QED BY <1>3, <1>4, <1>6, <1>7, <1>8, <1>9, <1>10

\* A factory-programmed device selects the state it shipped with.
LEMMA InitSelects == Init => Selected(flash) = FactoryControl
<1> SUFFICES ASSUME Init PROVE Selected(flash) = FactoryControl
  OBVIOUS
<1>1. \A u \in Units : flash[0][u] = FactoryControl
  BY DEF Init, FlashInit, Records, Units
<1>2. Decodes(flash[0]) /\ Decoded(flash[0]) = FactoryControl
  BY <1>1, FactoryType, CompleteDecodes
<1>3. ~Decodes(flash[1])
  <2>1. flash[1][CommitUnit] \in Blank
    BY DEF Init, FlashInit, Records, Units, CommitUnit, Blank
  <2> QED BY <2>1, BlankDoesNotDecode DEF Units, CommitUnit
<1> QED BY <1>2, <1>3 DEF Selected, SelectedRecord

\* A factory-programmed device satisfies the invariant.
LEMMA InitPolicyInv == Init => PolicyInv
<1> SUFFICES ASSUME Init PROVE PolicyInv
  OBVIOUS
<1>1. /\ pc = "reset" /\ trials = 0 /\ running = "NONE"
  BY DEF Init
<1>2. ImagesInv
  BY ImagesAssumption DEF Init, ImagesInv, NoImage, Slots
<1>3. TrialInv
  <2>1. Selected(flash) = FactoryControl
    BY InitSelects
  <2> QED BY <1>1, <2>1 DEF TrialInv, FactoryControl, Initialize
<1> QED BY <1>1, <1>2, <1>3 
        DEF PolicyInv, CallInv, StartInv, RunsRecordedImage

\* PolicyInv holds too in every run of the boot manager.
THEOREM PolicyInvariance == Spec => [](IInv /\ PolicyInv)
<1>1. IInv /\ IInv' /\ PolicyInv /\ [Next]_vars => PolicyInv'
  <2>1. ASSUME IInv, IInv', PolicyInv, Next PROVE PolicyInv'
    BY <2>1, NextCallInv, NextStartInv, NextTrialInv, NextImagesInv,
       NextRunsRecordedImage DEF PolicyInv
  <2>2. ASSUME PolicyInv, UNCHANGED vars PROVE PolicyInv'
    <3>1. \A c : Usable(c)' = Usable(c)
      BY <2>2 DEF Usable, ImageMatchesState, vars
    <3> QED BY <2>2, <3>1
            DEF vars, PolicyInv, CallInv, StartInv, TrialInv, ImagesInv,
                RunsRecordedImage, Old, Usable, ImageMatchesState
  <2> QED BY <2>1, <2>2
<1> QED BY <1>1, Invariance, InitPolicyInv, PTL DEF Spec

----------------------------------------------------------------------------
(* What the boot manager promises about updates.                           *)

\* Only an image recorded as confirmed or pending, with exactly the recorded
\* security counter and build, is ever executing.
THEOREM RecordedImageRuns == Spec => []RunsRecordedImage
<1>1. PolicyInv => RunsRecordedImage
  BY DEF PolicyInv
<1> QED BY <1>1, PolicyInvariance, PTL

\* A pending image is started at most MaxPendingAttempts times, however boots
\* and power losses interleave.
THEOREM TrialsAreBounded == Spec => []TrialBudget
<1>1. IInv /\ PolicyInv => TrialBudget
  BY SelectedType DEF PolicyInv, TrialInv, TrialBudget
<1> QED BY <1>1, PolicyInvariance, PTL

\* No transition of the policy lowers the anti-rollback minimum.
LEMMA ReplacedKeepsMinimum ==
    ASSUME IInv, Replaced
    PROVE  Selected(flash').minimum_security_counter >=
           Selected(flash).minimum_security_counter
<1> DEFINE s == Selected(flash)
           new == Selected(flash')
<1>1. s \in Control /\ IsStateValid(s) /\ s.minimum_security_counter \in Nat
  BY SelectedType DEF Control
<1>2. CASE new = Tried(s) /\ s.attempts_remaining > 0
  BY <1>1, <1>2, TriedFields
<1>3. CASE new = Abandoned(s)
  BY <1>1, <1>3, AbandonedFields
<1>4. CASE \E counter \in SecurityCounters, build \in BuildVersions :
              /\ CanSchedule(s, OtherSlot(running), counter)
              /\ new = Scheduled(s, OtherSlot(running), counter, build)
  BY <1>1, <1>4, ImagesAssumption, ScheduledFields DEF CanSchedule
<1>5. CASE /\ pc = "app_persist" /\ running = s.pending_slot
           /\ new = Confirmed(s, running, s.pending_security_counter,
                              s.pending_build_version)
  <2>1. running \in Slots /\ running # "NONE"
    BY <1>5, OtherSlotIsOther DEF IInv, TypeOK, PcOK
  <2>2. /\ s.pending_security_counter \in Nat
        /\ s.pending_build_version \in Nat
        /\ s.pending_security_counter > s.minimum_security_counter
    BY <1>1, <1>5, <2>1 DEF Control, IsStateValid
  <2>3. new.minimum_security_counter = s.pending_security_counter
    BY <1>1, <1>5, <2>1, <2>2, ConfirmedFields
  <2> QED BY <1>1, <2>2, <2>3
<1> QED BY <1>2, <1>3, <1>4, <1>5 DEF Replaced

\* The anti-rollback minimum of the selected record never decreases, whatever
\* fails and wherever power is lost.
THEOREM RollbackIsRefused == Spec => AntiRollback
<1>1. IInv /\ IInv' /\ PolicyInv /\ [Next]_vars =>
        Selected(flash').minimum_security_counter >=
        Selected(flash).minimum_security_counter
  <2> SUFFICES ASSUME IInv, IInv', PolicyInv, [Next]_vars
               PROVE  Selected(flash').minimum_security_counter >=
                      Selected(flash).minimum_security_counter
    OBVIOUS
  <2>1. Selected(flash).minimum_security_counter \in Nat
    BY SelectedType DEF Control
  <2>2. CASE Selected(flash') = Selected(flash)
    BY <2>1, <2>2
  <2>3. CASE Replaced
    BY <2>3, ReplacedKeepsMinimum
  <2>4. CASE Next
    BY <2>2, <2>3, <2>4, NextMoves, StateIsReplaced
  <2>5. CASE UNCHANGED vars
    BY <2>2, <2>5 DEF vars
  <2> QED BY <2>4, <2>5
<1> QED BY <1>1, PolicyInvariance, PTL DEF Spec, AntiRollback

----------------------------------------------------------------------------
(* Two flash records implement one control state.                          *)

\* The abstract policy uses the same transitions of a control state.
LEMMA PolicyFunctions ==
    /\ \A s : Policy!Tried(s) = Tried(s) /\ Policy!Abandoned(s) = Abandoned(s)
    /\ \A s, slot, c, b :
          /\ Policy!Scheduled(s, slot, c, b) = Scheduled(s, slot, c, b)
          /\ Policy!Confirmed(s, slot, c, b) = Confirmed(s, slot, c, b)
          /\ Policy!Initialize(slot, c, b) = Initialize(slot, c, b)
    /\ \A s, slot, c : Policy!CanSchedule(s, slot, c) <=> CanSchedule(s, slot, c)
    /\ \A slot : Policy!OtherSlot(slot) = OtherSlot(slot)
BY DEF Policy!Tried, Tried, Policy!Abandoned, Abandoned,
       Policy!Scheduled, Scheduled, Policy!Confirmed, Confirmed,
       Policy!Initialize, Initialize, Policy!CanSchedule, CanSchedule,
       Policy!OtherSlot, OtherSlot, Policy!NewGeneration, NewGeneration,
       Policy!NextGeneration, NextGeneration, Policy!ClearPending,
       ClearPending, Policy!IsStateValid, IsStateValid, Policy!Slots, Slots

\* A step that leaves the selected state, the running slot and the trials as
\* they are is a stuttering step of the policy.
PolicyStutters == UNCHANGED <<Selected(flash), running, trials>>

\* The jump of the bootloader starts the image the policy would start.
LEMMA JumpIsPolicyStep ==
    ASSUME IInv, PolicyInv, BootJump
    PROVE  Policy!StartConfirmed \/ Policy!StartPending \/ PolicyStutters
<1> DEFINE s == Selected(flash)
<1>1. /\ running = "NONE" /\ pc = "start" /\ Selected(flash') = s
      /\ PendingIn(flash) = s.pending_slot
      /\ decision \in Slots
  BY SelectedType DEF BootJump, IInv, PcOK
<1>2. CASE UNCHANGED <<running, trials>>
  BY <1>1, <1>2 DEF PolicyStutters
<1>3. CASE /\ running' = decision
           /\ trials' = IF decision = PendingIn(flash)
                        THEN trials + 1 ELSE trials
  <2>1. decision # "RECOVERY" /\ decision # "NONE"
    BY <1>1, OtherSlotIsOther
  <2>2. \/ /\ decision = s.pending_slot
           /\ trials + s.attempts_remaining < MaxPendingAttempts
        \/ decision = s.confirmed_slot /\ s.pending_slot = "NONE"
    BY <1>1, <2>1, Zenon DEF PolicyInv, StartInv
  <2>3. CASE /\ decision = s.pending_slot
             /\ trials + s.attempts_remaining < MaxPendingAttempts
    <3>1. Policy!StartPending
      BY <1>1, <1>3, <2>1, <2>3 DEF Policy!StartPending
    <3> QED BY <3>1
  <2>4. CASE decision = s.confirmed_slot /\ s.pending_slot = "NONE"
    <3>1. Policy!StartConfirmed
      BY <1>1, <1>3, <2>1, <2>4 DEF Policy!StartConfirmed
    <3> QED BY <3>1
  <2> QED BY <2>2, <2>3, <2>4
<1> QED BY <1>2, <1>3 DEF BootJump

\* Replacing the selected state is a transition of the policy, together with
\* a reset when power was lost in the same step.
LEMMA ReplacedIsPolicyStep ==
    ASSUME IInv, FlashStep \/ PowerLoss, Replaced
    PROVE  Policy!Try \/ Policy!Abandon \/ Policy!Schedule \/ Policy!Confirm
<1> DEFINE s == Selected(flash)
           new == Selected(flash')
<1>1. s \in Control /\ IsStateValid(s)
  BY SelectedType
<1>2. running' \in {running, "NONE"}
  BY DEF FlashStep, PowerLoss, ResetState
<1>3. pc = "boot_persist" => running = "NONE" /\ running' = running
  BY <1>2 DEF IInv, PcOK
<1>4. pc = "app_persist" => running # "NONE" /\ running \in Slots
  BY DEF IInv, PcOK, TypeOK
<1>5. CASE /\ pc = "boot_persist" /\ s.pending_slot # "NONE"
           /\ s.attempts_remaining > 0 /\ new = Tried(s) /\ trials' = trials
  <2>1. Policy!Try
    BY <1>3, <1>5, PolicyFunctions DEF Policy!Try
  <2> QED BY <2>1
<1>6. CASE /\ pc = "boot_persist" /\ s.pending_slot # "NONE"
           /\ new = Abandoned(s) /\ trials' = 0
  <2>1. Policy!Abandon
    BY <1>3, <1>6, PolicyFunctions DEF Policy!Abandon
  <2> QED BY <2>1
<1>7. CASE /\ pc = "app_persist" /\ trials' = 0
           /\ \E counter \in SecurityCounters, build \in BuildVersions :
                 /\ CanSchedule(s, OtherSlot(running), counter)
                 /\ new = Scheduled(s, OtherSlot(running), counter, build)
  <2>1. PICK counter \in SecurityCounters, build \in BuildVersions :
           /\ CanSchedule(s, OtherSlot(running), counter)
           /\ new = Scheduled(s, OtherSlot(running), counter, build)
    BY <1>7
  <2>2. /\ OtherSlot(running) \in Slots \ {s.confirmed_slot}
        /\ s.confirmed_slot \in Slots
    BY <2>1 DEF CanSchedule, IsStateValid
  <2>3. running = s.confirmed_slot
    BY <1>4, <1>7, <2>2 DEF Slots, OtherSlot
  <2>4. Policy!Schedule
    BY <1>2, <1>7, <2>1, <2>3, PolicyFunctions
       DEF Policy!Schedule, Policy!MaybeStop
  <2> QED BY <2>4
<1>8. CASE /\ pc = "app_persist" /\ trials' = 0
           /\ running = s.pending_slot
           /\ new = Confirmed(s, running, s.pending_security_counter,
                              s.pending_build_version)
  <2>1. Policy!Confirm
    BY <1>2, <1>4, <1>8, PolicyFunctions
       DEF Policy!Confirm, Policy!MaybeStop
  <2> QED BY <2>1
<1> QED BY <1>5, <1>6, <1>7, <1>8 DEF Replaced

\* Two records, the operations of PersistControl, failures and resets
\* anywhere behave like one control state that is replaced atomically.
THEOREM PolicyIsImplemented == Spec => ImplementsPolicy
<1>1. Init => Policy!Init
  <2> SUFFICES ASSUME Init PROVE Policy!Init
    OBVIOUS
  <2>1. Selected(flash) = Initialize("A", FactorySecurityCounter,
                                     FactoryBuildVersion)
    BY InitSelects DEF FactoryControl
  <2> QED BY <2>1, PolicyFunctions DEF Init, Policy!Init
<1>2. IInv /\ IInv' /\ PolicyInv /\ [Next]_vars => [Policy!Next]_(Policy!vars)
  <2> SUFFICES ASSUME IInv, IInv', PolicyInv, [Next]_vars
               PROVE  Policy!Next \/ PolicyStutters
    BY DEF PolicyStutters, Policy!vars
  <2>1. CASE FlashStep \/ PowerLoss
    <3>1. CASE Replaced
      BY <2>1, <3>1, ReplacedIsPolicyStep DEF Policy!Next
    <3>2. CASE Selected(flash') = Selected(flash) /\ trials' = trials
      <4>1. CASE running' = running
        BY <3>2, <4>1 DEF PolicyStutters
      <4>2. CASE running' = "NONE"
        <5>1. Policy!Stop
          BY <3>2, <4>2 DEF Policy!Stop
        <5> QED BY <5>1 DEF Policy!Next
      <4> QED BY <2>1, <4>1, <4>2 DEF FlashStep, PowerLoss, ResetState
    <3> QED BY <2>1, <3>1, <3>2, StateIsReplaced
  <2>2. CASE BootJump
    BY <2>2, JumpIsPolicyStep DEF Policy!Next
  <2>3. CASE Reset
    <3>1. Policy!Stop
      BY <2>3 DEF Reset, ResetState, Policy!Stop
    <3> QED BY <3>1 DEF Policy!Next
  <2>4. CASE UNCHANGED <<flash, running, trials>>
    BY <2>4 DEF PolicyStutters
  <2>5. \/ FlashStep \/ PowerLoss \/ BootJump \/ Reset
        \/ UNCHANGED <<flash, running, trials>>
    BY DEF vars, Next, BootStep, AppStep, BootStops, BootSelect,
           BootPersisted, BootRecovery, EraseInactiveSlot, DownloadImage,
           ScheduleUpdate, ConfirmRunning, AppPersisted, ImageDecays,
           PersistControl, flashVars
  <2> QED BY <2>1, <2>2, <2>3, <2>4, <2>5
<1> QED BY <1>1, <1>2, PolicyInvariance, PTL
        DEF Spec, ImplementsPolicy, Policy!Spec

----------------------------------------------------------------------------
(* Power losses alone never stop the bootloader.                           *)

\* Without a hardware failure a call of PersistControl gets no error and has
\* written what it set out to write up to where it is.
CallProgresses ==
    persist.at # "idle" =>
        /\ persist.result = "OK"
        /\ persist.at = "verify_erased" =>
              Target = [u \in Units |-> Erased]
        /\ persist.at = "body" =>
              \A u \in BodyUnits : u < persist.unit => Target[u] = persist.state
        /\ persist.at \in {"verify_body", "commit"} =>
              \A u \in BodyUnits : Target[u] = persist.state
        /\ persist.at \in {"verify_final", "lock", "done"} => Written

AllReadable == \A r \in Records : Readable(flash[r])

ConfirmedUsable == Selected(flash).confirmed_slot \in Usable(Selected(flash))

ProgressInv ==
    faults = 0 => CallProgresses /\ AllReadable /\ pc # "halt"

\* Failures are only ever counted up.
LEMMA FaultsOnlyGrow ==
    ASSUME TypeOK, Next, faults' = 0
    PROVE  faults = 0 /\ ~Fault
<1>1. faults \in Nat
  BY DEF TypeOK, FlashTypeOK
<1>2. ~Fault
  BY <1>1 DEF Fault
<1>3. faults' = faults
  <2>1. BootStep => faults' = faults
    BY <1>2 DEF BootStep, BootStops, BootSelect, BootPersisted, BootRecovery,
                BootJump, PersistControl, flashVars
  <2>2. AppStep => faults' = faults
    BY DEF AppStep, EraseInactiveSlot, DownloadImage, ScheduleUpdate,
           ConfirmRunning, AppPersisted, PersistControl, flashVars
  <2>3. PersistStep => faults' = faults
    BY <1>2 DEF PersistStep, Unlock, EraseSector, VerifyErasedRecord,
                ProgramBody, ProgramUnit, VerifyBody, ProgramCommit,
                VerifyFinal, Finish
  <2>4. Reset \/ PowerLoss => faults' = faults
    BY DEF Reset, PowerLoss, Interrupted
  <2> QED BY <1>2, <2>1, <2>2, <2>3, <2>4 DEF Next, FlashStep, ImageDecays
<1> QED BY <1>2, <1>3

\* Each operation that does not fail does what it reports, so its check
\* succeeds.
LEMMA PersistProgresses ==
    ASSUME TypeOK, FlashInv, CallProgresses, PersistStep, ~Fault
    PROVE  CallProgresses'
<1>1. /\ flash \in Flash /\ persist \in Call /\ persist.at # "idle"
      /\ persist.result = "OK" /\ persist.state \in Control
      /\ persist'.target = persist.target /\ persist'.state = persist.state
  BY PersistKeepsCall DEF CallProgresses, TypeOK, FlashTypeOK, Flash,
                          RecordContents, Call
<1>2. Target \in RecordContents /\ persist.target \in Records
  BY <1>1, OtherIsARecord DEF Target, Flash
<1>3. CASE Unlock
  <2>1. persist'.at = "erase" /\ persist'.result = "OK"
    BY <1>1, <1>3 DEF Unlock, GoTo, Call
  <2> QED BY <2>1 DEF CallProgresses
<1>4. CASE EraseSector
  <2>1. persist'.at = "verify_erased" /\ persist'.result = "OK"
    BY <1>1, <1>4 DEF EraseSector, GoTo, Call
  <2>2. Target' = [u \in Units |-> Erased]
    BY <1>1, <1>2, <1>4 DEF EraseSector, SetTarget, Target, Flash
  <2> QED BY <2>1, <2>2 DEF CallProgresses
<1>5. CASE VerifyErasedRecord
  <2>1. Target = [u \in Units |-> Erased]
    BY <1>5 DEF VerifyErasedRecord, CallProgresses
  <2>2. persist'.at = "body" /\ persist'.result = "OK" /\ persist'.unit = 0
    BY <1>1, <1>5, <2>1 DEF VerifyErasedRecord, Call
  <2> QED BY <2>2 DEF CallProgresses, BodyUnits
<1>6. CASE ProgramBody
  <2>1. /\ persist.unit \in BodyUnits
        /\ \A u \in BodyUnits : u < persist.unit => Target[u] = persist.state
    BY <1>1, <1>6 DEF ProgramBody, FlashInv, CallProgresses
  <2>2. SetUnit(persist.unit, persist.state) /\ NextBodyUnit
    BY <1>6 DEF ProgramBody, ProgramUnit
  <2>3. Target' = [Target EXCEPT ![persist.unit] = persist.state]
    BY <1>1, <1>2, <2>2 DEF SetUnit, Target, Flash
  <2>4. \A u \in BodyUnits : u < persist.unit + 1 => Target'[u] = persist.state
    <3>1. BodyUnits \subseteq Units
      BY DEF BodyUnits, Units
    <3> QED BY <1>2, <2>1, <2>3, <3>1 DEF RecordContents, BodyUnits
  <2>5. /\ persist'.result = "OK" /\ persist'.unit = persist.unit + 1
        /\ persist'.at = IF persist.unit = 2 THEN "verify_body" ELSE "body"
    BY <1>1, <2>2 DEF NextBodyUnit, Call
  <2>6. persist.unit = 2 => \A u \in BodyUnits : u < persist.unit + 1
    BY DEF BodyUnits
  <2> QED BY <1>1, <2>4, <2>5, <2>6 DEF CallProgresses
<1>7. CASE VerifyBody
  <2>1. \A u \in BodyUnits : Target[u] = persist.state
    BY <1>1, <1>7 DEF VerifyBody, CallProgresses
  <2>2. /\ persist'.at = "commit" /\ persist'.result = "OK"
        /\ flash' = flash
    BY <1>1, <1>7, <2>1 DEF VerifyBody, GoTo, Call
  <2> QED BY <1>1, <2>1, <2>2 DEF CallProgresses, Target
<1>8. CASE ProgramCommit
  <2>1. \A u \in BodyUnits : Target[u] = persist.state
    BY <1>1, <1>8 DEF ProgramCommit, CallProgresses
  <2>2. SetUnit(CommitUnit, persist.state) /\ GoTo("verify_final")
    BY <1>8 DEF ProgramCommit, ProgramUnit
  <2>3. flash'[persist.target] = [Target EXCEPT ![CommitUnit] = persist.state]
    BY <1>1, <1>2, <2>2 DEF SetUnit, Target, Flash
  <2>4. \A u \in Units : flash'[persist.target][u] = persist.state
    <3>1. \A u \in Units : u = CommitUnit \/ u \in BodyUnits
      BY DEF BodyUnits, Units, CommitUnit
    <3> QED BY <1>2, <2>1, <2>3, <3>1 DEF RecordContents
  <2>5. persist'.at = "verify_final" /\ persist'.result = "OK"
    BY <1>1, <2>2 DEF GoTo, Call
  <2> QED BY <1>1, <2>4, <2>5 DEF CallProgresses, Written
<1>9. CASE VerifyFinal
  <2>1. \A u \in Units : Target[u] = persist.state
    BY <1>1, <1>9 DEF VerifyFinal, CallProgresses, Written, Target
  <2>2. /\ persist'.at = "lock" /\ persist'.result = "OK"
        /\ flash' = flash
    BY <1>1, <1>9, <2>1 DEF VerifyFinal, GoTo, Call
  <2> QED BY <1>1, <2>1, <2>2 DEF CallProgresses, Written, Target
<1>10. CASE Finish
  <2>1. /\ persist'.at = "done" /\ persist'.result = "OK"
        /\ flash' = flash
    BY <1>1, <1>10 DEF Finish, GoTo, Call
  <2> QED BY <1>1, <1>10, <2>1 DEF Finish, CallProgresses, Written
<1> QED BY <1>3, <1>4, <1>5, <1>6, <1>7, <1>8, <1>9, <1>10 DEF PersistStep

\* Nothing but a torn flashword is unreadable.
LEMMA NextReadable ==
    ASSUME TypeOK, AllReadable, Next, ~Fault, Unreadable \notin TornValues
    PROVE  AllReadable'
<1>1. flash \in Flash /\ persist \in Call /\ persist.state \in Control
  BY DEF TypeOK, FlashTypeOK, Flash, RecordContents, Call
<1>2. Erased # Unreadable /\ persist.state # Unreadable
  BY <1>1, FlashwordAssumption DEF Blank
<1>3. Target \in RecordContents /\ Readable(Target)
  BY <1>1, OtherIsARecord DEF AllReadable, Target, Flash
<1>4. ASSUME NEW record, SetTarget(record), Readable(record)
      PROVE  AllReadable'
  BY <1>1, <1>4 DEF AllReadable, SetTarget, Flash
<1>5. ASSUME NEW u, NEW value, SetUnit(u, value), value # Unreadable
      PROVE  AllReadable'
  <2> DEFINE record == [Target EXCEPT ![u] = value]
  <2>1. Readable(record)
    BY <1>3, <1>5 DEF Readable, RecordContents
  <2>2. SetTarget(record)
    BY <1>5 DEF SetUnit, SetTarget, Target
  <2> HIDE DEF record
  <2> QED BY <1>4, <2>1, <2>2
<1>6. ASSUME NEW record \in ErasedPartly(Target) PROVE Readable(record)
  BY <1>2, <1>3, <1>6 DEF ErasedPartly, Readable
<1>7. \A value \in ProgrammedPartly(persist.state) : value # Unreadable
  BY <1>2 DEF ProgrammedPartly
<1>8. CASE PersistStep
  <2>1. CASE EraseSector
    <3> DEFINE blank == [u \in Units |-> Erased]
    <3>1. SetTarget(blank) /\ Readable(blank)
      BY <1>2, <2>1 DEF EraseSector, Readable
    <3> HIDE DEF blank
    <3> QED BY <1>4, <3>1
  <2>2. CASE ProgramBody
    BY <1>2, <1>5, <2>2 DEF ProgramBody, ProgramUnit
  <2>3. CASE ProgramCommit
    BY <1>2, <1>5, <2>3 DEF ProgramCommit, ProgramUnit
  <2>4. CASE UNCHANGED flash
    BY <2>4 DEF AllReadable
  <2> QED BY <1>8, <2>1, <2>2, <2>3, <2>4
          DEF PersistStep, Unlock, VerifyErasedRecord, VerifyBody,
              VerifyFinal, Finish
<1>9. CASE PowerLoss
  <2>1. CASE UNCHANGED flash
    BY <2>1 DEF AllReadable
  <2>2. CASE \E record \in ErasedPartly(Target) : SetTarget(record)
    BY <1>4, <1>6, <2>2
  <2>3. CASE \E value \in ProgrammedPartly(persist.state) :
                SetUnit(persist.unit, value) \/ SetUnit(CommitUnit, value)
    BY <1>5, <1>7, <2>3
  <2> QED BY <1>9, <2>1, <2>2, <2>3 DEF PowerLoss, Interrupted
<1>10. CASE UNCHANGED flash
  BY <1>10 DEF AllReadable
<1>11. Next => PersistStep \/ PowerLoss \/ UNCHANGED flash
  BY DEF Next, BootStep, AppStep, BootStops, BootSelect, BootPersisted,
         BootRecovery, BootJump, EraseInactiveSlot, DownloadImage,
         ScheduleUpdate, ConfirmRunning, AppPersisted, FlashStep, Reset,
         ImageDecays, PersistControl, flashVars
<1> QED BY <1>8, <1>9, <1>10, <1>11

\* Replacing the state keeps the confirmed image usable, and confirming the
\* image on trial makes it so: that image is running.
LEMMA ReplacedKeepsConfirmed ==
    ASSUME IInv, RunsRecordedImage, Replaced, images' = images,
           \/ ConfirmedUsable
           \/ Selected(flash').confirmed_slot # Selected(flash).confirmed_slot
    PROVE  ConfirmedUsable'
<1> DEFINE s == Selected(flash)
           new == Selected(flash')
<1>1. s \in Control /\ IsStateValid(s)
  BY SelectedType
<1>2. CASE /\ new.confirmed_slot = s.confirmed_slot
           /\ new.minimum_security_counter = s.minimum_security_counter
           /\ new.confirmed_security_counter = s.confirmed_security_counter
           /\ new.confirmed_build_version = s.confirmed_build_version
  BY <1>2 DEF ConfirmedUsable, Usable, ImageMatchesState
<1>3. CASE new = Tried(s) /\ s.attempts_remaining > 0
  BY <1>1, <1>2, <1>3, TriedFields
<1>4. CASE new = Abandoned(s)
  BY <1>1, <1>2, <1>4, AbandonedFields
<1>5. CASE \E counter \in SecurityCounters, build \in BuildVersions :
              /\ CanSchedule(s, OtherSlot(running), counter)
              /\ new = Scheduled(s, OtherSlot(running), counter, build)
  BY <1>1, <1>2, <1>5, ImagesAssumption, ScheduledFields DEF CanSchedule
<1>6. CASE /\ pc = "app_persist" /\ running = s.pending_slot
           /\ new = Confirmed(s, running, s.pending_security_counter,
                              s.pending_build_version)
  <2>1. running \in Slots /\ running # "NONE"
    BY <1>6, OtherSlotIsOther DEF IInv, TypeOK, PcOK
  <2>2. /\ s.pending_security_counter \in Nat
        /\ s.pending_build_version \in Nat
        /\ s.confirmed_slot # running
    BY <1>1, <1>6, <2>1, OtherSlotIsOther DEF Control, IsStateValid
  <2>3. /\ images[running].good
        /\ images[running].security_counter = s.pending_security_counter
        /\ images[running].build_version = s.pending_build_version
    BY <1>6, <2>1, <2>2 DEF RunsRecordedImage
  <2>4. /\ new.confirmed_slot = running
        /\ new.minimum_security_counter = s.pending_security_counter
        /\ new.confirmed_security_counter = s.pending_security_counter
        /\ new.confirmed_build_version = s.pending_build_version
    BY <1>1, <1>6, <2>1, <2>2, ConfirmedFields
  <2> QED BY <2>1, <2>2, <2>3, <2>4
          DEF ConfirmedUsable, Usable, ImageMatchesState
<1> QED BY <1>3, <1>4, <1>5, <1>6 DEF Replaced

\* What the bootloader writes keeps the confirmed slot.
LEMMA BootKeepsConfirmedSlot ==
    ASSUME IInv, IInv', PolicyInv, FlashStep, pc = "boot_persist"
    PROVE  Selected(flash').confirmed_slot = Selected(flash).confirmed_slot
<1> DEFINE s == Selected(flash)
           new == Selected(flash')
<1>1. s \in Control /\ IsStateValid(s)
  BY SelectedType
<1>2. \/ new = s
      \/ new = Tried(s) /\ s.attempts_remaining > 0
      \/ new = Abandoned(s)
  BY StateIsReplaced DEF Replaced
<1> QED BY <1>1, <1>2, TriedFields, AbandonedFields

\* The only step that takes the confirmed image away is the erase that an
\* image on trial asks for.
LEMMA NextConfirmedUsable ==
    ASSUME IInv, IInv', PolicyInv, sacrificed \/ ConfirmedUsable, Next, ~Fault,
           ~sacrificed'
    PROVE  ConfirmedUsable'
<1> DEFINE s == Selected(flash)
           confirmed == s.confirmed_slot
<1>1. images \in [Slots -> Image]
  BY DEF IInv, TypeOK
<1>2. CASE FlashStep \/ PowerLoss
  <2>1. images' = images /\ CountsAgain
    BY <1>2 DEF FlashStep, PowerLoss
  <2>2. \/ ConfirmedUsable
        \/ Selected(flash').confirmed_slot # confirmed
    BY <2>1 DEF CountsAgain
  <2>3. CASE Selected(flash') = s
    BY <2>1, <2>2, <2>3 DEF ConfirmedUsable, Usable, ImageMatchesState
  <2>4. CASE Replaced
    BY <2>1, <2>2, <2>4, ReplacedKeepsConfirmed DEF PolicyInv
  <2> QED BY <1>2, <2>3, <2>4, StateIsReplaced
<1>3. ~(FlashStep \/ PowerLoss) => ~sacrificed
  BY DEF Next, BootStep, AppStep, BootStops, BootSelect, BootPersisted,
         BootRecovery, BootJump, EraseInactiveSlot, DownloadImage,
         ScheduleUpdate, ConfirmRunning, AppPersisted, Reset, ImageDecays
<1>4. CASE /\ ConfirmedUsable /\ flash' = flash
           /\ images'[confirmed] = images[confirmed]
  BY <1>4 DEF ConfirmedUsable, Usable, ImageMatchesState
<1>5. CASE EraseInactiveSlot \/ DownloadImage
  <2>1. running \in Slots /\ ~(FlashStep \/ PowerLoss)
    BY <1>5, PersistKeepsCall
       DEF EraseInactiveSlot, DownloadImage, FlashStep, PowerLoss, IInv,
           TypeOK, PcOK
  <2>2. /\ ConfirmedUsable /\ confirmed \in Slots /\ images[confirmed].good
    BY <1>3, <2>1 DEF ConfirmedUsable, Usable
  <2>3. OtherSlot(running) # confirmed
    <3>1. CASE EraseInactiveSlot
      BY <2>1, <3>1, OtherSlotIsOther DEF EraseInactiveSlot
    <3>2. CASE DownloadImage
      BY <2>2, <3>2 DEF DownloadImage, NoImage
    <3> QED BY <1>5, <3>1, <3>2
  <2>4. /\ flash' = flash
        /\ images' = [images EXCEPT ![OtherSlot(running)] =
                         images'[OtherSlot(running)]]
    BY <1>1, <1>5 DEF EraseInactiveSlot, DownloadImage, flashVars
  <2> QED BY <1>1, <1>4, <2>2, <2>3, <2>4
<1>6. CASE UNCHANGED <<flash, images>> /\ ~(FlashStep \/ PowerLoss)
  BY <1>3, <1>4, <1>6
<1>7. \/ EraseInactiveSlot \/ DownloadImage \/ FlashStep \/ PowerLoss
      \/ UNCHANGED <<flash, images>>
  <2>1. ~ImageDecays
    BY DEF ImageDecays
  <2> QED BY <2>1
          DEF Next, BootStep, AppStep, BootStops, BootSelect, BootPersisted,
              BootRecovery, BootJump, ScheduleUpdate, ConfirmRunning,
              AppPersisted, Reset, PersistControl, flashVars
<1> QED BY <1>2, <1>5, <1>6, <1>7

\* The boot that is under way ends, or has ended, in recovery mode.
RecoveryDecided ==
    \/ pc = "recovery"
    \/ decision = "RECOVERY" /\ pc \in {"boot_persist", "start"}

\* The bootloader decides for recovery mode only when the confirmed image is
\* not usable, and nothing it does before it gets there changes that.
LEMMA NextRecoveryDecided ==
    ASSUME IInv, IInv', PolicyInv, sacrificed \/ ConfirmedUsable,
           RecoveryDecided => sacrificed, Next, RecoveryDecided'
    PROVE  sacrificed'
<1>1. CASE BootSelect
  <2> DEFINE s == Selected(flash)
  <2>1. s \in Control /\ s.pending_slot # "RECOVERY"
    BY SelectedType, OtherSlotIsOther DEF Control
  <2>2. decision' = SelectBoot(s, Usable(s)).decision
    BY <1>1 DEF BootSelect
  <2>3. Usable(s) \subseteq Slots /\ "RECOVERY" \notin Slots
    BY DEF Usable, Slots
  <2>4. decision' = "RECOVERY"
    BY <1>1 DEF RecoveryDecided, BootSelect
  <2>5. ~ConfirmedUsable
    <3>1. CASE CanTry(s, Usable(s))
      BY <2>2, <2>3, <2>4, <3>1 DEF SelectBoot, CanTry
    <3>2. CASE ~CanTry(s, Usable(s))
      BY <2>2, <2>3, <2>4, <3>2 DEF SelectBoot, ConfirmedUsable
    <3> QED BY <3>1, <3>2
  <2> QED BY <1>1, <2>5 DEF BootSelect
<1>2. CASE FlashStep
  <2>1. RecoveryDecided /\ pc = "boot_persist"
    BY <1>2, PersistKeepsCall DEF FlashStep, RecoveryDecided, IInv, PcOK
  <2>2. Selected(flash').confirmed_slot = Selected(flash).confirmed_slot
    BY <1>2, <2>1, BootKeepsConfirmedSlot
  <2> QED BY <1>2, <2>1, <2>2 DEF FlashStep, CountsAgain
<1>3. CASE BootPersisted \/ BootRecovery
  BY <1>3 DEF BootPersisted, BootRecovery, RecoveryDecided
<1>4. CASE BootStops \/ BootJump \/ AppStep \/ Reset \/ PowerLoss
           \/ ImageDecays
  BY <1>4
     DEF BootStops, BootJump, AppStep, EraseInactiveSlot, DownloadImage,
         ScheduleUpdate, ConfirmRunning, AppLoads, AppPersisted, Reset,
         PowerLoss, ResetState, ImageDecays, RecoveryDecided
<1> QED BY <1>1, <1>2, <1>3, <1>4 DEF Next, BootStep

\* With readable records, a valid selected state and no failed operation, no
\* step of the bootloader gives up.
LEMMA NextNotHalted ==
    ASSUME IInv, CallProgresses, AllReadable, pc # "halt", Next, ~Fault
    PROVE  pc' # "halt"
<1>1. Loads(flash)
  BY SelectedType
<1>2. ~BootStops
  BY <1>1 DEF BootStops, AllReadable
<1>3. BootPersisted => pc' # "halt"
  BY DEF BootPersisted, CallProgresses
<1>4. BootSelect \/ BootRecovery \/ BootJump => pc' # "halt"
  BY DEF BootSelect, BootRecovery, BootJump
<1>5. AppStep => pc' # "halt"
  BY DEF AppStep, EraseInactiveSlot, DownloadImage, ScheduleUpdate,
         ConfirmRunning, AppPersisted
<1>6. FlashStep \/ Reset \/ PowerLoss \/ ImageDecays => pc' # "halt"
  BY DEF FlashStep, Reset, PowerLoss, ResetState, ImageDecays
<1> QED BY <1>2, <1>3, <1>4, <1>5, <1>6 DEF Next, BootStep

\* A word whose programming was interrupted still reads, as some mixture of
\* bits and not as an ECC error: then power losses alone, at any operation of
\* PersistControl and any number of times, never stop the bootloader.
THEOREM ProgressInvariance ==
    ASSUME Unreadable \notin TornValues
    PROVE  Spec => []ProgressInv
<1>1. Init => ProgressInv
  <2> SUFFICES ASSUME Init PROVE ProgressInv
    OBVIOUS
  <2>1. CallProgresses /\ pc # "halt"
    BY DEF Init, FlashInit, NoCall, CallProgresses
  <2>2. FactoryControl # Unreadable /\ Erased # Unreadable
    BY FactoryType, FlashwordAssumption DEF Blank
  <2>3. AllReadable
    BY <2>2 DEF Init, FlashInit, AllReadable, Readable
  <2> QED BY <2>1, <2>3 DEF ProgressInv
<1>2. IInv /\ ProgressInv /\ [Next]_vars => ProgressInv'
  <2> SUFFICES ASSUME IInv, ProgressInv, [Next]_vars, faults' = 0
               PROVE  CallProgresses' /\ AllReadable' /\ pc' # "halt"
    BY DEF ProgressInv
  <2>1. CASE Next
    <3>1. faults = 0 /\ ~Fault
      BY <2>1, FaultsOnlyGrow DEF IInv
    <3>2. CallProgresses /\ AllReadable /\ pc # "halt"
      BY <3>1 DEF ProgressInv
    <3>3. CallProgresses'
      <4>1. CASE FlashStep
        BY <3>1, <3>2, <4>1, PersistProgresses DEF FlashStep, IInv
      <4>2. CASE persist'.at \in {"idle", "unlock"} /\ persist'.result = "OK"
        BY <4>2 DEF CallProgresses
      <4>3. CASE UNCHANGED <<flash, persist>>
        BY <3>2, <4>3 DEF CallProgresses, Written, Target
      <4>4. \/ FlashStep \/ UNCHANGED <<flash, persist>>
            \/ persist'.at \in {"idle", "unlock"} /\ persist'.result = "OK"
        BY <2>1
           DEF Next, BootStep, AppStep, BootStops, BootSelect, BootPersisted,
               BootRecovery, BootJump, EraseInactiveSlot, DownloadImage,
               ScheduleUpdate, ConfirmRunning, AppPersisted, Reset, PowerLoss,
               Interrupted, ImageDecays, PersistControl, NoCall, flashVars
      <4> QED BY <4>1, <4>2, <4>3, <4>4
    <3>4. AllReadable'
      BY <2>1, <3>1, <3>2, NextReadable DEF IInv
    <3>5. pc' # "halt"
      BY <2>1, <3>1, <3>2, NextNotHalted
    <3> QED BY <3>3, <3>4, <3>5
  <2>2. CASE UNCHANGED vars
    BY <2>2 DEF vars, ProgressInv, CallProgresses, Written, Target,
                AllReadable
  <2> QED BY <2>1, <2>2
<1> QED BY <1>1, <1>2, Invariance, PTL DEF Spec

\* Then, too, the confirmed image that a rollback needs stays bootable and no
\* rollback ends in recovery mode, unless an image on trial erased it.
THEOREM FallbackIsKept ==
    ASSUME Unreadable \notin TornValues
    PROVE  Spec => []FallbackKept
<1> DEFINE Kept == faults = 0 => /\ sacrificed \/ ConfirmedUsable
                                 /\ RecoveryDecided => sacrificed
<1>1. Init => Kept
  BY InitSelects, FactoryAssumption
     DEF Init, ConfirmedUsable, FactoryControl, Initialize, Usable,
         ImageMatchesState, Slots, RecoveryDecided
<1>2. IInv /\ IInv' /\ PolicyInv /\ Kept /\ [Next]_vars => Kept'
  <2> SUFFICES ASSUME IInv, IInv', PolicyInv, Kept, [Next]_vars, faults' = 0
               PROVE  /\ sacrificed' \/ ConfirmedUsable'
                      /\ RecoveryDecided' => sacrificed'
    OBVIOUS
  <2>1. CASE Next
    <3>1. faults = 0 /\ ~Fault
      BY <2>1, FaultsOnlyGrow DEF IInv
    <3>2. ~sacrificed' => ConfirmedUsable'
      BY <2>1, <3>1, NextConfirmedUsable
    <3>3. RecoveryDecided' => sacrificed'
      BY <2>1, <3>1, NextRecoveryDecided
    <3> QED BY <3>2, <3>3
  <2>2. CASE UNCHANGED vars
    BY <2>2 DEF vars, ConfirmedUsable, Usable, ImageMatchesState,
                RecoveryDecided
  <2> QED BY <2>1, <2>2
<1>3. Spec => []Kept
  BY <1>1, <1>2, PolicyInvariance, PTL DEF Spec
<1>4. IInv /\ ProgressInv /\ Kept => FallbackKept
  <2> SUFFICES ASSUME IInv, ProgressInv, Kept, faults = 0
               PROVE  /\ pc # "halt"
                      /\ ~sacrificed => ConfirmedUsable /\ pc # "recovery"
    BY DEF FallbackKept, PowerLossIsSurvived, ConfirmedUsable
  <2> QED BY DEF ProgressInv, RecoveryDecided
<1> QED BY <1>3, <1>4, ProgressInvariance, Invariance, PTL
=============================================================================
