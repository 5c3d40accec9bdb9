----------------------------- MODULE BootFlash -----------------------------
(***************************************************************************)
(* Boot_Flash_PersistControl (Core/Src/boot_flash.c) over the STM32H7A3    *)
(* flash adapter (Core/Src/boot_flash_stm32.c): the control state is       *)
(* written into one of two flash records, one hardware operation per step, *)
(* so that power can be lost in the middle of any of them and any of them  *)
(* can fail.                                                               *)
(*                                                                         *)
(* A C call in progress is the record `persist`; persist.at names the      *)
(* operation it is about to perform and persist.result the error that is   *)
(* carried to Boot_Flash_Finish, which locks the flash on every path.      *)
(* This module has no behaviour of its own: BootSystem calls it.           *)
(***************************************************************************)
EXTENDS BootRecords

CONSTANTS
    TornValues,   \* how an interrupted flashword can read afterwards
    MaxFaults,    \* bound: failures of the flash hardware or its driver
    MaxPowerLoss, \* bound: resets in the middle of a flash operation
    FactorySecurityCounter, FactoryBuildVersion \* the image a device ships with

ASSUME TornAssumption == TornValues \in SUBSET {Corrupt, Unreadable}
ASSUME FaultsAssumption == MaxFaults \in Nat /\ MaxPowerLoss \in Nat
ASSUME FactoryAssumption ==
    FactorySecurityCounter \in Nat /\ FactoryBuildVersion \in Nat

VARIABLES
    flash,      \* record -> flashword -> control state or blank
    unlocked,   \* boot_flash_stm32_unlocked
    persist,    \* the call of PersistControl in progress, if any
    faults,     \* hardware failures so far
    powerLosses \* interrupted flash operations so far

flashVars == <<flash, unlocked, persist, faults, powerLosses>>

PersistSteps == {"idle", "unlock", "erase", "verify_erased", "body",
                 "verify_body", "commit", "verify_final", "lock", "done"}

Results == {"OK", "UNLOCK_FAILED", "ERASE_FAILED", "ERASE_VERIFY_FAILED",
            "BODY_PROGRAM_FAILED", "BODY_VERIFY_FAILED",
            "COMMIT_PROGRAM_FAILED", "FINAL_VERIFY_FAILED", "LOCK_FAILED"}

FlashTypeOK ==
    /\ flash \in [Records -> [Units -> Control \cup Blank]]
    /\ unlocked \in BOOLEAN
    /\ persist \in [at : PersistSteps, state : Control, target : Records,
                    unit : Nat, result : Results]
    /\ faults \in Nat
    /\ powerLosses \in Nat

FactoryControl ==
    Initialize("A", FactorySecurityCounter, FactoryBuildVersion)

NoCall == [at |-> "idle", state |-> FactoryControl, target |-> 0, unit |-> 0,
           result |-> "OK"]

\* A factory-programmed device: record 0 committed, record 1 never written.
FlashInit ==
    /\ flash = [r \in Records |->
                   [u \in Units |-> IF r = 0 THEN FactoryControl ELSE Erased]]
    /\ unlocked = FALSE
    /\ persist = NoCall
    /\ faults = 0
    /\ powerLosses = 0

----------------------------------------------------------------------------
(* Boot_Flash_Stm32Read first runs the flash CRC engine over the range and *)
(* returns 0 when that reports an ECC error.                               *)
Readable(record) == \A u \in Units : record[u] # Unreadable

\* What a record can hold after its erase was interrupted, failed, or did
\* not do what it reported: any of its words erased or damaged.
ErasedPartly(record) ==
    { [u \in Units |-> IF u \in hit THEN v ELSE record[u]] :
        hit \in SUBSET Units, v \in TornValues \cup {Erased} }

\* The same for a flashword that was being programmed with s.
ProgrammedPartly(s) == TornValues \cup {Erased, s}

Target == flash[persist.target]

SetTarget(record) == flash' = [flash EXCEPT ![persist.target] = record]

SetUnit(u, value) ==
    flash' = [flash EXCEPT ![persist.target] =
                 [@ EXCEPT ![u] = value]]

GoTo(step) == persist' = [persist EXCEPT !.at = step]

\* Leave for Boot_Flash_Finish carrying an error.
FinishWith(result) ==
    persist' = [persist EXCEPT !.at = "lock", !.result = result]

Fault == faults < MaxFaults /\ faults' = faults + 1

----------------------------------------------------------------------------
\* The call: PrepareRecord accepts the state, the target is one record.
PersistControl(s, target) ==
    /\ persist.at = "idle"
    /\ IsStateValid(s)
    /\ persist' = [at |-> "unlock", state |-> s, target |-> target,
                   unit |-> 0, result |-> "OK"]
    /\ UNCHANGED <<flash, unlocked, faults, powerLosses>>

Unlock ==
    /\ persist.at = "unlock"
    /\ \/ GoTo("erase") /\ unlocked' = TRUE /\ UNCHANGED faults
       \/ Fault /\ FinishWith("UNLOCK_FAILED") /\ UNCHANGED unlocked
    /\ UNCHANGED <<flash, powerLosses>>

EraseSector ==
    /\ persist.at = "erase"
    /\ \/ /\ GoTo("verify_erased")
          /\ SetTarget([u \in Units |-> Erased])
          /\ UNCHANGED faults
       \/ /\ Fault
          /\ \E record \in ErasedPartly(Target) : SetTarget(record)
          /\ GoTo("verify_erased") \/ FinishWith("ERASE_FAILED")
    /\ UNCHANGED <<unlocked, powerLosses>>

VerifyErasedRecord ==
    /\ persist.at = "verify_erased"
    /\ \/ /\ Target = [u \in Units |-> Erased]
          /\ persist' = [persist EXCEPT !.at = "body", !.unit = 0]
          /\ UNCHANGED faults
       \/ /\ Target # [u \in Units |-> Erased]
          /\ FinishWith("ERASE_VERIFY_FAILED")
          /\ UNCHANGED faults
       \/ Fault /\ FinishWith("ERASE_VERIFY_FAILED")
    /\ UNCHANGED <<flash, unlocked, powerLosses>>

\* Programming one flashword; `next` is taken on success.
ProgramUnit(u, next, error) ==
    /\ \/ SetUnit(u, persist.state) /\ next /\ UNCHANGED faults
       \/ /\ Fault
          /\ \E value \in ProgrammedPartly(persist.state) : SetUnit(u, value)
          /\ next \/ FinishWith(error)
    /\ UNCHANGED <<unlocked, powerLosses>>

NextBodyUnit ==
    persist' = [persist EXCEPT
                   !.at = IF persist.unit = 2 THEN "verify_body" ELSE "body",
                   !.unit = persist.unit + 1]

ProgramBody ==
    /\ persist.at = "body"
    /\ ProgramUnit(persist.unit, NextBodyUnit, "BODY_PROGRAM_FAILED")

VerifyBody ==
    /\ persist.at = "verify_body"
    /\ \/ /\ \A u \in BodyUnits : Target[u] = persist.state
          /\ GoTo("commit")
          /\ UNCHANGED faults
       \/ /\ \E u \in BodyUnits : Target[u] # persist.state
          /\ FinishWith("BODY_VERIFY_FAILED")
          /\ UNCHANGED faults
       \/ Fault /\ FinishWith("BODY_VERIFY_FAILED")
    /\ UNCHANGED <<flash, unlocked, powerLosses>>

ProgramCommit ==
    /\ persist.at = "commit"
    /\ ProgramUnit(CommitUnit, GoTo("verify_final"), "COMMIT_PROGRAM_FAILED")

VerifyFinal ==
    /\ persist.at = "verify_final"
    /\ \/ /\ \A u \in Units : Target[u] = persist.state
          /\ GoTo("lock")
          /\ UNCHANGED faults
       \/ /\ \E u \in Units : Target[u] # persist.state
          /\ FinishWith("FINAL_VERIFY_FAILED")
          /\ UNCHANGED faults
       \/ Fault /\ FinishWith("FINAL_VERIFY_FAILED")
    /\ UNCHANGED <<flash, unlocked, powerLosses>>

\* Boot_Flash_Finish: a lock that fails hides the error it was called with.
Finish ==
    /\ persist.at = "lock"
    /\ \/ GoTo("done") /\ unlocked' = FALSE /\ UNCHANGED faults
       \/ /\ Fault
          /\ persist' = [persist EXCEPT !.at = "done", !.result = "LOCK_FAILED"]
          /\ UNCHANGED unlocked
    /\ UNCHANGED <<flash, powerLosses>>

PersistStep ==
    \/ Unlock \/ EraseSector \/ VerifyErasedRecord
    \/ ProgramBody \/ VerifyBody
    \/ ProgramCommit \/ VerifyFinal \/ Finish

----------------------------------------------------------------------------
\* What a reset leaves of the operation that was running.  Flash keeps its
\* words, possibly torn; the lock and the call are gone.
Interrupted ==
    /\ \/ persist.at \notin {"erase", "body", "commit"} /\ UNCHANGED flash
       \/ /\ persist.at = "erase"
          /\ \E record \in ErasedPartly(Target) : SetTarget(record)
       \/ /\ persist.at = "body"
          /\ \E value \in ProgrammedPartly(persist.state) :
                SetUnit(persist.unit, value)
       \/ /\ persist.at = "commit"
          /\ \E value \in ProgrammedPartly(persist.state) :
                SetUnit(CommitUnit, value)
    /\ unlocked' = FALSE
    /\ persist' = NoCall
    /\ UNCHANGED faults
=============================================================================
