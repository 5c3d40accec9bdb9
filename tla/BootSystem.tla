----------------------------- MODULE BootSystem ----------------------------
(***************************************************************************)
(* A device with two application slots: Boot_Target_Run (boot_target.c)    *)
(* decides after every reset which image to start, and the application it  *)
(* starts can erase and rewrite the other slot (uds_download.c), schedule  *)
(* it with Boot_Control_ScheduleUpdate and confirm itself with             *)
(* Boot_Control_ConfirmRunning.  Both go through PersistControl.           *)
(*                                                                         *)
(* The finalizer that schedules an update and the application code that    *)
(* confirms one are not in the repository yet; they are modelled from      *)
(* docs/BOOTLOADER_ARCHITECTURE.md: load both records, apply the policy    *)
(* function, persist into the record that was not selected.                *)
(***************************************************************************)
EXTENDS BootFlash

CONSTANTS
    SecurityCounters,     \* security counters of the images that exist
    BuildVersions         \* build versions of the images that exist

ASSUME ImagesAssumption ==
    /\ SecurityCounters \subseteq Nat /\ FactorySecurityCounter \in SecurityCounters
    /\ BuildVersions \subseteq Nat /\ FactoryBuildVersion \in BuildVersions

VARIABLES
    images,    \* slot -> image
    pc,        \* who is executing
    decision,  \* Boot_Decision_t of the current boot
    running,   \* slot of the application that was jumped to
    trials,    \* history: jumps to the image that is pending now
    sacrificed \* history: an image on trial has erased the confirmed one

vars == <<flash, unlocked, persist, faults, powerLosses,
          images, pc, decision, running, trials, sacrificed>>

\* good: signature, digest, addresses and vectors all verify.
Image == [good : BOOLEAN, security_counter : Nat, build_version : Nat]
NoImage == [good |-> FALSE, security_counter |-> 0, build_version |-> 0]

TypeOK ==
    /\ FlashTypeOK
    /\ images \in [Slots -> Image]
    /\ pc \in {"reset", "boot_persist", "start", "run", "app_persist",
               "recovery", "halt"}
    /\ decision \in Slots \cup {"RECOVERY"}
    /\ running \in Slots \cup {"NONE"}
    /\ trials \in Nat
    /\ sacrificed \in BOOLEAN

Init ==
    /\ FlashInit
    /\ images = [slot \in Slots |->
                    IF slot = "A"
                    THEN [good |-> TRUE,
                          security_counter |-> FactorySecurityCounter,
                          build_version |-> FactoryBuildVersion]
                    ELSE NoImage]
    /\ pc = "reset"
    /\ decision = "RECOVERY"
    /\ running = "NONE"
    /\ trials = 0
    /\ sacrificed = FALSE

----------------------------------------------------------------------------
(* The bootloader: Boot_Target_Run.                                        *)

\* Slip: the recorded security counter is not compared.
SlipBuildMatchesState(slot, s, image) ==
    image.build_version = IF slot = s.confirmed_slot
                          THEN s.confirmed_build_version
                          ELSE s.pending_build_version

ImageMatchesState(slot, s, image) ==
    IF slot = s.confirmed_slot
    THEN /\ image.security_counter = s.confirmed_security_counter
         /\ image.build_version = s.confirmed_build_version
    ELSE /\ slot = s.pending_slot
         /\ image.security_counter = s.pending_security_counter
         /\ image.build_version = s.pending_build_version

\* Boot_Image_Validate with the persistent minimum, then the identity check.
Usable(s) ==
    { slot \in Slots :
        /\ images[slot].good
        /\ images[slot].security_counter >= s.minimum_security_counter
        /\ ImageMatchesState(slot, s, images[slot]) }

\* platform->read fails for either record (CONTROL_READ_FAILED), because it
\* cannot be read or the flash driver fails, or Boot_Control_Load refuses
\* them both (CONTROL_INVALID).
BootStops ==
    /\ pc = "reset"
    /\ \/ /\ (\E r \in Records : ~Readable(flash[r])) \/ ~Loads(flash)
          /\ UNCHANGED faults
       \/ Fault
    /\ pc' = "halt"
    /\ UNCHANGED <<flash, unlocked, persist, powerLosses,
                   images, decision, running, trials, sacrificed>>

BootSelect ==
    /\ pc = "reset"
    /\ \A r \in Records : Readable(flash[r])
    /\ Loads(flash)
    /\ LET s == Selected(flash)
           boot == SelectBoot(s, Usable(s))
       IN  /\ decision' = boot.decision
           /\ IF boot.state = s
              THEN pc' = "start" /\ UNCHANGED flashVars
              ELSE /\ pc' = "boot_persist"
                   /\ PersistControl(boot.state, OtherRecord(flash))
    /\ UNCHANGED <<images, running, trials, sacrificed>>

\* Slip: the jump does not wait for the state change to be in flash.
SlipBootIgnoresPersistResult ==
    /\ pc = "boot_persist"
    /\ persist.at = "done"
    /\ pc' = "start"
    /\ persist' = NoCall
    /\ UNCHANGED <<flash, unlocked, faults, powerLosses,
                   images, decision, running, trials, sacrificed>>

\* A state change that did not reach flash stops the boot.
BootPersisted ==
    /\ pc = "boot_persist"
    /\ persist.at = "done"
    /\ pc' = IF persist.result = "OK" THEN "start" ELSE "halt"
    /\ persist' = NoCall
    /\ UNCHANGED <<flash, unlocked, faults, powerLosses,
                   images, decision, running, trials, sacrificed>>

BootRecovery ==
    /\ pc = "start"
    /\ decision = "RECOVERY"
    /\ pc' = "recovery"
    /\ UNCHANGED <<flashVars, images, decision, running, trials, sacrificed>>

\* Boot_Jump_Prepare accepts every plan Boot_Image_Validate produces; the
\* jump itself is cancelled when the peripherals cannot be quiesced.
BootJump ==
    /\ pc = "start"
    /\ decision \in Slots
    /\ \/ /\ pc' = "run"
          /\ running' = decision
          /\ trials' = IF decision = PendingIn(flash)
                       THEN trials + 1 ELSE trials
          /\ UNCHANGED faults
       \/ /\ Fault
          /\ pc' = "halt"
          /\ UNCHANGED <<running, trials>>
    /\ UNCHANGED <<flash, unlocked, persist, powerLosses, images, decision,
                   sacrificed>>

----------------------------------------------------------------------------
(* The running application.                                                *)

\* UDS routine 0xFF00: the target is the slot opposite the running one, also
\* when the running image is not confirmed and the other slot holds the
\* image to fall back to.
EraseInactiveSlot ==
    /\ pc = "run"
    /\ images' = [images EXCEPT ![OtherSlot(running)] = NoImage]
    /\ sacrificed' =
          (sacrificed \/ running # Selected(flash).confirmed_slot)
    /\ UNCHANGED <<flashVars, pc, decision, running, trials>>

\* Slip: a download does not ask for an erase before it.
SlipDownloadOverImage ==
    /\ pc = "run"
    /\ \E counter \in SecurityCounters, build \in BuildVersions :
          images' = [images EXCEPT ![OtherSlot(running)] =
                        [good |-> TRUE, security_counter |-> counter,
                         build_version |-> build]]
    /\ UNCHANGED <<flashVars, pc, decision, running, trials, sacrificed>>

\* RequestDownload .. TransferExit: a complete image is in the erased slot.
DownloadImage ==
    /\ pc = "run"
    /\ images[OtherSlot(running)] = NoImage
    /\ \E counter \in SecurityCounters, build \in BuildVersions :
          images' = [images EXCEPT ![OtherSlot(running)] =
                        [good |-> TRUE, security_counter |-> counter,
                         build_version |-> build]]
    /\ UNCHANGED <<flashVars, pc, decision, running, trials, sacrificed>>

\* The application has read and loaded the control records.
AppLoads ==
    /\ pc = "run"
    /\ \A r \in Records : Readable(flash[r])
    /\ Loads(flash)

ScheduleUpdate ==
    /\ AppLoads
    /\ LET s == Selected(flash)
           target == OtherSlot(running)
           image == images[target]
       IN  /\ image.good
           /\ CanSchedule(s, target, image.security_counter)
           /\ PersistControl(Scheduled(s, target, image.security_counter,
                                       image.build_version),
                             OtherRecord(flash))
    /\ pc' = "app_persist"
    /\ UNCHANGED <<images, decision, running, trials, sacrificed>>

ConfirmRunning ==
    /\ AppLoads
    /\ LET s == Selected(flash)
           image == images[running]
       IN  /\ CanConfirm(s, running, image.security_counter,
                         image.build_version)
           /\ PersistControl(Confirmed(s, running, image.security_counter,
                                       image.build_version),
                             OtherRecord(flash))
    /\ pc' = "app_persist"
    /\ UNCHANGED <<images, decision, running, trials, sacrificed>>

AppPersisted ==
    /\ pc = "app_persist"
    /\ persist.at = "done"
    /\ pc' = "run"
    /\ persist' = NoCall
    /\ UNCHANGED <<flash, unlocked, faults, powerLosses,
                   images, decision, running, trials, sacrificed>>

----------------------------------------------------------------------------
(* A step of the flash driver on behalf of either.  The history variables  *)
(* follow the selected record: the trials start again when the record of a *)
(* new pending image becomes valid, and once another slot is confirmed it  *)
(* holds the running image, which nobody has erased.                       *)
CountsAgain ==
    /\ trials' = IF "NONE" \in {PendingIn(flash), PendingIn(flash')}
                 THEN 0 ELSE trials
    /\ sacrificed' = (/\ sacrificed
                      /\ Selected(flash').confirmed_slot =
                            Selected(flash).confirmed_slot)

FlashStep ==
    /\ PersistStep
    /\ CountsAgain
    /\ UNCHANGED <<images, pc, decision, running>>

(***************************************************************************)
(* Resets: the watchdog or the user while no flash operation is running,   *)
(* or a power loss that interrupts one.  All RAM is lost.                  *)
(***************************************************************************)
ResetState ==
    /\ pc' = "reset"
    /\ decision' = "RECOVERY"
    /\ running' = "NONE"

Reset ==
    /\ pc \in {"run", "recovery", "halt"}
    /\ ResetState
    /\ unlocked' = FALSE
    /\ UNCHANGED <<flash, persist, faults, powerLosses, images, trials,
                   sacrificed>>

PowerLoss ==
    /\ pc \in {"boot_persist", "app_persist"}
    /\ powerLosses < MaxPowerLoss
    /\ powerLosses' = powerLosses + 1
    /\ Interrupted
    /\ CountsAgain
    /\ ResetState
    /\ UNCHANGED images

\* Flash ages: an image that verified no longer does.
ImageDecays ==
    /\ pc \in {"reset", "run"}
    /\ Fault
    /\ \E slot \in Slots \ {running} :
          /\ images[slot].good
          /\ images' = [images EXCEPT ![slot].good = FALSE]
    /\ UNCHANGED <<flash, unlocked, persist, powerLosses,
                   pc, decision, running, trials, sacrificed>>

BootStep ==
    \/ BootStops \/ BootSelect
    \/ BootPersisted \/ BootRecovery \/ BootJump

AppStep ==
    \/ EraseInactiveSlot \/ DownloadImage
    \/ ScheduleUpdate \/ ConfirmRunning \/ AppPersisted

Next ==
    \/ BootStep \/ AppStep \/ FlashStep
    \/ Reset \/ PowerLoss \/ ImageDecays

Spec == Init /\ [][Next]_vars

----------------------------------------------------------------------------
(* Safety.                                                                 *)

\* Whatever step of PersistControl is interrupted or fails, Boot_Control_Load
\* finds a record it accepts: never two bad records, never a conflict.
ControlSurvives == Loads(flash)

\* Only an image recorded as confirmed or pending, with exactly the recorded
\* security counter and build, is ever executing.
RunsRecordedImage ==
    running # "NONE" =>
        LET s == Selected(flash)
            image == images[running]
        IN  /\ image.good
            /\ image.security_counter >= s.minimum_security_counter
            /\ <<running, image.security_counter, image.build_version>> \in
                 { <<s.confirmed_slot, s.confirmed_security_counter,
                     s.confirmed_build_version>>,
                   <<s.pending_slot, s.pending_security_counter,
                     s.pending_build_version>> }

\* A pending image is started at most MaxPendingAttempts times: the attempt
\* is on record before the jump, however boots and power losses interleave.
TrialBudget ==
    PendingIn(flash) # "NONE" =>
        trials + Selected(flash).attempts_remaining <= MaxPendingAttempts

\* Without a hardware failure, interrupting flash operations alone never
\* stops the bootloader: the older generation remains selected.
PowerLossIsSurvived == faults = 0 => pc # "halt"

\* Without a hardware failure power loss never stops the bootloader, the
\* confirmed image stays bootable, and a rollback ends in recovery mode, only
\* if an image on trial has itself erased the slot it would be rolled back to
\* (the erase routine asks for the slot that runs, not whether it is
\* confirmed).
FallbackKept ==
    /\ PowerLossIsSurvived
    /\ faults = 0 /\ ~sacrificed =>
          /\ Selected(flash).confirmed_slot \in Usable(Selected(flash))
          /\ pc # "recovery"

(***************************************************************************)
(* Fairness: the bootloader and the flash driver keep executing, and a     *)
(* device that has an update pending is eventually reset: by the user at   *)
(* the end of the download, or by the independent watchdog when the image  *)
(* on trial hangs.  Nothing forces an application to confirm itself.       *)
(***************************************************************************)
ResetWithPending == PendingIn(flash) # "NONE" /\ Reset

Fairness ==
    /\ WF_vars(BootStep)
    /\ WF_vars(AppPersisted)
    /\ WF_vars(FlashStep)
    /\ WF_vars(ResetWithPending)

FairSpec == Spec /\ Fairness

\* An update does not stay pending for ever, whether it boots, hangs or is
\* interrupted: it is confirmed or abandoned.
PendingSettles == PendingIn(flash) # "NONE" ~> PendingIn(flash) = "NONE"

\* The anti-rollback minimum of the selected record never decreases.
AntiRollback ==
    [][Selected(flash').minimum_security_counter >=
       Selected(flash).minimum_security_counter]_vars

\* Two records, twelve flash operations and resets anywhere behave like one
\* control state that is replaced atomically.
Policy == INSTANCE BootPolicy WITH store <- Selected(flash)
ImplementsPolicy == Policy!Spec

\* The bootloader never hands over with the flash controller unlocked.
JumpsWithFlashLocked ==
    [][running = "NONE" /\ running' # "NONE" => ~unlocked]_vars
=============================================================================
