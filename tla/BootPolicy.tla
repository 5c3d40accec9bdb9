----------------------------- MODULE BootPolicy ----------------------------
(***************************************************************************)
(* What the boot manager promises: a single control state, replaced        *)
(* atomically, in which an update is scheduled, tried a bounded number of  *)
(* times, and either confirmed or abandoned (the update and rollback       *)
(* policy of docs/BOOTLOADER_ARCHITECTURE.md, with the transitions of      *)
(* boot_control.c).  BootSystem implements it with two flash records.      *)
(***************************************************************************)
EXTENDS BootControl

CONSTANTS
    FactorySecurityCounter, FactoryBuildVersion,
    SecurityCounters, BuildVersions \* of the images that exist

VARIABLES
    store,   \* the control state
    running, \* the slot that is executing
    trials   \* jumps to the pending image so far

vars == <<store, running, trials>>

Init ==
    /\ store = Initialize("A", FactorySecurityCounter, FactoryBuildVersion)
    /\ running = "NONE"
    /\ trials = 0

\* A reset may come together with the step that changes the store.
MaybeStop == running' \in {running, "NONE"}

Schedule ==
    /\ running = store.confirmed_slot
    /\ \E counter \in SecurityCounters, build \in BuildVersions :
          /\ CanSchedule(store, OtherSlot(running), counter)
          /\ store' = Scheduled(store, OtherSlot(running), counter, build)
    /\ trials' = 0
    /\ MaybeStop

Try ==
    /\ running = "NONE"
    /\ store.pending_slot # "NONE" /\ store.attempts_remaining > 0
    /\ store' = Tried(store)
    /\ UNCHANGED <<running, trials>>

Abandon ==
    /\ running = "NONE"
    /\ store.pending_slot # "NONE"
    /\ store' = Abandoned(store)
    /\ trials' = 0
    /\ UNCHANGED running

Confirm ==
    /\ running # "NONE" /\ running = store.pending_slot
    /\ store' = Confirmed(store, running, store.pending_security_counter,
                          store.pending_build_version)
    /\ trials' = 0
    /\ MaybeStop

StartConfirmed ==
    /\ running = "NONE"
    /\ store.pending_slot = "NONE"
    /\ running' = store.confirmed_slot
    /\ UNCHANGED <<store, trials>>

\* Only after an attempt was taken from the store.
StartPending ==
    /\ running = "NONE"
    /\ store.pending_slot # "NONE"
    /\ trials + store.attempts_remaining < MaxPendingAttempts
    /\ running' = store.pending_slot
    /\ trials' = trials + 1
    /\ UNCHANGED store

Stop ==
    /\ running' = "NONE"
    /\ UNCHANGED <<store, trials>>

Next ==
    \/ Schedule \/ Try \/ Abandon \/ Confirm
    \/ StartConfirmed \/ StartPending \/ Stop

Spec == Init /\ [][Next]_vars
=============================================================================
