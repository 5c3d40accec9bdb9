--------------------------- MODULE ResetEvidence ---------------------------
(***************************************************************************)
(* What a run of the application leaves behind for the next one, and the   *)
(* watchdog that ends a run that hangs: app_reset_reason.c, app_fault.c,   *)
(* app_watchdog.c and app_watchdog_evidence.c of Core/Src, in the order in *)
(* which main.c calls them.                                                *)
(*                                                                         *)
(* Two records are kept in backup SRAM.  A watchdog reset leaves no time   *)
(* to write anything: the evidence is therefore written ahead, after each  *)
(* refresh, and taken for true when the watchdog strikes.  The fault       *)
(* record is written by the exception handler before it resets.            *)
(*                                                                         *)
(* A reset can come between any two steps, also in the middle of a record. *)
(* A record is a marker, whether its content is whole, which is what the   *)
(* checksum tells, and the number of the run that wrote it.  The data      *)
(* cache is never switched on, so that stores reach the SRAM in the order  *)
(* of the program.  HAL_IWDG_Refresh cannot fail.                          *)
(***************************************************************************)
EXTENDS Integers

CONSTANTS
    Timeout,    \* APP_WATCHDOG_TIMEOUT_NOMINAL_MS, in ticks
    Period,     \* APP_WATCHDOG_REFRESH_PERIOD_MS, in ticks
    MaxRuns     \* bound: runs that are looked at

ASSUME WatchdogAssumption ==
    /\ Period \in Nat \ {0} /\ Timeout \in Nat /\ Timeout > Period
    /\ MaxRuns \in Nat \ {0}

VARIABLES
    evidence,       \* app_watchdog_retained_record
    fault,          \* app_fault_retained_record
    flags,          \* the reset flags of RCC->RSR
    iwdg,           \* the watchdog: ticks since it was refreshed, or Off
    at,             \* the next step of the program
    ready,          \* whose storage_ready is set
    was_iwdg,       \* App_ResetReason_WasIwdgReset
    report,         \* g_appWatchdogResetEvidence: the run it is about, or 0
    fault_report,   \* app_fault_snapshot: the run it is about, or 0
    since_check,    \* ticks since last_health_check_tick, up to Period
    observed,       \* observed_heartbeat_mask
    can,            \* g_canAppState.available, once it is known
    run,            \* history: this run
    silent,         \* history: ticks since App_Watchdog_Process ran last
    startup,        \* history: of these, until App_Watchdog_Init
    wrote,          \* history: the evidence of this run is complete
    watched,        \* history: the last run before this one with a watchdog
    faults          \* history: the fault that was, and that should be reported

retained == <<evidence, fault, flags>>
reports == <<was_iwdg, report, fault_report>>
dog == <<iwdg, since_check, observed, silent, startup>>
history == <<run, wrote, watched, faults>>
vars == <<retained, reports, dog, history, at, ready, can>>

Off == -1
Heartbeats == {"main_loop", "can_app", "rtc_service"}

Records == [marker : BOOLEAN, whole : BOOLEAN, run : 0 .. MaxRuns]

NoRecord == [marker |-> FALSE, whole |-> FALSE, run |-> 0]

Init ==
    /\ evidence = NoRecord /\ fault = NoRecord /\ flags = {"power"}
    /\ iwdg = Off /\ since_check = 0 /\ observed = {}
    /\ silent = 0 /\ startup = 0
    /\ at = "boot" /\ ready = {} /\ can = "unknown"
    /\ was_iwdg = FALSE /\ report = 0 /\ fault_report = 0
    /\ run = 1 /\ wrote = FALSE
    /\ watched = [run |-> 0, end |-> "none", ready |-> FALSE, wrote |-> FALSE,
                  captures |-> 0]
    /\ faults = [written |-> 0, due |-> 0]

\* App_Watchdog_Evidence_IsRecordValid and App_Fault_IsRecordValid.
IsRecordValid(record) == record.marker /\ record.whole

----------------------------------------------------------------------------
(* Resets. *)

\* What every reset does to the program; the new run starts at "boot".
Restart ==
    /\ run < MaxRuns /\ run' = run + 1
    /\ at' = "boot" /\ ready' = {} /\ can' = "unknown"
    /\ was_iwdg' = FALSE /\ report' = 0 /\ fault_report' = 0
    /\ iwdg' = Off /\ since_check' = 0 /\ observed' = {}
    /\ silent' = 0 /\ startup' = 0 /\ wrote' = FALSE

\* The flags are sticky.
Reset(end) ==
    /\ Restart
    /\ flags' = flags \cup {end}
    /\ watched' = IF iwdg = Off
                  THEN watched
                  ELSE [run |-> run, end |-> end, ready |-> "evidence" \in ready,
                        wrote |-> wrote, captures |-> 0]
    /\ UNCHANGED <<evidence, fault, faults>>

WatchdogReset == iwdg = Timeout /\ Reset("iwdg")

PinReset == Reset("pin")

\* Without supply, the backup SRAM and the flags are lost.
PowerCycle ==
    /\ Restart
    /\ evidence' = NoRecord /\ fault' = NoRecord /\ flags' = {"power"}
    /\ watched' = [watched EXCEPT !.end = "power", !.wrote = FALSE]
    /\ faults' = [faults EXCEPT !.written = 0]

Tick ==
    /\ iwdg # Timeout
    /\ iwdg' = IF iwdg = Off THEN Off ELSE iwdg + 1
    /\ since_check' = IF since_check < Period THEN since_check + 1 ELSE since_check
    /\ silent' = IF silent < Timeout THEN silent + 1 ELSE silent
    /\ startup' = IF at = "init" THEN startup + 1 ELSE startup
    /\ UNCHANGED <<retained, reports, observed, history, at, ready, can>>

----------------------------------------------------------------------------
(* The start of a run, main.c. *)

\* A mutated WasIwdgReset: only a flag that is set alone counts.
SlipWasIwdgReset == flags = {"iwdg"}

\* App_ResetReason_WasIwdgReset.
WasIwdgReset == "iwdg" \in flags

\* App_ResetReason_Capture.
CaptureReason ==
    /\ at = "boot" /\ at' = "fault"
    /\ was_iwdg' = WasIwdgReset
    /\ flags' = {}
    /\ watched' = [watched EXCEPT !.captures = IF @ < 2 THEN @ + 1 ELSE @]
    /\ UNCHANGED <<evidence, fault, report, fault_report, dog, run, wrote,
                   faults, ready, can>>

\* A mutated FaultTaken: the record stays valid.
SlipFaultTaken == fault

\* What App_Fault_CaptureBoot leaves of the record.
FaultTaken == [fault EXCEPT !.marker = FALSE]

\* App_Fault_CaptureBoot; App_Fault_EnableStorage succeeds if ok.
CaptureFault(ok) ==
    /\ at = "fault" /\ at' = "evidence"
    /\ IF ok
       THEN /\ ready' = ready \cup {"fault"}
            /\ fault_report' = IF IsRecordValid(fault) THEN fault.run ELSE 0
            /\ fault' = FaultTaken
            /\ faults' = [written |-> 0, due |-> faults.written]
       ELSE UNCHANGED <<ready, fault_report, fault, faults>>
    /\ UNCHANGED <<evidence, flags, was_iwdg, report, dog, run, wrote, watched,
                   can>>

\* A mutated EvidenceTaken: the record stays valid.
SlipEvidenceTaken == evidence

\* What App_Watchdog_Evidence_CaptureBoot leaves of the record.
EvidenceTaken == [evidence EXCEPT !.marker = FALSE]

\* App_Watchdog_Evidence_CaptureBoot: after any other reset, the record is stale.
CaptureEvidence(ok) ==
    /\ at = "evidence" /\ at' = "iwdg"
    /\ IF ok
       THEN /\ ready' = ready \cup {"evidence"}
            /\ report' = IF was_iwdg /\ IsRecordValid(evidence)
                         THEN evidence.run ELSE 0
            /\ evidence' = EvidenceTaken
       ELSE UNCHANGED <<ready, report, evidence>>
    /\ UNCHANGED <<fault, flags, was_iwdg, fault_report, dog, history, can>>

\* MX_IWDG1_Init.
StartIwdg ==
    /\ at = "iwdg" /\ at' = "init"
    /\ iwdg' = 0 /\ silent' = 0
    /\ UNCHANGED <<retained, reports, since_check, observed, startup, history,
                   ready, can>>

\* App_Watchdog_Evidence_Record and _Commit: the first store invalidates the
\* record that is replaced, and then the content is copied.
Record(next) ==
    IF "evidence" \in ready
    THEN /\ evidence' = [marker |-> FALSE, whole |-> FALSE, run |-> run]
         /\ wrote' = FALSE
         /\ at' = "copy"
    ELSE /\ at' = next
         /\ UNCHANGED <<evidence, wrote>>

\* App_Watchdog_Init.
InitWatchdog ==
    /\ at = "init"
    /\ since_check' = 0 /\ observed' = {}
    /\ Record("start")
    /\ UNCHANGED <<fault, flags, reports, iwdg, silent, startup, run, watched,
                   faults, ready, can>>

CopyRecord ==
    /\ at = "copy" /\ at' = "mark"
    /\ evidence' = [evidence EXCEPT !.whole = TRUE]
    /\ UNCHANGED <<fault, flags, reports, dog, history, ready, can>>

MarkRecord ==
    /\ at = "mark"
    /\ at' = IF can = "unknown" THEN "start" ELSE "rtc"
    /\ evidence' = [evidence EXCEPT !.marker = TRUE]
    /\ wrote' = TRUE
    /\ UNCHANGED <<fault, flags, reports, dog, run, watched, faults, ready, can>>

\* The peripherals; the application goes on without CAN if it does not start.
StartPeripherals ==
    /\ at = "start" /\ at' = "rtc"
    /\ can' \in {"up", "down"}
    /\ UNCHANGED <<retained, reports, dog, history, ready>>

----------------------------------------------------------------------------
(* The main loop, main.c, reduced to what the watchdog sees of it. *)

\* App_Watchdog_CheckIn.
CheckIn(heartbeats) == observed' = observed \cup heartbeats

RtcProcess ==
    /\ at = "rtc" /\ at' = "can"
    /\ CheckIn({"rtc_service"})
    /\ UNCHANGED <<retained, reports, iwdg, since_check, silent, startup,
                   history, ready, can>>

\* A mutated CanHeartbeat: without CAN, the check-in is skipped.
SlipCanHeartbeat == IF can = "up" THEN {"can_app"} ELSE {}

\* Both ends of CAN_App_Process check in, also the one for a CAN that is down.
CanHeartbeat == {"can_app"}

CanAppProcess ==
    /\ at = "can" /\ at' = "watchdog"
    /\ CheckIn(CanHeartbeat)
    /\ UNCHANGED <<retained, reports, iwdg, since_check, silent, startup,
                   history, ready, can>>

\* App_Watchdog_Process after the check-in of the main loop: at most once in a
\* period, and no refresh unless all have checked in since the last time.
WatchdogProcess ==
    /\ at = "watchdog"
    /\ silent' = 0
    /\ LET seen == observed \cup {"main_loop"}
       IN  IF since_check < Period
           THEN /\ observed' = seen
                /\ at' = "rtc"
                /\ UNCHANGED <<iwdg, since_check, startup, evidence, wrote>>
           ELSE /\ since_check' = 0 /\ observed' = {} /\ startup' = 0
                /\ iwdg' = IF Heartbeats \subseteq seen THEN 0 ELSE iwdg
                /\ Record("rtc")
    /\ UNCHANGED <<fault, flags, reports, run, watched, faults, ready, can>>

----------------------------------------------------------------------------
(* Exceptions. *)

InHandler == at \in {"fault_copy", "fault_mark", "reset"}

\* App_Fault_HandleException and Error_Handler, which may interrupt anything.
\* Without storage they only reset.
HandleException ==
    /\ ~InHandler
    /\ IF "fault" \in ready
       THEN /\ fault' = [marker |-> FALSE, whole |-> FALSE, run |-> run]
            /\ at' = "fault_copy"
       ELSE at' = "reset" /\ UNCHANGED fault
    /\ UNCHANGED <<evidence, flags, reports, dog, history, ready, can>>

CopyFault ==
    /\ at = "fault_copy" /\ at' = "fault_mark"
    /\ fault' = [fault EXCEPT !.whole = TRUE]
    /\ UNCHANGED <<evidence, flags, reports, dog, history, ready, can>>

MarkFault ==
    /\ at = "fault_mark" /\ at' = "reset"
    /\ fault' = [fault EXCEPT !.marker = TRUE]
    /\ faults' = [faults EXCEPT !.written = run]
    /\ UNCHANGED <<evidence, flags, reports, dog, run, wrote, watched, ready, can>>

SystemReset == at = "reset" /\ Reset("software")

Next ==
    \/ CaptureReason
    \/ \E ok \in BOOLEAN : CaptureFault(ok) \/ CaptureEvidence(ok)
    \/ StartIwdg \/ InitWatchdog \/ CopyRecord \/ MarkRecord \/ StartPeripherals
    \/ RtcProcess \/ CanAppProcess \/ WatchdogProcess
    \/ HandleException \/ CopyFault \/ MarkFault \/ SystemReset
    \/ WatchdogReset \/ PinReset \/ PowerCycle \/ Tick

Spec == Init /\ [][Next]_vars

----------------------------------------------------------------------------
(* Properties. *)

\* Type invariant.
TypeOK ==
    /\ evidence \in Records /\ fault \in Records
    /\ flags \subseteq {"power", "pin", "iwdg", "software"}
    /\ iwdg \in Off .. Timeout /\ since_check \in 0 .. Period
    /\ silent \in 0 .. Timeout /\ startup \in 0 .. Timeout
    /\ observed \subseteq Heartbeats
    /\ at \in {"boot", "fault", "evidence", "iwdg", "init", "copy", "mark",
               "start", "rtc", "can", "watchdog", "fault_copy", "fault_mark",
               "reset"}
    /\ ready \subseteq {"fault", "evidence"} /\ can \in {"unknown", "up", "down"}
    /\ was_iwdg \in BOOLEAN /\ wrote \in BOOLEAN
    /\ report \in 0 .. MaxRuns /\ fault_report \in 0 .. MaxRuns
    /\ run \in 1 .. MaxRuns
    /\ watched \in [run : 0 .. MaxRuns, ready : BOOLEAN, wrote : BOOLEAN,
                    end : {"none", "power", "pin", "iwdg", "software"},
                    captures : 0 .. 2]
    /\ faults \in [written : 0 .. MaxRuns, due : 0 .. MaxRuns]

\* Evidence is reported only for the last run that had a watchdog, and only if
\* the watchdog ended it: never a record that an earlier run left and nobody
\* replaced (App_Watchdog_Evidence_CaptureBoot).  A run without storage is
\* excepted: it can neither clear the record it finds nor write its own.
EvidenceIsTrue ==
    report # 0 /\ watched.ready => report = watched.run /\ watched.end = "iwdg"

\* When the watchdog ends a run whose evidence is complete, the next run that
\* looks at the reset flags reports it, if its storage is ready
\* (App_ResetReason_Capture, App_Watchdog_Evidence_Commit).
EvidenceIsKept ==
    "evidence" \in ready /\ watched.end = "iwdg" /\ watched.wrote
        /\ watched.captures = 1
        => report = watched.run

\* A fault that was recorded to the end is reported by the next run with
\* storage, by that one only, and nothing else is reported as a fault
\* (App_Fault_CaptureBoot, App_Fault_RecordExceptionFromIsr).
FaultReportedOnce == "fault" \in ready => fault_report = faults.due

\* The watchdog ends no run unless the main loop was silent for longer than
\* the timeout less a period; in particular not because CAN is down
\* (App_Watchdog_Process, CAN_App_Process).  The first check is later by what
\* passes between MX_IWDG1_Init and App_Watchdog_Init.
OnlySilenceEndsARun ==
    [][~("iwdg" \in flags) /\ "iwdg" \in flags' =>
           silent + startup > Timeout - Period]_vars

=============================================================================
