------------------------ MODULE ResetEvidenceProofs -------------------------
(***************************************************************************)
(* Proofs about ResetEvidence for every timeout, every period below it and *)
(* any number of runs, with a reset between any two steps.                 *)
(*                                                                         *)
(* The argument has three parts, which do not need each other.  A fault    *)
(* record is valid exactly while a fault waits to be reported.  A valid    *)
(* evidence record that the running program has not looked at is of the    *)
(* last run that had a watchdog and storage.  And every check of the       *)
(* heartbeats succeeds, so that the watchdog counts the ticks since the    *)
(* check before, which is less than a period before the main loop was seen *)
(* last.                                                                   *)
(***************************************************************************)
EXTENDS ResetEvidence, TLAPS

\* The record and what was written last; the handler only works with storage,
\* and storage means that the record of an earlier run was taken.
FaultInv ==
    /\ fault \in Records /\ faults \in [written : 0 .. MaxRuns, due : 0 .. MaxRuns]
    /\ run \in 1 .. MaxRuns
    /\ faults.written = IF IsRecordValid(fault) THEN fault.run ELSE 0
    /\ "fault" \in ready /\ at # "reset" => ~fault.marker
    /\ at \in {"fault_copy", "fault_mark"} => "fault" \in ready /\ fault.run = run
    /\ at = "fault_mark" => fault.whole
    /\ FaultReportedOnce

Starting == {"boot", "fault", "evidence", "iwdg"}
Running == {"init", "copy", "mark", "start", "rtc", "can", "watchdog"}

\* A record that nobody looked at is of the last run with a watchdog, one that
\* was written since of this run; a flag of the watchdog is about that run.
EvidenceInv ==
    /\ evidence \in Records /\ run \in 1 .. MaxRuns /\ wrote \in BOOLEAN
    /\ iwdg \in Off .. Timeout /\ was_iwdg \in BOOLEAN
    /\ watched \in [run : 0 .. MaxRuns, ready : BOOLEAN, wrote : BOOLEAN,
                    end : {"none", "power", "pin", "iwdg", "software"},
                    captures : 0 .. 2]
    /\ "evidence" \notin ready /\ IsRecordValid(evidence) /\ watched.ready
           => evidence.run = watched.run
    /\ "evidence" \in ready /\ IsRecordValid(evidence) => evidence.run = run
    /\ "evidence" \in ready /\ iwdg = Off => ~evidence.marker
    /\ at \in {"boot", "fault", "evidence"} => "evidence" \notin ready
    /\ at \in Running => iwdg # Off
    /\ at \in {"copy", "mark"} => "evidence" \in ready /\ evidence.run = run
    /\ at = "copy" => ~evidence.marker
    /\ at = "mark" => evidence.whole
    /\ "iwdg" \in flags \/ was_iwdg => watched.end = "iwdg"
    /\ "iwdg" \in flags => iwdg = Off /\ at \notin (Starting \ {"boot"}) \cup Running
    /\ EvidenceIsTrue

\* Complete evidence stays until the next run looks at the flags, and then
\* until it looks at the evidence.
KeptInv ==
    /\ wrote => IsRecordValid(evidence) /\ evidence.run = run /\ "evidence" \in ready
    /\ watched.end = "iwdg" /\ watched.wrote /\ watched.captures = 0 =>
           /\ "iwdg" \in flags /\ "evidence" \notin ready
           /\ IsRecordValid(evidence) /\ evidence.run = watched.run
    /\ watched.end = "iwdg" /\ watched.wrote /\ watched.captures = 1
           /\ at \in {"fault", "evidence"} =>
           /\ was_iwdg /\ IsRecordValid(evidence) /\ evidence.run = watched.run
    /\ EvidenceIsKept

\* The watchdog counts from the last check, or from the start of the run, and
\* the main loop was seen less than a period after that.
TimeInv ==
    /\ iwdg \in Off .. Timeout /\ since_check \in 0 .. Period
    /\ silent \in 0 .. Timeout /\ startup \in 0 .. Timeout
    /\ at \in Starting => startup = 0
    /\ at = "init" => iwdg = startup
    /\ at \in Running \ {"init"} /\ since_check < Period =>
           iwdg <= since_check + startup
    /\ iwdg <= silent + startup + Period - 1
    /\ at \in {"can", "watchdog"} => "rtc_service" \in observed
    /\ at = "watchdog" => "can_app" \in observed

IInv == FaultInv /\ EvidenceInv /\ KeptInv /\ TimeInv

----------------------------------------------------------------------------
\* A record that was never written is not valid.
LEMMA NoRecordIsInvalid ==
    NoRecord \in Records /\ ~IsRecordValid(NoRecord) /\ ~NoRecord.marker
<1> DEFINE zero == 0
<1>1. zero \in 0 .. MaxRuns
  BY WatchdogAssumption
<1>2. NoRecord = [marker |-> FALSE, whole |-> FALSE, run |-> zero]
  BY DEF NoRecord
<1> HIDE DEF zero
<1> QED BY <1>1, <1>2 DEF Records, IsRecordValid

\* The first run satisfies the invariant.
LEMMA InitInv == Init => IInv
<1> SUFFICES ASSUME Init PROVE IInv
  OBVIOUS
<1> USE WatchdogAssumption
<1>1. NoRecord \in Records /\ ~IsRecordValid(NoRecord) /\ ~NoRecord.marker
  BY NoRecordIsInvalid
<1>2. FaultInv
  BY <1>1 DEF Init, FaultInv, FaultReportedOnce
<1>3. EvidenceInv
  <2> DEFINE none == 0
  <2>1. none \in 0 .. MaxRuns /\ none \in 0 .. 2
    OBVIOUS
  <2>2. watched = [run |-> none, end |-> "none", ready |-> FALSE,
                   wrote |-> FALSE, captures |-> none]
    BY DEF Init
  <2> HIDE DEF none
  <2>3. /\ watched \in [run : 0 .. MaxRuns, ready : BOOLEAN, wrote : BOOLEAN,
                        end : {"none", "power", "pin", "iwdg", "software"},
                        captures : 0 .. 2]
        /\ ~watched.ready
    BY <2>1, <2>2
  <2>4. /\ evidence \in Records /\ ~IsRecordValid(evidence) /\ ~evidence.marker
        /\ run \in 1 .. MaxRuns /\ wrote = FALSE /\ was_iwdg = FALSE
        /\ iwdg \in Off .. Timeout /\ ready = {} /\ report = 0
        /\ at = "boot" /\ "iwdg" \notin flags
    BY <1>1 DEF Init, Off
  <2> QED BY <2>3, <2>4 DEF EvidenceInv, EvidenceIsTrue, Running
<1>4. KeptInv
  BY DEF Init, KeptInv, EvidenceIsKept
<1>5. TimeInv
  BY DEF Init, TimeInv, Off, Running
<1> QED BY <1>2, <1>3, <1>4, <1>5 DEF IInv

\* The steps that the fault record does not see.
FaultUnseen ==
    /\ UNCHANGED <<fault, faults, run, ready, fault_report>>
    /\ at' \notin {"fault_copy", "fault_mark", "reset"} \/ at' = at
    /\ at \notin {"fault_copy", "fault_mark", "reset"} \/ at' = at

\* What resets leave of the fault record.
LEMMA ResetKeepsFault ==
    ASSUME FaultInv, Restart,
           \/ UNCHANGED <<fault, faults>>
           \/ fault' = NoRecord /\ faults' = [faults EXCEPT !.written = 0]
    PROVE  FaultInv'
<1>1. run' \in 1 .. MaxRuns /\ ready' = {} /\ at' = "boot"
  BY WatchdogAssumption DEF Restart, FaultInv
<1>2. NoRecord \in Records /\ ~IsRecordValid(NoRecord)
  BY NoRecordIsInvalid
<1> QED BY <1>1, <1>2, WatchdogAssumption
        DEF FaultInv, FaultReportedOnce, IsRecordValid

\* A fault record is valid exactly while a fault waits to be reported.
LEMMA StepFault ==
    ASSUME FaultInv, [Next]_vars
    PROVE  FaultInv'
<1>1. CASE FaultUnseen
  BY <1>1 DEF FaultUnseen, FaultInv, FaultReportedOnce, IsRecordValid
<1>2. CASE CaptureReason \/ StartIwdg \/ InitWatchdog \/ CopyRecord \/ MarkRecord
           \/ StartPeripherals \/ RtcProcess \/ CanAppProcess \/ WatchdogProcess
           \/ Tick \/ UNCHANGED vars
  <2>1. FaultUnseen
    BY <1>2 DEF CaptureReason, StartIwdg, InitWatchdog, CopyRecord, MarkRecord,
         StartPeripherals, RtcProcess, CanAppProcess, WatchdogProcess, Tick,
         Record, FaultUnseen, retained, reports, history, vars
  <2> QED BY <1>1, <2>1
<1>3. ASSUME NEW ok \in BOOLEAN, CaptureFault(ok)
      PROVE  FaultInv'
  <2>1. at' = "evidence" /\ UNCHANGED run
    BY <1>3 DEF CaptureFault
  <2>2. CASE ok
    <3> DEFINE none == 0
    <3>1. none \in 0 .. MaxRuns
      BY WatchdogAssumption
    <3>2. /\ fault' = [fault EXCEPT !.marker = FALSE]
          /\ fault_report' = IF IsRecordValid(fault) THEN fault.run ELSE none
          /\ faults' = [written |-> none, due |-> faults.written]
      BY <1>3, <2>2 DEF CaptureFault, FaultTaken
    <3>3. fault' \in Records /\ ~fault'.marker
      BY <3>2 DEF FaultInv, Records
    <3>4. /\ fault_report' = faults'.due /\ faults'.written = none
          /\ faults' \in [written : 0 .. MaxRuns, due : 0 .. MaxRuns]
      BY <3>1, <3>2 DEF FaultInv
    <3> QED BY <2>1, <3>3, <3>4 DEF FaultInv, FaultReportedOnce, IsRecordValid
  <2>3. CASE ~ok
    BY <1>3, <2>1, <2>3 DEF CaptureFault, FaultInv, FaultReportedOnce,
         IsRecordValid
  <2> QED BY <2>2, <2>3
<1>4. ASSUME NEW ok \in BOOLEAN, CaptureEvidence(ok)
      PROVE  FaultInv'
  BY <1>4 DEF CaptureEvidence, history, FaultInv, FaultReportedOnce, IsRecordValid
<1>5. CASE HandleException
  <2>1. /\ UNCHANGED <<run, faults, ready, fault_report>>
        /\ at \notin {"fault_copy", "fault_mark", "reset"}
    BY <1>5 DEF HandleException, InHandler, history, reports
  <2>2. CASE "fault" \in ready
    <3>1. /\ fault' = [marker |-> FALSE, whole |-> FALSE, run |-> run]
          /\ at' = "fault_copy"
      BY <1>5, <2>2 DEF HandleException
    <3>2. fault' \in Records /\ ~fault'.marker /\ fault'.run = run
      BY <3>1, WatchdogAssumption DEF FaultInv, Records
    <3>3. faults.written = 0
      BY <2>1, <2>2 DEF FaultInv, IsRecordValid
    <3> QED BY <2>1, <2>2, <3>1, <3>2, <3>3
            DEF FaultInv, FaultReportedOnce, IsRecordValid
  <2>3. CASE "fault" \notin ready
    BY <1>5, <2>1, <2>3 DEF HandleException, FaultInv, FaultReportedOnce,
         IsRecordValid
  <2> QED BY <2>2, <2>3
<1>6. CASE CopyFault
  BY <1>6 DEF CopyFault, history, reports, FaultInv, FaultReportedOnce,
         IsRecordValid, Records
<1>7. CASE MarkFault
  BY <1>7 DEF MarkFault, reports, FaultInv, FaultReportedOnce, IsRecordValid,
         Records
<1>8. CASE SystemReset \/ WatchdogReset \/ PinReset \/ PowerCycle
  BY <1>8, ResetKeepsFault DEF SystemReset, WatchdogReset, PinReset, PowerCycle,
         Reset
<1> QED BY <1>2, <1>3, <1>4, <1>5, <1>6, <1>7, <1>8 DEF Next

\* The steps that the evidence does not see.
EvidenceUnseen ==
    /\ UNCHANGED <<evidence, flags, ready, was_iwdg, report, watched, run, wrote>>
    /\ iwdg' \in Off .. Timeout /\ (iwdg' = Off <=> iwdg = Off)
    /\ at' \in {"boot", "fault", "evidence", "copy", "mark"} => at' = at
    /\ at' \in Running => at \in Running
    /\ at' = "iwdg" => at = "iwdg"

LEMMA UnseenKeepsEvidence ==
    ASSUME EvidenceInv, KeptInv, EvidenceUnseen
    PROVE  EvidenceInv' /\ KeptInv'
<1>1. EvidenceInv'
  BY DEF EvidenceUnseen, EvidenceInv, EvidenceIsTrue, IsRecordValid, Running,
         Starting
<1>2. KeptInv'
  BY DEF EvidenceUnseen, EvidenceInv, KeptInv, EvidenceIsKept, IsRecordValid
<1> QED BY <1>1, <1>2

\* What resets leave of the evidence.
LEMMA ResetKeepsEvidence ==
    ASSUME EvidenceInv, KeptInv, NEW end \in {"iwdg", "pin", "software"},
           Reset(end), end = "iwdg" => iwdg # Off
    PROVE  EvidenceInv' /\ KeptInv'
<1>1. /\ run' \in 1 .. MaxRuns /\ ready' = {} /\ at' = "boot" /\ ~was_iwdg'
      /\ ~wrote' /\ report' = 0 /\ iwdg' = Off /\ iwdg' \in Off .. Timeout
      /\ wrote' \in BOOLEAN /\ was_iwdg' \in BOOLEAN
  <2>1. /\ run < MaxRuns /\ run' = run + 1 /\ ready' = {} /\ at' = "boot"
        /\ was_iwdg' = FALSE /\ wrote' = FALSE /\ report' = 0 /\ iwdg' = Off
    BY DEF Reset, Restart
  <2>2. run' \in 1 .. MaxRuns /\ Off \in Off .. Timeout
    BY <2>1, WatchdogAssumption DEF EvidenceInv, Off
  <2> QED BY <2>1, <2>2
<1>2. UNCHANGED evidence /\ flags' = flags \cup {end}
  BY DEF Reset
<1>3. CASE iwdg = Off
  <2>1. UNCHANGED watched /\ end # "iwdg"
    BY <1>3 DEF Reset
  <2>2. EvidenceInv'
    BY <1>1, <1>2, <1>3, <2>1 DEF EvidenceInv, EvidenceIsTrue, IsRecordValid,
         Running, Starting
  <2>3. KeptInv'
    BY <1>1, <1>2, <2>1 DEF KeptInv, EvidenceIsKept, IsRecordValid
  <2> QED BY <2>2, <2>3
<1>4. CASE iwdg # Off
  <2> DEFINE none == 0
             was  == "evidence" \in ready
  <2>1. watched' = [run |-> run, end |-> end, ready |-> was, wrote |-> wrote,
                    captures |-> none]
    BY <1>4 DEF Reset
  <2>2. none \in 0 .. 2 /\ was \in BOOLEAN
    OBVIOUS
  <2> HIDE DEF none, was
  <2>3. /\ watched' \in [run : 0 .. MaxRuns, ready : BOOLEAN, wrote : BOOLEAN,
                         end : {"none", "power", "pin", "iwdg", "software"},
                         captures : 0 .. 2]
        /\ watched'.run = run /\ watched'.end = end /\ watched'.ready = was
        /\ watched'.wrote = wrote /\ watched'.captures = none
    BY <2>1, <2>2, WatchdogAssumption DEF EvidenceInv
  <2>4. "iwdg" \notin flags
    BY <1>4 DEF EvidenceInv
  <2>5. EvidenceInv'
    BY <1>1, <1>2, <2>3, <2>4 DEF EvidenceInv, EvidenceIsTrue, IsRecordValid,
         Running, Starting, was
  <2>6. KeptInv'
    BY <1>1, <1>2, <2>3 DEF KeptInv, EvidenceIsKept, IsRecordValid, none
  <2> QED BY <2>5, <2>6
<1> QED BY <1>3, <1>4

LEMMA PowerCycleKeepsEvidence ==
    ASSUME EvidenceInv, PowerCycle
    PROVE  EvidenceInv' /\ KeptInv'
<1>1. /\ run < MaxRuns /\ run' = run + 1 /\ ready' = {} /\ at' = "boot"
      /\ was_iwdg' = FALSE /\ wrote' = FALSE /\ report' = 0 /\ iwdg' = Off
  BY DEF PowerCycle, Restart
<1>2. run' \in 1 .. MaxRuns /\ Off \in Off .. Timeout
  BY <1>1, WatchdogAssumption DEF EvidenceInv, Off
<1>3. /\ evidence' \in Records /\ ~IsRecordValid(evidence)' /\ ~evidence'.marker
      /\ "iwdg" \notin flags'
  BY NoRecordIsInvalid DEF PowerCycle, IsRecordValid
<1>4. /\ watched' \in [run : 0 .. MaxRuns, ready : BOOLEAN, wrote : BOOLEAN,
                       end : {"none", "power", "pin", "iwdg", "software"},
                       captures : 0 .. 2]
      /\ watched'.end = "power"
  BY DEF PowerCycle, EvidenceInv
<1>5. EvidenceInv'
  BY <1>1, <1>2, <1>3, <1>4 DEF EvidenceInv, EvidenceIsTrue, Running
<1>6. KeptInv'
  BY <1>1, <1>4 DEF KeptInv, EvidenceIsKept
<1> QED BY <1>5, <1>6

\* Record invalidates what is there, of this run by now, or does nothing.
LEMMA RecordKeepsEvidence ==
    ASSUME EvidenceInv, KeptInv, NEW next \in Running \ {"copy", "mark"},
           at \in Running, Record(next),
           UNCHANGED <<flags, ready, was_iwdg, report, watched, run>>,
           iwdg' \in 0 .. Timeout
    PROVE  EvidenceInv' /\ KeptInv'
<1>1. iwdg' \in Off .. Timeout /\ iwdg' # Off
  BY WatchdogAssumption DEF Off
<1>2. CASE "evidence" \in ready
  <2>1. /\ evidence' = [marker |-> FALSE, whole |-> FALSE, run |-> run]
        /\ wrote' = FALSE /\ at' = "copy"
    BY <1>2 DEF Record
  <2>2. /\ evidence' \in Records /\ ~evidence'.marker /\ evidence'.run = run
        /\ ~IsRecordValid(evidence)'
    BY <2>1, WatchdogAssumption DEF EvidenceInv, Records, IsRecordValid
  <2>3. EvidenceInv'
    BY <1>1, <1>2, <2>1, <2>2 DEF EvidenceInv, EvidenceIsTrue, Running, Starting
  <2>4. KeptInv'
    BY <1>2, <2>1 DEF KeptInv, EvidenceIsKept
  <2> QED BY <2>3, <2>4
<1>3. CASE "evidence" \notin ready
  <2>1. UNCHANGED <<evidence, wrote>> /\ at' = next
    BY <1>3 DEF Record
  <2>2. EvidenceInv'
    BY <1>1, <1>3, <2>1 DEF EvidenceInv, EvidenceIsTrue, IsRecordValid, Running,
         Starting
  <2>3. KeptInv'
    BY <1>3, <2>1 DEF KeptInv, EvidenceIsKept, IsRecordValid, Running
  <2> QED BY <2>2, <2>3
<1> QED BY <1>2, <1>3

\* A valid record that nobody looked at is of the last run with a watchdog, and
\* complete evidence is not lost before somebody does.
LEMMA StepEvidence ==
    ASSUME EvidenceInv, KeptInv, [Next]_vars
    PROVE  EvidenceInv' /\ KeptInv'
<1>1. CASE StartPeripherals \/ RtcProcess \/ CanAppProcess
  <2>1. /\ UNCHANGED <<evidence, flags, ready, was_iwdg, report, watched, run,
                       wrote>>
        /\ UNCHANGED iwdg
    BY <1>1 DEF StartPeripherals, RtcProcess, CanAppProcess, retained, reports,
         dog, history
  <2>2. at \in Running /\ at' \in {"rtc", "can", "watchdog"}
    BY <1>1 DEF StartPeripherals, RtcProcess, CanAppProcess, Running
  <2>3. EvidenceUnseen
    BY <2>1, <2>2 DEF EvidenceUnseen, Running, EvidenceInv
  <2> QED BY <2>3, UnseenKeepsEvidence
<1>2. CASE UNCHANGED vars
  BY <1>2, UnseenKeepsEvidence
     DEF vars, retained, reports, dog, history, EvidenceUnseen, EvidenceInv
<1>3. CASE HandleException \/ CopyFault \/ MarkFault
  <2>1. /\ UNCHANGED <<evidence, flags, ready, was_iwdg, report, watched, run,
                       wrote, iwdg>>
        /\ at' \in {"fault_copy", "fault_mark", "reset"}
    BY <1>3 DEF HandleException, CopyFault, MarkFault, reports, dog, history
  <2>2. EvidenceUnseen
    BY <2>1 DEF EvidenceUnseen, Running, EvidenceInv
  <2> QED BY <2>2, UnseenKeepsEvidence
<1>4. CASE Tick
  <2>1. /\ UNCHANGED <<evidence, flags, ready, was_iwdg, report, watched, run,
                       wrote, at>>
        /\ iwdg # Timeout /\ iwdg' = IF iwdg = Off THEN Off ELSE iwdg + 1
    BY <1>4 DEF Tick, retained, reports, history
  <2>2. iwdg' \in Off .. Timeout /\ (iwdg' = Off <=> iwdg = Off)
    BY <2>1, WatchdogAssumption DEF EvidenceInv, Off
  <2>3. EvidenceUnseen
    BY <2>1, <2>2 DEF EvidenceUnseen
  <2> QED BY <2>3, UnseenKeepsEvidence
<1>5. ASSUME NEW ok \in BOOLEAN, CaptureFault(ok)
      PROVE  EvidenceInv' /\ KeptInv'
  <2>1. /\ UNCHANGED <<evidence, flags, was_iwdg, report, watched, run, wrote,
                       iwdg>>
        /\ at = "fault" /\ at' = "evidence"
        /\ "evidence" \in ready' <=> "evidence" \in ready
    BY <1>5 DEF CaptureFault, dog
  <2>2. EvidenceInv'
    BY <2>1 DEF EvidenceInv, EvidenceIsTrue, IsRecordValid, Running, Starting
  <2>3. KeptInv'
    BY <2>1 DEF KeptInv, EvidenceIsKept, IsRecordValid
  <2> QED BY <2>2, <2>3
<1>6. CASE CaptureReason
  <2>1. /\ UNCHANGED <<evidence, ready, report, run, wrote, iwdg>>
        /\ at = "boot" /\ at' = "fault" /\ flags' = {}
        /\ was_iwdg' = WasIwdgReset
        /\ watched' = [watched EXCEPT !.captures = IF @ < 2 THEN @ + 1 ELSE @]
    BY <1>6 DEF CaptureReason, dog
  <2> DEFINE captures == IF watched.captures < 2 THEN watched.captures + 1
                                                 ELSE watched.captures
  <2>2. watched' = [watched EXCEPT !.captures = captures]
    BY <2>1
  <2>3. captures \in 0 .. 2 /\ (captures = 1 => watched.captures = 0) /\ captures # 0
    BY DEF EvidenceInv
  <2> HIDE DEF captures
  <2>4. /\ watched' \in [run : 0 .. MaxRuns, ready : BOOLEAN, wrote : BOOLEAN,
                         end : {"none", "power", "pin", "iwdg", "software"},
                         captures : 0 .. 2]
        /\ watched'.run = watched.run /\ watched'.end = watched.end
        /\ watched'.ready = watched.ready /\ watched'.wrote = watched.wrote
        /\ watched'.captures = captures
    BY <2>2, <2>3 DEF EvidenceInv
  <2>5. was_iwdg' \in BOOLEAN /\ (was_iwdg' <=> "iwdg" \in flags)
    <3>1. was_iwdg' = ("iwdg" \in flags)
      BY <2>1 DEF WasIwdgReset
    <3>2. ("iwdg" \in flags) \in BOOLEAN
      OBVIOUS
    <3> QED BY <3>1, <3>2
  <2>6. EvidenceInv'
    BY <2>1, <2>4, <2>5 DEF EvidenceInv, EvidenceIsTrue, IsRecordValid, Running
  <2>7. KeptInv'
    BY <2>1, <2>3, <2>4, <2>5
       DEF EvidenceInv, KeptInv, EvidenceIsKept, IsRecordValid
  <2> QED BY <2>6, <2>7
<1>7. ASSUME NEW ok \in BOOLEAN, CaptureEvidence(ok)
      PROVE  EvidenceInv' /\ KeptInv'
  <2>1. /\ UNCHANGED <<flags, was_iwdg, watched, run, wrote, iwdg>>
        /\ at = "evidence" /\ at' = "iwdg"
    BY <1>7 DEF CaptureEvidence, dog, history
  <2>2. CASE ok
    <3>1. /\ ready' = ready \cup {"evidence"}
          /\ report' = IF was_iwdg /\ IsRecordValid(evidence)
                       THEN evidence.run ELSE 0
          /\ evidence' = [evidence EXCEPT !.marker = FALSE]
      BY <1>7, <2>2 DEF CaptureEvidence, EvidenceTaken
    <3>2. /\ evidence' \in Records /\ ~evidence'.marker
          /\ ~IsRecordValid(evidence)'
      BY <3>1 DEF EvidenceInv, Records, IsRecordValid
    <3>3. EvidenceInv'
      BY <2>1, <3>1, <3>2 DEF EvidenceInv, EvidenceIsTrue, Running, Starting
    <3>4. KeptInv'
      BY <2>1, <3>1 DEF EvidenceInv, KeptInv, EvidenceIsKept, Starting
    <3> QED BY <3>3, <3>4
  <2>3. CASE ~ok
    <3>1. UNCHANGED <<ready, report, evidence>>
      BY <1>7, <2>3 DEF CaptureEvidence
    <3> QED BY <2>1, <3>1 DEF EvidenceInv, EvidenceIsTrue, KeptInv,
              EvidenceIsKept, IsRecordValid, Running, Starting
  <2> QED BY <2>2, <2>3
<1>8. CASE StartIwdg
  <2>1. /\ UNCHANGED <<evidence, flags, ready, was_iwdg, report, watched, run,
                       wrote>>
        /\ at = "iwdg" /\ at' = "init" /\ iwdg' = 0
    BY <1>8 DEF StartIwdg, retained, reports, history
  <2>2. 0 \in Off .. Timeout /\ 0 # Off
    BY WatchdogAssumption DEF Off
  <2>3. EvidenceInv'
    BY <2>1, <2>2 DEF EvidenceInv, EvidenceIsTrue, IsRecordValid, Running,
         Starting
  <2>4. KeptInv'
    BY <2>1 DEF KeptInv, EvidenceIsKept, IsRecordValid
  <2> QED BY <2>3, <2>4
<1>9. CASE InitWatchdog \/ WatchdogProcess
  <2>1. /\ UNCHANGED <<flags, ready, was_iwdg, report, watched, run>>
        /\ at \in Running
    BY <1>9 DEF InitWatchdog, WatchdogProcess, reports, Running
  <2>2. iwdg \in 0 .. Timeout
    BY <2>1, WatchdogAssumption DEF EvidenceInv, Off
  <2>3. iwdg' \in {0, iwdg}
    BY <1>9 DEF InitWatchdog, WatchdogProcess
  <2>4. iwdg' \in 0 .. Timeout
    BY <2>2, <2>3, WatchdogAssumption
  <2>5. \/ Record("start") \/ Record("rtc")
        \/ UNCHANGED <<evidence, wrote, iwdg>> /\ at' = "rtc"
    BY <1>9 DEF InitWatchdog, WatchdogProcess
  <2>6. CASE Record("start") \/ Record("rtc")
    BY <2>1, <2>4, <2>6, RecordKeepsEvidence DEF Running
  <2>7. CASE UNCHANGED <<evidence, wrote, iwdg>> /\ at' = "rtc"
    <3>1. EvidenceUnseen
      BY <2>1, <2>7 DEF EvidenceUnseen, Running, EvidenceInv
    <3> QED BY <3>1, UnseenKeepsEvidence
  <2> QED BY <2>5, <2>6, <2>7
<1>10. CASE CopyRecord
  <2>1. /\ UNCHANGED <<flags, ready, was_iwdg, report, watched, run, wrote, iwdg>>
        /\ at = "copy" /\ at' = "mark"
        /\ evidence' = [evidence EXCEPT !.whole = TRUE]
    BY <1>10 DEF CopyRecord, reports, dog, history
  <2>2. /\ evidence' \in Records /\ ~evidence'.marker /\ evidence'.whole
        /\ evidence'.run = evidence.run /\ ~IsRecordValid(evidence)
    BY <2>1 DEF EvidenceInv, Records, IsRecordValid
  <2>3. EvidenceInv'
    BY <2>1, <2>2 DEF EvidenceInv, EvidenceIsTrue, IsRecordValid, Running, Starting
  <2>4. KeptInv'
    BY <2>1, <2>2 DEF EvidenceInv, KeptInv, EvidenceIsKept, IsRecordValid
  <2> QED BY <2>3, <2>4
<1>11. CASE MarkRecord
  <2>1. /\ UNCHANGED <<flags, ready, was_iwdg, report, watched, run, iwdg>>
        /\ at = "mark" /\ at' \in {"start", "rtc"} /\ wrote' = TRUE
        /\ evidence' = [evidence EXCEPT !.marker = TRUE]
    BY <1>11 DEF MarkRecord, reports, dog
  <2>2. /\ evidence' \in Records /\ IsRecordValid(evidence)'
        /\ evidence'.run = run /\ "evidence" \in ready
    BY <2>1 DEF EvidenceInv, Records, IsRecordValid
  <2>3. EvidenceInv'
    BY <2>1, <2>2 DEF EvidenceInv, EvidenceIsTrue, Running, Starting
  <2>4. KeptInv'
    BY <2>1, <2>2 DEF EvidenceInv, KeptInv, EvidenceIsKept, IsRecordValid
  <2> QED BY <2>3, <2>4
<1>12. CASE SystemReset \/ PinReset
  BY <1>12, ResetKeepsEvidence DEF SystemReset, PinReset
<1>13. CASE WatchdogReset
  <2>1. iwdg # Off
    BY <1>13, WatchdogAssumption DEF WatchdogReset, Off
  <2> QED BY <1>13, <2>1, ResetKeepsEvidence DEF WatchdogReset
<1>14. CASE PowerCycle
  BY <1>14, PowerCycleKeepsEvidence
<1> QED BY <1>1, <1>2, <1>3, <1>4, <1>5, <1>6, <1>7, <1>8, <1>9, <1>10, <1>11,
           <1>12, <1>13, <1>14 DEF Next

\* The watchdog counts from the last check, and the main loop was seen less
\* than a period after that; only the watchdog sets its flag.
LEMMA StepTime ==
    ASSUME TimeInv, [Next]_vars
    PROVE  /\ TimeInv'
           /\ "iwdg" \notin flags /\ "iwdg" \in flags' =>
                  silent + startup > Timeout - Period
<1> USE WatchdogAssumption DEF Off
<1>1. CASE SystemReset \/ WatchdogReset \/ PinReset \/ PowerCycle
  <2>1. Restart
    BY <1>1 DEF SystemReset, WatchdogReset, PinReset, PowerCycle, Reset
  <2>2. TimeInv'
    BY <2>1 DEF Restart, TimeInv, Starting, Running
  <2>3. CASE WatchdogReset
    <3>1. silent + startup > Timeout - Period
      BY <2>3 DEF WatchdogReset, TimeInv
    <3> QED BY <2>2, <3>1
  <2>4. CASE SystemReset \/ PinReset \/ PowerCycle
    BY <2>2, <2>4 DEF SystemReset, PinReset, PowerCycle, Reset
  <2> QED BY <1>1, <2>3, <2>4
<1>2. CASE CaptureReason
  BY <1>2 DEF CaptureReason, dog, TimeInv, Starting, Running
<1>3. ASSUME NEW ok \in BOOLEAN, CaptureFault(ok) \/ CaptureEvidence(ok)
      PROVE  TimeInv' /\ UNCHANGED flags
  BY <1>3 DEF CaptureFault, CaptureEvidence, dog, TimeInv, Starting, Running
<1>4. CASE StartIwdg
  BY <1>4 DEF StartIwdg, retained, TimeInv, Starting, Running
<1>5. CASE InitWatchdog
  BY <1>5 DEF InitWatchdog, Record, TimeInv, Starting, Running
<1>6. CASE CopyRecord \/ MarkRecord \/ StartPeripherals
  BY <1>6 DEF CopyRecord, MarkRecord, StartPeripherals, retained, dog, TimeInv,
       Starting, Running
<1>7. CASE RtcProcess \/ CanAppProcess
  BY <1>7 DEF RtcProcess, CanAppProcess, CheckIn, CanHeartbeat, retained, TimeInv,
       Starting, Running
<1>8. CASE WatchdogProcess
  <2> DEFINE seen == observed \cup {"main_loop"}
  <2>1. at = "watchdog" /\ UNCHANGED flags /\ silent' = 0
    BY <1>8 DEF WatchdogProcess
  <2>2. Heartbeats \subseteq seen
    BY <2>1 DEF TimeInv, Heartbeats
  <2>3. CASE since_check < Period
    <3>1. at' = "rtc" /\ UNCHANGED <<iwdg, since_check, startup>>
      BY <1>8, <2>3 DEF WatchdogProcess
    <3> QED BY <2>1, <2>3, <3>1 DEF TimeInv, Starting, Running
  <2>4. CASE ~(since_check < Period)
    <3>1. since_check' = 0 /\ startup' = 0 /\ iwdg' = 0 /\ Record("rtc")
      BY <1>8, <2>2, <2>4 DEF WatchdogProcess
    <3>2. at' \in {"copy", "rtc"}
      BY <3>1 DEF Record
    <3> QED BY <2>1, <3>1, <3>2 DEF TimeInv, Starting, Running
  <2> QED BY <2>3, <2>4
<1>9. CASE HandleException \/ CopyFault \/ MarkFault
  <2>1. /\ UNCHANGED <<iwdg, since_check, observed, silent, startup, flags>>
        /\ at' \in {"fault_copy", "fault_mark", "reset"}
    BY <1>9 DEF HandleException, CopyFault, MarkFault, dog
  <2> QED BY <2>1 DEF TimeInv, Starting, Running
<1>10. CASE Tick
  BY <1>10 DEF Tick, retained, TimeInv, Starting, Running
<1>11. CASE UNCHANGED vars
  BY <1>11 DEF vars, dog, retained, TimeInv
<1> QED BY <1>1, <1>2, <1>3, <1>4, <1>5, <1>6, <1>7, <1>8, <1>9, <1>10, <1>11
        DEF Next

\* The inductive invariant: the fault record, the evidence, and the time.
THEOREM Invariance == Spec => []IInv
<1>1. IInv /\ [Next]_vars => IInv'
  BY StepFault, StepEvidence, StepTime DEF IInv
<1> QED BY <1>1, InitInv, PTL DEF Spec

\* A fault is reported by the next run with storage, once, and nothing that is
\* not a fault is (App_Fault_CaptureBoot).
THEOREM FaultIsReportedOnce == Spec => []FaultReportedOnce
<1>1. IInv => FaultReportedOnce
  BY DEF IInv, FaultInv
<1> QED BY <1>1, Invariance, PTL

\* No evidence is reported for a run that the watchdog did not end
\* (App_Watchdog_Evidence_CaptureBoot).
THEOREM NoFalseEvidence == Spec => []EvidenceIsTrue
<1>1. IInv => EvidenceIsTrue
  BY DEF IInv, EvidenceInv
<1> QED BY <1>1, Invariance, PTL

\* Evidence that was complete when the watchdog struck is reported
\* (App_Watchdog_Evidence_Commit, App_ResetReason_Capture).
THEOREM NoLostEvidence == Spec => []EvidenceIsKept
<1>1. IInv => EvidenceIsKept
  BY DEF IInv, KeptInv
<1> QED BY <1>1, Invariance, PTL

\* For every timeout and period, the watchdog ends only runs whose main loop
\* was silent (App_Watchdog_Process).
THEOREM WatchdogNeedsSilence == Spec => OnlySilenceEndsARun
<1>1. IInv /\ [Next]_vars =>
          [~("iwdg" \in flags) /\ "iwdg" \in flags' =>
              silent + startup > Timeout - Period]_vars
  BY StepTime DEF IInv
<1> QED BY <1>1, Invariance, PTL DEF Spec, OnlySilenceEndsARun
=============================================================================
