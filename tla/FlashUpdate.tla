---------------------------- MODULE FlashUpdate -----------------------------
(***************************************************************************)
(* A firmware update over the diagnostic connection: the desktop tool, its *)
(* diagnostics polling and the firmware's server, with requests and        *)
(* responses that are lost, tools and firmware that restart, and a backend *)
(* that fails.                                                             *)
(*                                                                         *)
(* The connection behaves as RequestService: requests are executed in      *)
(* order, at most once and only while the tool waits for them.  A request  *)
(* is answered well within a second unless it or its response is lost.     *)
(***************************************************************************)
EXTENDS FlashController

CONSTANTS
    MaxFaults,  \* bound: everything that goes wrong
    MaxUpdates  \* bound: updates started by the user

ASSUME BoundsAssumption == MaxFaults \in Nat /\ MaxUpdates \in Nat
ASSUME NamesAssumption == {"none", "nothing", "unsound"} \cap Artifacts = {}

\* The session of 5 s outlasts the requests that can be lost, a second each,
\* between two that arrive while a block is repeated only once: a poll of the
\* diagnostics, the block, and another poll.
ASSUME SessionAssumption == S3 > 3

VARIABLES
    late,       \* the response timeout of the active request has passed
    faults,     \* faults so far
    updates,    \* updates so far
    clean,      \* history: nothing but the loss of a block hit this update
    fresh,      \* history: this update began with no download open
    failures    \* history: clean updates that failed one after another,
                \* with no abandoned one in between

bounds == <<faults, updates>>
history == <<clean, fresh, failures>>
vars == <<serverVars, flash, queue, answer, late, bounds, history>>

Results == {"positive", "negative", "in_progress", "failed"}

Init ==
    /\ ServerInit
    /\ flash = ControllerIdle
    /\ queue = <<>> /\ answer = "none" /\ late = FALSE
    /\ faults = 0 /\ updates = 0
    /\ clean = FALSE /\ fresh = FALSE /\ failures = 0

Active == queue # <<>>
Request == Head(queue)
Reading == \E i \in DOMAIN queue : queue[i] = ReadDids

\* The loss of a block that was not repeated yet, or of another request than
\* those of the update, leaves the update clean.
Harmless ==
    \/ Request = ReadDids
    \/ Request.service = "transfer" /\ ~flash.retried

Fault(harmless) ==
    /\ faults < MaxFaults
    /\ faults' = faults + 1
    /\ clean' = (clean /\ harmless)
    /\ UNCHANGED <<fresh, failures>>

NoFault == UNCHANGED <<faults, history>>

-----------------------------------------------------------------------------
\* The backend denies the update, or fails in an erase, a write or finalize.
BackendFails ==
    \/ download'.state = "FAILED" /\ download.state # "FAILED"
    \/ /\ Request.service = "routine" /\ session = "programming"
       /\ ~EraseRefused(Request) /\ answer' = "negative"

\* CAN_Uds_Process with the active request.
Serve ==
    /\ Active /\ answer = "none"
    /\ ProcessRequest(Request)
    /\ \/ ~BackendFails /\ NoFault
       \/ BackendFails /\ Fault(FALSE)
    /\ UNCHANGED <<flash, queue, late, updates>>

\* The request is not executed, or its response does not arrive.
Lose ==
    /\ Active /\ answer # "lost"
    /\ answer' = "lost"
    /\ Fault(Harmless)
    /\ UNCHANGED <<serverVars, flash, queue, late, updates>>

\* What the end of an update says of the tool and the server.
Account(stillClean) ==
    /\ clean' = stillClean
    /\ failures' =
         IF flash'.status \notin {"FAULT", "COMPLETE"} THEN failures
         ELSE IF flash'.status = "FAULT" /\ stillClean /\ Fits(flash.artifact)
         THEN failures + 1 ELSE 0

\* The callback of the active request, and the start of the next one.
Conclude(result, harmless) ==
    /\ answer' = "none" /\ late' = FALSE
    /\ IF Request = ReadDids
       THEN QueueNothing /\ UNCHANGED <<flash, clean, failures>>
       ELSE UpdateCallback(result) /\ Account(clean /\ harmless)
    /\ UNCHANGED <<serverVars, updates, fresh>>

\* An erase that outlasts the polls of the tool is a fault of the backend.
Deliver ==
    /\ Active /\ answer \in Results
    /\ Conclude(answer, ~(answer = "in_progress" /\ ~PollsLeft))
    /\ UNCHANGED faults

Timeout ==
    /\ Active /\ answer = "lost" /\ late
    /\ Conclude("timeout", TRUE)
    /\ UNCHANGED faults

\* The transport fails at once: the request is not sent, or the response, or
\* the rest of the request, is broken.
TransportError ==
    /\ Active /\ answer # "lost" /\ faults < MaxFaults
    /\ faults' = faults + 1
    /\ \/ answer = "none" /\ Conclude("timeout", Harmless)
       \/ Conclude("broken", FALSE)

\* The button, or the timer of the tool unless an update is under way.
RefreshDiagnostics ==
    /\ ~Reading
    /\ queue' = Append(queue, ReadDids)
    /\ UNCHANGED <<serverVars, flash, answer, late, updates>> /\ NoFault

StartUpdate ==
    /\ updates < MaxUpdates
    /\ updates' = updates + 1
    /\ \E u \in Artifacts : Start(u)
    /\ clean' = TRUE /\ fresh' = (download.state = "IDLE")
    /\ UNCHANGED <<serverVars, answer, late, faults, failures>>

\* CanSession.connect forgets the requests without calling back; the
\* diagnostics are reset and polled, the update is not.
Reconnect ==
    /\ queue' = <<ReadDids>> /\ answer' = "none" /\ late' = FALSE
    /\ Fault(FALSE)
    /\ UNCHANGED <<serverVars, flash, updates>>

\* The tool is closed and started again; an update under way is abandoned.
RestartTool ==
    /\ faults < MaxFaults
    /\ faults' = faults + 1
    /\ flash' = ControllerIdle
    /\ queue' = <<>> /\ answer' = "none" /\ late' = FALSE
    /\ clean' = FALSE /\ failures' = IF Busy THEN 0 ELSE failures
    /\ UNCHANGED <<serverVars, updates, fresh>>

\* Power is lost or the watchdog bites; a response under way is lost.
RestartFirmware ==
    /\ ServerReset
    /\ answer' = IF Active THEN "lost" ELSE "none"
    /\ Fault(FALSE)
    /\ UNCHANGED <<flash, queue, late, updates>>

FirmwareTick ==
    /\ SessionTimeout
    /\ UNCHANGED <<flash, queue, answer, late, updates>> /\ NoFault

\* A second passes, and the timer of the diagnostics ends with it.
Tick ==
    /\ Active => answer = "lost" /\ ~late
    /\ ServerTick
    /\ late' = Active
    /\ queue' = IF Busy \/ Reading THEN queue ELSE Append(queue, ReadDids)
    /\ UNCHANGED <<flash, answer, updates>> /\ NoFault

Next ==
    \/ Serve \/ Lose \/ Deliver \/ Timeout \/ TransportError
    \/ RefreshDiagnostics \/ StartUpdate
    \/ Reconnect \/ RestartTool \/ RestartFirmware
    \/ FirmwareTick \/ Tick
Spec == Init /\ [][Next]_vars

(***************************************************************************)
(* Main loop and window timers keep running, and time goes on.             *)
(***************************************************************************)
FairSpec ==
    /\ Spec
    /\ WF_vars(Serve) /\ WF_vars(Deliver) /\ WF_vars(Timeout)
    /\ WF_vars(FirmwareTick) /\ SF_vars(Tick)

-----------------------------------------------------------------------------
Statuses == {"IDLE", "SESSION", "ERASING", "REQUESTING", "TRANSFERRING",
             "VERIFYING", "LEAVING", "ABORTING", "COMPLETE", "FAULT"}
DownloadStates == {"IDLE", "ERASING", "READY", "TRANSFER", "COMPLETE", "FAILED"}

\* The types of the variables, with the bounds the code relies on: the tool
\* has one request of the update queued at most, and the header fits its buffer.
TypeOK ==
    /\ session \in {"default", "programming"} /\ s3 \in 0 .. S3
    /\ download.state \in DownloadStates
    /\ download.expected \in Counters /\ download.last \in Counters \cup {NoBlock}
    /\ download.received \in 0 .. download.size
    /\ Len(download.header) <= HeaderBlocks
    /\ slot \in [Positions -> Data \cup {Erased, Damaged}]
    /\ scheduled \in BOOLEAN /\ late \in BOOLEAN
    /\ answer \in Results \cup {"none", "lost"}
    /\ flash.status \in Statuses
    /\ flash.sequence \in Counters /\ flash.polls \in 0 .. ErasePollLimit
    /\ Len(queue) <= 2

\* An open download lives in a programming session: whatever ends the session
\* also ends the download.
DownloadInSession == download.state # "IDLE" => session = "programming"

\* The tool and the server stay in step through repeated blocks and a wrapping
\* counter: the server has every block the tool knows to be accepted, and at
\* most the active one in addition, and each of them is in its place.
InStep ==
    flash.status = "TRANSFERRING" /\ download.state = "TRANSFER" =>
        /\ download.received \in {flash.offset, flash.offset + 1}
        /\ \A i \in 1 .. download.received :
              Block(flash.artifact, i) = IF i <= HeaderBlocks
                                         THEN download.header[i] ELSE slot[i]
        /\ \A i \in (download.received + 1) .. Capacity : slot[i] = Erased

\* When the only things that go wrong are lost blocks or acknowledgements, each
\* repeated with success, the update does not fail.
LostBlocksAreHarmless ==
    clean /\ fresh /\ Fits(flash.artifact) =>
        flash.status \notin {"ABORTING", "FAULT"}

\* A download left open by an abandoned update costs one attempt and no more.
OneAttemptLost == failures <= 1

\* Retries are safe, of a block and of an update: both ends stay in step, and
\* neither lost blocks nor an abandoned download make an update fail for good
\* (ProcessTransferData of uds_download.c, _on_transfer_data and _fail of
\* flash_controller.py).
RetrySafe == InStep /\ LostBlocksAreHarmless /\ OneAttemptLost

\* An update ends, unless a new connection forgot its request.
Forgotten == \A i \in DOMAIN queue : queue[i] = ReadDids
UpdateEnds == Busy ~> (~Busy \/ Forgotten)

\* The update implements its promise to the user and to the bootloader.
Header == 1 .. HeaderBlocks
Image ==
    IF \E u \in Artifacts : slot = Whole(u)
    THEN CHOOSE u \in Artifacts : slot = Whole(u)
    ELSE IF \A i \in Header \cap Positions : slot[i] = Erased
    THEN "nothing" ELSE "unsound"
Service == INSTANCE FlashService WITH
    Artifacts <- Fitting,
    image <- Image,
    claim <- IF flash.status \in {"LEAVING", "COMPLETE"}
             THEN flash.artifact ELSE "nothing"
ImplementsFlashService == Service!Spec
=============================================================================
