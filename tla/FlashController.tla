-------------------------- MODULE FlashController ---------------------------
(***************************************************************************)
(* The firmware update of the desktop tool: FlashController in             *)
(* flash_controller.py, over the request queue of UdsClient.  Each action  *)
(* is the callback of the request that ended; result is the response, or   *)
(* "timeout" when none came in time, or "broken" for any other error of    *)
(* the transport.  The callback queues the next request behind those that  *)
(* wait.                                                                   *)
(***************************************************************************)
EXTENDS UdsServer

CONSTANT ErasePollLimit     \* ERASE_POLL_LIMIT

ASSUME PollAssumption == ErasePollLimit \in Nat

\* _validate_artifact: the image header is part of every artifact.
ASSUME ArtifactAssumption == \A u \in Artifacts : Blocks[u] >= HeaderBlocks

VARIABLES
    flash,      \* the FlashController
    queue       \* UdsClient: the active request and those that wait

ControllerIdle == [status |-> "IDLE", artifact |-> "none", offset |-> 0,
                   sequence |-> 1, retried |-> FALSE, polls |-> 0]

Busy == flash.status \notin {"IDLE", "COMPLETE", "FAULT"}
SessionEntered ==
    flash.status \in {"ERASING", "REQUESTING", "TRANSFERRING", "VERIFYING"}

\* The next request takes the place of the one that ended.
Queue(request) == queue' = Append(Tail(queue), request)
QueueNothing == queue' = Tail(queue)

Proceed(controller, request) == flash' = controller /\ Queue(request)

\* start, with an artifact that passes the checks of the tool.
Start(u) ==
    /\ ~Busy
    /\ flash' = [flash EXCEPT !.status = "SESSION", !.artifact = u,
                              !.offset = 0, !.sequence = 1, !.polls = 0]
    /\ queue' = Append(queue, ChangeSession("programming"))

\* _fail: leave the programming session first, when it was entered.
Stop ==
    IF SessionEntered
    THEN Proceed([flash EXCEPT !.status = "ABORTING"], ChangeSession("default"))
    ELSE flash' = [flash EXCEPT !.status = "FAULT"] /\ QueueNothing

OnProgrammingSession(result) ==
    /\ flash.status = "SESSION"
    /\ IF result = "positive"
       THEN Proceed([flash EXCEPT !.status = "ERASING"], RoutineControl(TRUE))
       ELSE Stop

\* _validate_target.
Fits(u) == u \in Fitting

Negotiate == Proceed([flash EXCEPT !.status = "REQUESTING"],
                     RequestDownload(Blocks[flash.artifact]))

\* A mutated OnEraseResult: no limit of polls.
SlipEraseWithoutLimit(result) ==
    /\ flash.status = "ERASING"
    /\ \/ result = "in_progress" /\ Proceed(flash, RoutineControl(FALSE))
       \/ result = "positive" /\ Fits(flash.artifact) /\ Negotiate
       \/ result = "positive" /\ ~Fits(flash.artifact) /\ Stop
       \/ result \notin {"in_progress", "positive"} /\ Stop

\* _on_erase_result: poll again, or ask for the download of what fits.
PollsLeft == flash.polls < ErasePollLimit
OnEraseResult(result) ==
    /\ flash.status = "ERASING"
    /\ \/ /\ result = "in_progress" /\ PollsLeft
          /\ Proceed([flash EXCEPT !.polls = @ + 1], RoutineControl(FALSE))
       \/ result = "positive" /\ Fits(flash.artifact) /\ Negotiate
       \/ result = "positive" /\ ~Fits(flash.artifact) /\ Stop
       \/ result = "in_progress" /\ ~PollsLeft /\ Stop
       \/ result \notin {"in_progress", "positive"} /\ Stop

\* _queue_transfer_block.
CurrentBlock(controller) ==
    TransferData(controller.sequence,
                 Block(controller.artifact, controller.offset + 1))

\* _send_next_block: the next block, or the transfer exit after the last one.
SendNextBlock(controller) ==
    IF controller.offset >= Blocks[controller.artifact]
    THEN Proceed([controller EXCEPT !.status = "VERIFYING"], RequestTransferExit)
    ELSE Proceed([controller EXCEPT !.retried = FALSE],
                 CurrentBlock([controller EXCEPT !.retried = FALSE]))

OnDownloadRequested(result) ==
    /\ flash.status = "REQUESTING"
    /\ IF result = "positive"
       THEN SendNextBlock([flash EXCEPT !.status = "TRANSFERRING"])
       ELSE Stop

Transferred ==
    [flash EXCEPT !.offset = @ + 1, !.sequence = (@ + 1) % Modulus]

\* A block whose acknowledgement does not come is sent once more.
Retry(result) ==
    LET retry == [flash EXCEPT !.retried = TRUE]
    IN  /\ result = "timeout" /\ ~flash.retried
        /\ Proceed(retry, CurrentBlock(retry))

OnTransferData(result) ==
    /\ flash.status = "TRANSFERRING"
    /\ \/ Retry(result)
       \/ result = "positive" /\ SendNextBlock(Transferred)
       \/ /\ result # "positive" /\ ~(result = "timeout" /\ ~flash.retried)
          /\ Stop

OnTransferExit(result) ==
    /\ flash.status = "VERIFYING"
    /\ IF result = "positive"
       THEN Proceed([flash EXCEPT !.status = "LEAVING"], ChangeSession("default"))
       ELSE Stop

\* _on_success_cleanup and _on_failure_cleanup, with any result.
OnCleanup ==
    /\ flash.status \in {"LEAVING", "ABORTING"}
    /\ flash' = [flash EXCEPT !.status = IF @ = "LEAVING" THEN "COMPLETE"
                                                          ELSE "FAULT"]
    /\ QueueNothing

UpdateCallback(result) ==
    \/ OnProgrammingSession(result)
    \/ OnEraseResult(result)
    \/ OnDownloadRequested(result)
    \/ OnTransferData(result)
    \/ OnTransferExit(result)
    \/ OnCleanup
=============================================================================
