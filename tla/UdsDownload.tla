---------------------------- MODULE UdsDownload -----------------------------
(***************************************************************************)
(* The firmware's side of a firmware download: Core/Src/uds_download.c.    *)
(* The artifact is counted in transfer blocks; its first HeaderBlocks are  *)
(* the image header, which stays in RAM until the transfer exit.           *)
(*                                                                         *)
(* The flash backend (authorize, start_erase, poll_erase, write, finalize) *)
(* is not part of the repository: it is modelled by its interface, and it  *)
(* may fail.  finalize is given no check of the artifact here, so that     *)
(* what the slot holds rests on the download protocol alone.               *)
(***************************************************************************)
EXTENDS Integers, Sequences

CONSTANTS
    Artifacts,      \* the firmware images that users choose
    Linked,         \* those linked for the slot that is not running
    Blocks,         \* the size of each artifact, in transfer blocks
    HeaderBlocks,   \* blocks of the image header
    Capacity,       \* size of the slot, in blocks
    Modulus,        \* values of the block sequence counter
    Erased, Damaged \* flash that was never, or not properly, programmed

ASSUME BlocksAssumption == Blocks \in [Artifacts -> Nat \ {0}]
ASSUME LinkedAssumption == Linked \subseteq Artifacts
ASSUME SizesAssumption ==
    /\ HeaderBlocks \in Nat \ {0} /\ Capacity \in Nat \ {0}
    /\ Modulus \in Nat \ {0, 1}

VARIABLES
    download,   \* Uds_Download_t: state, sizes, header, sequence counters
    slot,       \* what each block of the inactive slot holds
    scheduled,  \* finalize recorded the slot as the one to boot
    answer      \* the response to the request that was executed last

downloadVars == <<download, slot, scheduled>>

Positions == 1 .. Capacity
Data == [artifact : Artifacts, block : Nat \ {0}]
ASSUME FlashAssumption == Erased \notin Data /\ Damaged \notin Data
Block(u, i) == [artifact |-> u, block |-> i]
Counters == 0 .. (Modulus - 1)
NoBlock == Modulus

\* Uds_Download_Init and Uds_Download_Abort: no download.
NoDownload == [state |-> "IDLE", size |-> 0, received |-> 0, header |-> <<>>,
               expected |-> 0, last |-> NoBlock]

Whole(u) == [i \in Positions |-> IF i <= Blocks[u] THEN Block(u, i) ELSE Erased]
Blank == [i \in Positions |-> Erased]

Fitting == {u \in Linked : Blocks[u] <= Capacity}

\* The slot of a device before its first update or after an earlier one.
DownloadInit ==
    /\ download = NoDownload
    /\ slot \in {Blank} \cup {Whole(u) : u \in Fitting}
    /\ scheduled = FALSE

-----------------------------------------------------------------------------
(* The backend.                                                            *)
ErasedPartly == {[i \in Positions |-> IF i \in kept THEN slot[i] ELSE Erased] :
                    kept \in SUBSET Positions}

\* A flashword can be programmed once after an erase.
Programmed(i, data) ==
    [slot EXCEPT ![i] = IF slot[i] = Erased THEN data ELSE Damaged]

WithHeader ==
    [i \in Positions |-> IF i <= Len(download.header)
                         THEN download.header[i] ELSE slot[i]]

-----------------------------------------------------------------------------
Answer(value) == answer' = value
Enter(state) == download' = [download EXCEPT !.state = state]

\* Uds_Download_Fail.
Fail == Enter("FAILED")

(***************************************************************************)
(* RoutineControl: the erase of the inactive slot is started, or polled.   *)
(* The backend answers OK, PENDING or FAILED.                              *)
(***************************************************************************)
Routine ==
    /\ \/ Answer("positive") /\ Enter("READY") /\ slot' = Blank
       \/ Answer("in_progress") /\ Enter("ERASING") /\ slot' \in ErasedPartly
       \/ Answer("failed") /\ Fail /\ slot' \in ErasedPartly
    /\ UNCHANGED scheduled

\* The result of an erase that has ended is given again.
RoutineEnded ==
    /\ Answer(IF download.state = "READY" THEN "positive" ELSE "failed")
    /\ IF download.state = "READY" THEN UNCHANGED download ELSE Fail
    /\ UNCHANGED <<slot, scheduled>>

EraseRefused(request) ==
    IF request.start THEN download.state # "IDLE"
    ELSE download.state \notin {"ERASING", "READY", "FAILED"}

ProcessRoutine(request) ==
    IF EraseRefused(request)
    THEN Answer("negative") /\ UNCHANGED downloadVars
    ELSE IF request.start
    THEN \/ Routine
         \/ Answer("negative") /\ UNCHANGED downloadVars  \* not authorized
    ELSE IF download.state = "ERASING" THEN Routine ELSE RoutineEnded

DownloadRefused(request) ==
    \/ download.state # "READY"
    \/ request.size < HeaderBlocks
    \/ request.size > Capacity

ProcessRequestDownload(request) ==
    /\ IF DownloadRefused(request)
       THEN Answer("negative") /\ UNCHANGED download
       ELSE /\ Answer("positive")
            /\ download' = [NoDownload EXCEPT !.state = "TRANSFER",
                                              !.size = request.size,
                                              !.expected = 1]
    /\ UNCHANGED <<slot, scheduled>>

\* A mutated Duplicate: a repeated block is not recognised.
SlipDuplicateUnknown(request) == FALSE

\* The block was accepted already, and its acknowledgement may be lost.
Duplicate(request) ==
    download.state = "TRANSFER" /\ request.sequence = download.last

TransferRefused(request) ==
    \/ download.state # "TRANSFER"
    \/ request.sequence # download.expected

Accepted(request) ==
    [download EXCEPT
        !.received = @ + 1,
        !.last = request.sequence,
        !.expected = (@ + 1) % Modulus,
        !.header = IF download.received < HeaderBlocks
                   THEN Append(@, request.data) ELSE @]

Overrun == download.received >= download.size

\* A mutated InHeader: the header is programmed as it arrives.
SlipInHeader == FALSE
InHeader == download.received < HeaderBlocks

ProcessTransferData(request) ==
    IF Duplicate(request)
    THEN Answer("positive") /\ UNCHANGED downloadVars
    ELSE IF TransferRefused(request)
    THEN Answer("negative") /\ UNCHANGED downloadVars
    ELSE /\ \/ /\ ~Overrun
               /\ Answer("positive")
               /\ download' = Accepted(request)
               /\ slot' = IF InHeader THEN slot
                          ELSE Programmed(download.received + 1, request.data)
            \/ /\ Overrun \/ ~InHeader
               /\ Answer("negative")
               /\ Fail
               /\ slot' \in {slot} \cup
                     IF Overrun THEN {}
                     ELSE {[slot EXCEPT ![download.received + 1] = Damaged]}
         /\ UNCHANGED scheduled

ExitRefused ==
    download.state # "TRANSFER" \/ download.received # download.size

\* finalize writes the header last and then schedules the slot.
ProcessTransferExit ==
    IF ExitRefused
    THEN Answer("negative") /\ UNCHANGED downloadVars
    ELSE \/ /\ Answer("positive")
            /\ Enter("COMPLETE")
            /\ slot' = WithHeader
            /\ scheduled' = TRUE
         \/ /\ Answer("negative")
            /\ Fail
            /\ slot' \in {slot, WithHeader}
            /\ UNCHANGED scheduled

(***************************************************************************)
(* Uds_Download_Handle, called by the server in the programming session.   *)
(***************************************************************************)
ProgrammingServices == {"routine", "download", "transfer", "exit"}

HandleDownload(request) ==
    \/ request.service = "routine" /\ ProcessRoutine(request)
    \/ request.service = "download" /\ ProcessRequestDownload(request)
    \/ request.service = "transfer" /\ ProcessTransferData(request)
    \/ request.service = "exit" /\ ProcessTransferExit

\* Uds_Download_Abort: whatever the slot holds stays there.
AbortDownload == download' = NoDownload /\ UNCHANGED <<slot, scheduled>>
=============================================================================
