----------------------------- MODULE UdsServer ------------------------------
(***************************************************************************)
(* The firmware's diagnostic server: Core/Src/uds_server.c and its binding *)
(* to the transport, Core/Src/can_uds.c.  One session of the two that the  *)
(* desktop tool uses, the S3 timer that ends it, and the dispatch of a     *)
(* request.  The extended session differs from the default session by its  *)
(* timer only, and the tool never enters it.                               *)
(*                                                                         *)
(* Time is counted in seconds.                                             *)
(***************************************************************************)
EXTENDS UdsDownload

CONSTANT S3     \* CAN_PROTOCOL_UDS_S3_SERVER_TIMEOUT_MS

ASSUME S3Assumption == S3 \in Nat \ {0}

VARIABLES
    session,    \* stats.current_session
    s3          \* time left to session_deadline_ms; 0 in the default session

serverVars == <<session, s3, download, slot, scheduled>>

ReadDids == [service |-> "read"]
ChangeSession(to) == [service |-> "session", to |-> to]
RoutineControl(start) == [service |-> "routine", start |-> start]
RequestDownload(size) == [service |-> "download", size |-> size]
TransferData(sequence, data) ==
    [service |-> "transfer", sequence |-> sequence, data |-> data]
RequestTransferExit == [service |-> "exit"]

ServerInit ==
    /\ DownloadInit
    /\ session = "default"
    /\ s3 = 0

\* Uds_RefreshSessionTimer: every request prolongs the session.
Refresh == s3' = IF session = "default" THEN 0 ELSE S3

\* A mutated ProcessSessionControl: leaving keeps the download open.
SlipSessionKeepsDownload(request) ==
    /\ session' = request.to
    /\ s3' = IF request.to = "default" THEN 0 ELSE S3
    /\ UNCHANGED downloadVars
    /\ Answer("positive")

ProcessSessionControl(request) ==
    /\ session' = request.to
    /\ s3' = IF request.to = "default" THEN 0 ELSE S3
    /\ IF session = "programming" /\ request.to # "programming"
       THEN AbortDownload
       ELSE UNCHANGED downloadVars
    /\ Answer("positive")

ProcessReadDid ==
    /\ Refresh
    /\ UNCHANGED <<session, downloadVars>>
    /\ Answer("positive")

ProcessProgramming(request) ==
    /\ Refresh
    /\ UNCHANGED session
    /\ IF session = "programming"
       THEN HandleDownload(request)
       ELSE Answer("negative") /\ UNCHANGED downloadVars

Expired == session # "default" /\ s3 = 0

\* Uds_Server_ProcessRequest, the timer having been looked at.
ProcessRequest(request) ==
    /\ ~Expired
    /\ \/ request.service = "session" /\ ProcessSessionControl(request)
       \/ request.service = "read" /\ ProcessReadDid
       \/ request.service \in ProgrammingServices /\ ProcessProgramming(request)

\* Uds_Server_Tick at the deadline.
SessionTimeout ==
    /\ Expired
    /\ session' = "default"
    /\ UNCHANGED s3
    /\ IF session = "programming" THEN AbortDownload ELSE UNCHANGED downloadVars

\* The firmware restarts.  What the slot holds while a block or an erase was
\* being written is the backend's failure, which the tool hears nothing of.
ServerReset ==
    /\ ~scheduled
    /\ session' = "default" /\ s3' = 0
    /\ download' = NoDownload
    /\ slot' \in {slot}
           \cup IF download.state = "TRANSFER" /\ ~InHeader /\ ~Overrun
                THEN {[slot EXCEPT ![download.received + 1] = Damaged]} ELSE {}
           \cup IF download.state = "ERASING" THEN ErasedPartly ELSE {}
    /\ UNCHANGED scheduled

ServerTick ==
    /\ ~Expired
    /\ s3' = IF s3 = 0 THEN 0 ELSE s3 - 1
    /\ UNCHANGED <<session, downloadVars>>
=============================================================================
