---------------------------- MODULE Stm32LogSync ----------------------------
(***************************************************************************)
(* The reader of the event log in the desktop tool, stm32_log_sync.py.     *)
(* Its handlers are operators from one state of the reader to the next;    *)
(* LogTransfer has the actions that call them.                             *)
(*                                                                         *)
(* A response is two fragments.  Each carries the whole of it here, but    *)
(* the reader takes from an information fragment only what it holds, and   *)
(* from two record fragments only a record that both are of.  Statistics,  *)
(* the retry delay and what a row looks like are left out.                 *)
(***************************************************************************)
EXTENDS Integers

CONSTANTS
    None,               \* None
    MaxRecordRetries,   \* STM32_LOG_MAX_RECORD_RETRIES
    ReaderSequences     \* sequence numbers the reader may ask for

ASSUME RetriesAssumption == MaxRecordRetries \in Nat

NoFragments == [part \in {1, 2} |-> None]
NoRetries == [sequence \in ReaderSequences |-> 0]

Complete(fragments) == \A part \in {1, 2} : fragments[part] # None

\* reset, with the attributes it leaves
ResetSync ==
    [pending_kind |-> "none", pending_sequence |-> None,
     info_fragments |-> NoFragments, record_fragments |-> NoFragments,
     info_required |-> TRUE, bootstrap_complete |-> FALSE,
     next_sequence |-> None, latest_sequence |-> 0,
     last_saved_sequence |-> 0, saved_sequences |-> {},
     record_retries |-> NoRetries,
     heartbeat_ready |-> FALSE, heartbeat_timeout_active |-> FALSE]

-----------------------------------------------------------------------------
\* process, in the order of its conditions

MayRequest(sync) ==
    /\ sync.pending_kind = "none"
    /\ sync.heartbeat_ready /\ ~sync.heartbeat_timeout_active

WantsInfo(sync) == MayRequest(sync) /\ sync.info_required

WantsRecord(sync) ==
    /\ MayRequest(sync) /\ ~sync.info_required
    /\ sync.next_sequence # None
    /\ sync.next_sequence <= sync.latest_sequence

InfoRequested(sync) ==
    [sync EXCEPT !.info_fragments = NoFragments,
                 !.pending_kind = "info", !.pending_sequence = None]

RecordRequested(sync) ==
    [sync EXCEPT !.record_fragments = NoFragments,
                 !.pending_kind = "record",
                 !.pending_sequence = sync.next_sequence]

RequestTimedOut(sync) ==
    [sync EXCEPT !.pending_kind = "none", !.pending_sequence = None,
                 !.info_fragments = NoFragments,
                 !.record_fragments = NoFragments,
                 !.info_required = @ \/ sync.pending_kind = "info"]

-----------------------------------------------------------------------------
Restarted(sync, latest) ==
    sync.last_saved_sequence # 0 /\ latest < sync.last_saved_sequence

\* Where reading goes on after an information response.
Resumed(next_sequence, info) ==
    IF info.count = 0 THEN None
    ELSE IF next_sequence = None \/ next_sequence < info.oldest
         THEN info.oldest
         ELSE next_sequence

\* _complete_info
InfoCompleted(sync) ==
    LET info == sync.info_fragments[1]
        latest == sync.info_fragments[2].latest
        answered == [sync EXCEPT !.pending_kind = "none",
                                 !.info_fragments = NoFragments]
        current == IF Restarted(sync, latest)
                   THEN [answered EXCEPT !.saved_sequences = {},
                                         !.record_retries = NoRetries,
                                         !.last_saved_sequence = 0,
                                         !.next_sequence = None]
                   ELSE answered
    IN  IF info.count > 0 /\ info.oldest > latest
        THEN [answered EXCEPT !.info_required = TRUE]
        ELSE [current EXCEPT !.latest_sequence = latest,
                             !.info_required = FALSE,
                             !.bootstrap_complete = TRUE,
                             !.next_sequence = Resumed(@, info)]

\* The record to ask for next when the heartbeat tells of new ones.
Requested(sync, heartbeat) ==
    IF sync.next_sequence # None THEN sync.next_sequence
    ELSE IF sync.last_saved_sequence > 0 THEN sync.last_saved_sequence + 1
    ELSE heartbeat.latest - heartbeat.count + 1

\* A mutated HeartbeatHandled: neither a log that went back nor records that
\* were overwritten are noticed.
SlipHeartbeatHandled(sync, heartbeat) ==
    LET heard == [sync EXCEPT !.heartbeat_ready = TRUE,
                              !.heartbeat_timeout_active = FALSE]
    IN  IF sync.bootstrap_complete /\ heartbeat.latest > sync.latest_sequence
        THEN [heard EXCEPT !.next_sequence = Requested(sync, heartbeat),
                           !.latest_sequence = heartbeat.latest]
        ELSE heard

\* _handle_heartbeat
HeartbeatHandled(sync, heartbeat) ==
    LET heard == [sync EXCEPT !.heartbeat_ready = TRUE,
                              !.heartbeat_timeout_active = FALSE]
        requested == Requested(sync, heartbeat)
    IN  IF ~sync.bootstrap_complete \/ heartbeat.latest = sync.latest_sequence
        THEN heard
        ELSE IF heartbeat.latest < sync.latest_sequence
        THEN [heard EXCEPT !.info_required = TRUE, !.next_sequence = None]
        ELSE IF requested < heartbeat.latest - heartbeat.count + 1
        THEN [heard EXCEPT !.info_required = TRUE]
        ELSE [heard EXCEPT !.next_sequence = requested,
                           !.latest_sequence = heartbeat.latest]

\* The error frame: the requested record is not in the log any more.
ErrorHandled(sync) ==
    [sync EXCEPT !.pending_kind = "none", !.pending_sequence = None,
                 !.next_sequence = None, !.info_required = TRUE]

-----------------------------------------------------------------------------
\* The record in the fragments: the number is in the first of them.
Assembled(sync) ==
    [sequence |-> sync.record_fragments[1].sequence,
     event |-> sync.record_fragments[2].event]

\* A mutated Acceptable: the CRC is not compared.
SlipAcceptable(sync) == Assembled(sync).sequence = sync.pending_sequence

\* The CRC and the sequence number of _complete_record.
Acceptable(sync) ==
    /\ sync.record_fragments[1] = sync.record_fragments[2]
    /\ Assembled(sync).sequence = sync.pending_sequence

\* A mutated RecordTaken: the record is passed before it is in the file.
SlipRecordTaken(sync) ==
    [sync EXCEPT !.pending_kind = "none", !.pending_sequence = None,
                 !.record_fragments = NoFragments,
                 !.next_sequence = sync.pending_sequence + 1]

RecordTaken(sync) ==
    [sync EXCEPT !.pending_kind = "none", !.pending_sequence = None,
                 !.record_fragments = NoFragments]

\* The end of _complete_record, with the record in the file.
RecordSaved(sync, sequence) ==
    [RecordTaken(sync) EXCEPT !.saved_sequences = @ \cup {sequence},
                              !.record_retries[sequence] = 0,
                              !.last_saved_sequence = sequence,
                              !.next_sequence = sequence + 1]

GivesUp(sync) ==
    sync.record_retries[sync.pending_sequence] + 1 > MaxRecordRetries

\* _reject_record
RecordRejected(sync) ==
    LET sequence == sync.pending_sequence
    IN  IF GivesUp(sync)
        THEN [RecordTaken(sync) EXCEPT !.record_retries[sequence] = 0,
                                       !.next_sequence = sequence + 1]
        ELSE [RecordTaken(sync) EXCEPT !.record_retries[sequence] = @ + 1]
=============================================================================
