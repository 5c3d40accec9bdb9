---------------------------- MODULE LogTransfer -----------------------------
(***************************************************************************)
(* The transfer of the event log: the firmware with app_log.c and          *)
(* app_log_can.c, the desktop tool with stm32_log_sync.py, and the bus     *)
(* between them.  Requests and responses arrive in the order they were     *)
(* sent; a heartbeat arrives at once or is overtaken by responses.         *)
(***************************************************************************)
EXTENDS AppLog, Stm32LogSync

CONSTANTS
    MaxFaults,      \* bound on lost and late frames and on failed writes
    MaxResets       \* bound on the resets of the firmware

\* The numbers that the reader computes from those it is told.
ASSUME ReaderAssumption ==
    /\ None \notin Int
    /\ ReaderSequences \subseteq Int
    /\ (1 - Capacity) .. SequenceModulus \subseteq ReaderSequences

VARIABLES
    toDevice,       \* requests under way
    toReader,       \* fragments under way
    heartbeat,      \* the heartbeat under way, or None
    sync,           \* the attributes of Stm32LogSync
    exported,       \* the records in the files of this connection
    skipped,        \* history: the sequence numbers the reader gave up
    asked,          \* history: the last record asked for, or None once the
                    \* reader has gone back to one before it
    mixed,          \* history: the last information was of two answers
    wrapped,        \* history: the sequence numbers have wrapped
    late,           \* history: the answers that came too late
    faults, resets

bus == <<toDevice, toReader, heartbeat>>
rows == <<exported, skipped, asked, mixed>>
reader == <<sync, rows>>
bounds == <<wrapped, late, faults, resets>>
vars == <<logVars, bus, reader, bounds>>

\* The ring holds sequence numbers from before and after the wrap.
Straddles == Info.oldest > Info.latest

Fault == faults < MaxFaults /\ faults' = faults + 1

Init ==
    /\ InitLog
    /\ toDevice = <<>> /\ toReader = <<>> /\ heartbeat = None
    /\ sync = ResetSync /\ exported = {} /\ skipped = {}
    /\ asked = 0 /\ mixed = FALSE
    /\ wrapped = Straddles /\ late = 0 /\ faults = 0 /\ resets = 0

-----------------------------------------------------------------------------
\* The firmware.

LogEvent ==
    /\ Push
    /\ wrapped' = (wrapped \/ Straddles')
    /\ UNCHANGED <<bus, reader, late, faults, resets>>

Parts(kind, content) ==
    <<[kind |-> kind, part |-> 1, content |-> content],
      [kind |-> kind, part |-> 2, content |-> content]>>

\* App_Log_Can_SendInfo, App_Log_Can_SendRecord, App_Log_Can_SendNotFound
Response(request) ==
    IF request.kind = "info" THEN Parts("info", Info)
    ELSE IF Found(request.sequence) = {}
    THEN <<[kind |-> "error", part |-> 1, content |-> request.sequence]>>
    ELSE Parts("record", CHOOSE record \in Found(request.sequence) : TRUE)

\* The transport may refuse a fragment, which ends the response; without any,
\* the request is lost.
Answer ==
    /\ toDevice # <<>>
    /\ LET response == Response(Head(toDevice))
       IN  \/ toReader' = toReader \o response /\ UNCHANGED faults
           \/ /\ Fault
              /\ \E n \in 0 .. Len(response) - 1 :
                    toReader' = toReader \o SubSeq(response, 1, n)
    /\ toDevice' = Tail(toDevice)
    /\ UNCHANGED <<logVars, heartbeat, reader, wrapped, late, resets>>

\* The content of a heartbeat.
Beat == [latest |-> Info.latest, count |-> Info.count]

\* A reset loses the requests received and the fragments not sent yet; to
\* find the RAM out of reach is a fault.
Reset ==
    /\ resets < MaxResets /\ resets' = resets + 1
    /\ ResetAtRest \/ ResetInPush
    /\ wrapped' = (wrapped \/ Straddles')
    /\ IF storage_ready' THEN UNCHANGED faults ELSE Fault
    /\ toDevice' = <<>>
    /\ \E n \in 0 .. Len(toReader) : toReader' = SubSeq(toReader, 1, n)
    /\ heartbeat' \in {heartbeat, None}
    /\ UNCHANGED <<reader, late>>

-----------------------------------------------------------------------------
\* The desktop tool.

RequestInfo ==
    /\ WantsInfo(sync)
    /\ sync' = InfoRequested(sync)
    /\ toDevice' = Append(toDevice, [kind |-> "info", sequence |-> 0])
    /\ UNCHANGED <<logVars, toReader, heartbeat, rows, bounds>>

\* The number is sent as 32 bits.
RequestRecord ==
    /\ WantsRecord(sync)
    /\ sync' = RecordRequested(sync)
    /\ toDevice' = Append(toDevice,
                          [kind |-> "record",
                           sequence |-> sync.next_sequence % SequenceModulus])
    /\ asked' = IF asked # None /\ asked <= sync.next_sequence
                THEN sync.next_sequence ELSE None
    /\ UNCHANGED <<logVars, toReader, heartbeat, exported, skipped, mixed, bounds>>

\* No answer within the second, either because it is lost or because it is late.
Timeout ==
    /\ sync.pending_kind # "none"
    /\ sync' = RequestTimedOut(sync)
    /\ \/ toDevice = <<>> /\ toReader = <<>> /\ UNCHANGED <<faults, late>>
       \/ Fault /\ late' = late + 1
    /\ UNCHANGED <<logVars, bus, rows, wrapped, resets>>

\* _update_heartbeat_timeout
HeartbeatTimeout ==
    /\ Fault
    /\ sync.heartbeat_ready /\ ~sync.heartbeat_timeout_active
    /\ sync' = [sync EXCEPT !.heartbeat_timeout_active = TRUE]
    /\ UNCHANGED <<logVars, bus, rows, wrapped, late, resets>>

\* App_Log_Can_Process sends a heartbeat and _handle_heartbeat takes it.
Heartbeat ==
    /\ heartbeat = None
    /\ sync' = HeartbeatHandled(sync, Beat)
    /\ UNCHANGED <<logVars, bus, rows, bounds>>

\* Responses have priority, so that a heartbeat may be overtaken by them.
DelayHeartbeat ==
    /\ heartbeat = None /\ Fault
    /\ heartbeat' = Beat
    /\ UNCHANGED <<logVars, toDevice, toReader, reader, wrapped, late, resets>>

HandleDelayedHeartbeat ==
    /\ heartbeat # None
    /\ sync' = HeartbeatHandled(sync, heartbeat)
    /\ heartbeat' = None
    /\ UNCHANGED <<logVars, toDevice, toReader, rows, bounds>>

\* A record with all its fragments, in taken: it is written, unless it is in
\* the file already, or rejected.  When it cannot be written it stays the next.
CompleteRecord(taken) ==
    LET record == Assembled(taken)
    IN  IF ~Acceptable(taken)
        THEN /\ sync' = RecordRejected(taken)
             /\ skipped' = IF GivesUp(taken)
                           THEN skipped \cup {taken.pending_sequence}
                           ELSE skipped
             /\ UNCHANGED <<exported, faults>>
        ELSE /\ UNCHANGED skipped
             /\ \/ /\ sync' = RecordSaved(taken, record.sequence)
                   /\ exported' = IF record.sequence \in taken.saved_sequences
                                  THEN exported
                                  ELSE exported \cup {record}
                   /\ UNCHANGED faults
                \/ /\ record.sequence \notin taken.saved_sequences
                   /\ Fault
                   /\ sync' = RecordTaken(taken)
                   /\ UNCHANGED exported

HandleInfo(frame) ==
    LET taken == [sync EXCEPT !.info_fragments[frame.part] = frame.content]
    IN  /\ IF sync.pending_kind # "info"
           THEN UNCHANGED <<sync, mixed>>
           ELSE IF Complete(taken.info_fragments)
           THEN /\ sync' = InfoCompleted(taken)
                /\ mixed' = (taken.info_fragments[1] # taken.info_fragments[2])
           ELSE sync' = taken /\ UNCHANGED mixed
        /\ UNCHANGED <<exported, skipped, asked, faults>>

HandleRecord(frame) ==
    LET taken == [sync EXCEPT !.record_fragments[frame.part] = frame.content]
    IN  IF sync.pending_kind # "record"
        THEN UNCHANGED <<reader, faults>>
        ELSE IF Complete(taken.record_fragments)
        THEN CompleteRecord(taken) /\ UNCHANGED <<asked, mixed>>
        ELSE sync' = taken /\ UNCHANGED <<rows, faults>>

\* handle_message for the response identifier
HandleResponse ==
    /\ toReader # <<>>
    /\ LET frame == Head(toReader)
       IN  \/ frame.kind = "info" /\ HandleInfo(frame)
           \/ frame.kind = "record" /\ HandleRecord(frame)
           \/ /\ frame.kind = "error"
              /\ sync' = ErrorHandled(sync)
              /\ UNCHANGED <<rows, faults>>
    /\ toReader' = Tail(toReader)
    /\ UNCHANGED <<logVars, toDevice, heartbeat, wrapped, late, resets>>

\* The adapter or the bus loses a fragment.
Lose ==
    /\ Fault
    /\ toReader # <<>> /\ toReader' = Tail(toReader)
    /\ UNCHANGED <<logVars, toDevice, heartbeat, reader, wrapped, late, resets>>

\* A new connection starts a new file; answers to the old one may still come.
Reconnect ==
    /\ Fault /\ late' = late + 1
    /\ sync' = ResetSync /\ exported' = {} /\ skipped' = {}
    /\ asked' = 0 /\ mixed' = FALSE
    /\ UNCHANGED <<logVars, bus, wrapped, resets>>

-----------------------------------------------------------------------------
Next ==
    \/ LogEvent \/ Answer \/ Reset
    \/ RequestInfo \/ RequestRecord \/ Timeout \/ HeartbeatTimeout
    \/ Heartbeat \/ DelayHeartbeat \/ HandleDelayedHeartbeat
    \/ HandleResponse \/ Reconnect \/ Lose

Spec == Init /\ [][Next]_vars

(***************************************************************************)
(* The main loop answers and sends heartbeats, and the timers of the tool  *)
(* keep polling.                                                           *)
(***************************************************************************)
FairSpec ==
    /\ Spec
    /\ WF_vars(Answer) /\ WF_vars(Heartbeat)
    /\ WF_vars(RequestInfo) /\ WF_vars(RequestRecord) /\ WF_vars(Timeout)
    /\ WF_vars(HandleDelayedHeartbeat) /\ WF_vars(HandleResponse)

-----------------------------------------------------------------------------
Records == [sequence : 1 .. SequenceModulus - 1, event : 1 .. MaxEvents]

\* The types of the variables, with the bounds that the code relies on: the
\* ring index and count are in range, and no retry count passes its limit.
TypeOK ==
    /\ \A i \in Indices :
          /\ slots[i].body \in Records \cup {Blank}
          /\ slots[i].commit \in {slots[i].body, Blank}
    /\ head_index \in Indices /\ tail_index \in Indices
    /\ count \in 0 .. Capacity
    /\ next_sequence \in 1 .. SequenceModulus - 1
    /\ storage_ready \in BOOLEAN
    /\ sync.pending_kind \in {"none", "info", "record"}
    /\ sync.pending_kind = "record" <=> sync.pending_sequence # None
    /\ sync.next_sequence \in ReaderSequences \cup {None}
    /\ sync.saved_sequences \subseteq 1 .. SequenceModulus - 1
    /\ \A sequence \in ReaderSequences :
          sync.record_retries[sequence] \in 0 .. MaxRecordRetries

\* The rows tell the events in the order they happened: none is put together
\* from two answers or filed under the number of another.
RowsInOrder ==
    ~wrapped => \A row, other \in exported :
        row.event < other.event <=> row.sequence < other.sequence

\* The reader is through with the log: it knows of the newest record, waits
\* for nothing and has nothing left to ask for.  The panel says
\* "synchronized" of less: a ready heartbeat is enough for it.
CaughtUp ==
    /\ sync.bootstrap_complete /\ ~sync.info_required
    /\ sync.heartbeat_ready /\ ~sync.heartbeat_timeout_active
    /\ sync.pending_kind = "none" /\ ~WantsRecord(sync)
    /\ sync.latest_sequence = Info.latest

\* When the reader stops asking, what the log holds is in the files, unless it
\* put the information together from two answers, or the sequence numbers,
\* which it compares as they are, have wrapped.
SavedWhenCaughtUp ==
    CaughtUp /\ ~mixed /\ ~wrapped =>
        \A n \in 1 .. count :
            Logged[n] \in exported \/ Logged[n].sequence \in skipped

\* As few late answers as there are retries never cost a record, as long as the
\* reader does not go back to one that it has asked for before a later one.
LateAnswersAreHarmless ==
    ~wrapped /\ asked # None /\ late <= MaxRecordRetries => skipped = {}

\* A reader that has nothing left to ask for has saved the log, but for records
\* that it gave up after more late answers than it has retries (process and
\* _reject_record of stm32_log_sync.py).
CaughtUpMeansSaved == SavedWhenCaughtUp /\ LateAnswersAreHarmless

\* The reader catches up with the log, whatever was lost or late.
CatchesUp == []<>(CaughtUp \/ Straddles)

\* The ring in RAM, with resets at any store, is the log its readers expect.
Retained ==
    LET found == Recovered(slots)
    IN  [n \in 1 .. found[3] |-> RecordAt((found[2] + n - 1) % Capacity)]
Log == INSTANCE EventLog WITH
    Events <- 1 .. MaxEvents,
    log <- IF storage_ready THEN Logged ELSE Retained
ImplementsEventLog == Log!Spec
=============================================================================
