---------------------------- MODULE CanTransport ----------------------------
(***************************************************************************)
(* The transmit queue between the firmware's publishers and the FDCAN      *)
(* controller, Core/Src/can_transport.c.  Every caller runs in the main    *)
(* loop, so a request is one step; the controller transmits, and is        *)
(* stopped and started by bus-off recovery, between any two steps.         *)
(*                                                                         *)
(* A frame is an identifier (with its type) and a value.  Statistics other *)
(* than the queue-stuck state are left out.                                *)
(***************************************************************************)
EXTENDS Integers, Sequences, SequencesExt

CONSTANTS
    Ids, Values,        \* identifiers and payloads
    Classic, Latest, HighPriority,
                        \* the frames sent with each of the three functions
    Capacity,           \* CAN_TRANSPORT_TX_QUEUE_CAPACITY
    FifoDepth,          \* elements of the controller's transmit FIFO
    StuckTimeout,       \* CAN_TRANSPORT_QUEUE_STUCK_TIMEOUT_MS, in ticks
    TickModulus,        \* 2^32: HAL_GetTick is a uint32_t; 1 stops the time
    MaxStops,           \* bound: how often the controller is stopped
    Nothing             \* nothing was handed to the controller yet

Frames == [id : Ids, value : Values]

ASSUME FramesAssumption ==
    /\ Classic \subseteq Frames
    /\ Latest \subseteq Frames
    /\ HighPriority \subseteq Frames
    /\ Nothing \notin Values

ASSUME SizeAssumption ==
    /\ Capacity \in Nat \ {0} /\ FifoDepth \in Nat \ {0}
    /\ StuckTimeout \in Nat \ {0} /\ TickModulus \in Nat \ {0}
    /\ MaxStops \in Nat

\* The tick does not wrap within the timeout (1000 ms against 49 days).
ASSUME TickAssumption == TickModulus = 1 \/ StuckTimeout < TickModulus

VARIABLES
    can_handle,     \* is it not NULL?
    tx_queue,       \* the first tx_queue_count elements of the array
    health,         \* queue_pending_..., queue_stuck_...
    result,         \* what the last request returned
    call,           \* is CAN_Transport_Process in its loop?
    tick, polled,   \* HAL_GetTick; has CAN_Transport_Process run since?
    started,        \* is hfdcan->State HAL_FDCAN_STATE_BUSY?
    fifo_level,     \* elements in use of the controller's FIFO
    stops,          \* how often the controller was stopped
    handed,         \* history: the message given to the controller last
    newest,         \* history: for each identifier, the last value requested
    age             \* history: ticks since the queue became non-empty

controller == <<started, fifo_level, stops>>
time == <<tick, polled>>
vars == <<can_handle, tx_queue, health, result, call, time, controller,
          handed, newest, age>>

Messages == [id : Ids, value : Values,
             high_priority : BOOLEAN, replaceable : BOOLEAN]
Ticks == 0 .. (TickModulus - 1)

TypeOK ==
    /\ can_handle \in BOOLEAN
    /\ tx_queue \in Seq(Messages) /\ Len(tx_queue) <= Capacity
    /\ health \in [pending_since_tick : Ticks, timer_active : BOOLEAN,
                   stuck_reported : BOOLEAN, stuck_active : BOOLEAN]
    /\ result \in {"OK", "QUEUED", "QUEUE_FULL", "NOT_INITIALIZED"}
    /\ call \in {"idle", "draining"}
    /\ tick \in Ticks /\ polled \in BOOLEAN
    /\ started \in BOOLEAN
    /\ fifo_level \in 0 .. FifoDepth
    /\ stops \in 0 .. MaxStops
    /\ handed \in Messages \cup {Nothing}
    /\ newest \in [Ids -> Values \cup {Nothing}]
    /\ age \in 0 .. StuckTimeout

\* CAN_App_InitHardware leaves the transport with or without a controller.
Init ==
    /\ can_handle \in BOOLEAN
    /\ tx_queue = <<>>
    /\ health = [pending_since_tick |-> 0, timer_active |-> FALSE,
                 stuck_reported |-> FALSE, stuck_active |-> FALSE]
    /\ result = "OK"
    /\ call = "idle"
    /\ tick = 0 /\ polled = TRUE
    /\ started = can_handle /\ fifo_level = 0 /\ stops = 0
    /\ handed = Nothing
    /\ newest = [id \in Ids |-> Nothing]
    /\ age = 0

----------------------------------------------------------------------------
(* The controller.                                                         *)

firmware == <<can_handle, tx_queue, health, result, call, handed, newest, age>>

Transmit ==
    /\ started /\ fifo_level > 0
    /\ fifo_level' = fifo_level - 1
    /\ UNCHANGED <<firmware, time, started, stops>>

\* Entering configuration mode resets the FIFO; a stop that times out does not.
ControllerStops ==
    /\ started /\ stops < MaxStops
    /\ started' = FALSE
    /\ stops' = stops + 1
    /\ fifo_level' \in {0, fifo_level}
    /\ UNCHANGED <<firmware, time>>

ControllerStarts ==
    /\ can_handle /\ ~started
    /\ started' = TRUE
    /\ UNCHANGED <<firmware, time, fifo_level, stops>>

Tick ==
    /\ polled /\ call = "idle"
    /\ tick' = (tick + 1) % TickModulus
    /\ polled' = (TickModulus = 1)
    /\ age' = IF tx_queue = <<>> \/ age = StuckTimeout \/ TickModulus = 1
              THEN age ELSE age + 1
    /\ UNCHANGED <<can_handle, tx_queue, health, result, call, controller,
                   handed, newest>>

----------------------------------------------------------------------------
(* Requests.                                                               *)

\* Slip: the latch is missing and the state follows the tick difference.
SlipHealthWithoutLatch(h, count) ==
    LET since == IF h.timer_active THEN h.pending_since_tick ELSE tick
        stuck == (tick - since + TickModulus) % TickModulus >= StuckTimeout
    IN  IF count = 0
        THEN [h EXCEPT !.timer_active = FALSE, !.stuck_reported = FALSE,
                       !.stuck_active = FALSE]
        ELSE [pending_since_tick |-> since, timer_active |-> TRUE,
              stuck_reported |-> stuck, stuck_active |-> stuck]

\* CAN_Transport_UpdateQueueHealth
UpdatedHealth(h, count) ==
    LET since == IF h.timer_active THEN h.pending_since_tick ELSE tick
        reported == h.timer_active /\ h.stuck_reported
        stuck == /\ (tick - since + TickModulus) % TickModulus >= StuckTimeout
                 /\ ~reported
    IN  IF count = 0
        THEN [h EXCEPT !.timer_active = FALSE, !.stuck_reported = FALSE,
                       !.stuck_active = FALSE]
        ELSE [pending_since_tick |-> since, timer_active |-> TRUE,
              stuck_reported |-> reported \/ stuck,
              stuck_active |-> h.stuck_active \/ stuck]

\* CAN_Transport_TryHardwareSend succeeds.
Sendable == started /\ fifo_level < FifoDepth

\* Slip: the last message is evicted, whatever it is.
SlipEvictLast(q) == Len(q)

\* The position of the message an event evicts, 0 if none can be.
EvictIndex(q) == SelectLastInSeq(q, LAMBDA m : m.replaceable)

\* Slips: an event goes to the very front, or behind the first periodic message.
SlipInsertFirst(q, m) == IF m.high_priority THEN 1 ELSE Len(q) + 1
SlipInsertBehindPeriodic(q, m) ==
    LET periodic == {i \in DOMAIN q : ~q[i].high_priority}
    IN  IF m.high_priority /\ periodic # {}
        THEN 1 + CHOOSE i \in periodic : \A j \in periodic : i <= j
        ELSE Len(q) + 1

\* Behind the other events, or at the end.
InsertIndex(q, m) ==
    LET periodic == {i \in DOMAIN q : ~q[i].high_priority}
    IN  IF m.high_priority /\ periodic # {}
        THEN CHOOSE i \in periodic : \A j \in periodic : i <= j
        ELSE Len(q) + 1

\* Slip: the last message of the queue is not looked at.
SlipPendingButLast(q, m) ==
    SelectInSubSeq(q, 1, Len(q) - 1, LAMBDA p : p.id = m.id /\ p.replaceable)

\* CAN_Transport_FindPending
FindPending(q, m) ==
    SelectInSeq(q, LAMBDA p : p.id = m.id /\ p.replaceable)

HandOver(m) ==
    /\ fifo_level' = fifo_level + 1
    /\ handed' = m
    /\ UNCHANGED <<started, stops>>

\* The message goes into q, which has room.
Insert(q, m) ==
    /\ tx_queue' = InsertAt(q, InsertIndex(q, m), m)
    /\ result' = "QUEUED"
    /\ IF tx_queue = <<>>
       THEN /\ health' = [pending_since_tick |-> tick, timer_active |-> TRUE,
                          stuck_reported |-> FALSE, stuck_active |-> FALSE]
            /\ age' = 0
       ELSE /\ health' = UpdatedHealth(health, Len(tx_queue))
            /\ UNCHANGED age

\* A request that leaves the queue as long as it was.
Answer(r) ==
    /\ result' = r
    /\ health' = UpdatedHealth(health, Len(tx_queue))
    /\ UNCHANGED age

Enqueue(m) ==
    \/ /\ Len(tx_queue) < Capacity
       /\ Insert(tx_queue, m)
    \/ /\ Len(tx_queue) = Capacity
       /\ m.high_priority /\ EvictIndex(tx_queue) # 0
       /\ Insert(RemoveAt(tx_queue, EvictIndex(tx_queue)), m)
    \/ /\ Len(tx_queue) = Capacity
       /\ ~(m.high_priority /\ EvictIndex(tx_queue) # 0)
       /\ Answer("QUEUE_FULL")
       /\ UNCHANGED tx_queue

\* CAN_Transport_SendClassicInternal, with a controller
Request(m) ==
    \/ /\ tx_queue = <<>> /\ Sendable
       /\ HandOver(m)
       /\ Answer("OK")
       /\ UNCHANGED tx_queue
    \/ /\ ~(tx_queue = <<>> /\ Sendable)
       /\ m.replaceable /\ FindPending(tx_queue, m) # 0
       /\ tx_queue' = [tx_queue EXCEPT ![FindPending(tx_queue, m)].value =
                                            m.value]
       /\ Answer("QUEUED")
       /\ UNCHANGED <<controller, handed>>
    \/ /\ ~(tx_queue = <<>> /\ Sendable)
       /\ ~(m.replaceable /\ FindPending(tx_queue, m) # 0)
       /\ Enqueue(m)
       /\ UNCHANGED <<controller, handed>>

Send(frame, replace_pending, high_priority) ==
    LET m == [id |-> frame.id, value |-> frame.value,
              high_priority |-> high_priority, replaceable |-> replace_pending]
    IN  /\ call = "idle"
        /\ \/ can_handle /\ Request(m)
           \/ /\ ~can_handle
              /\ result' = "NOT_INITIALIZED"
              /\ UNCHANGED <<tx_queue, health, age, controller, handed>>
        /\ newest' = IF replace_pending
                     THEN [newest EXCEPT ![frame.id] = frame.value]
                     ELSE newest
        /\ UNCHANGED <<can_handle, call, time>>

SendClassic == \E f \in Classic : Send(f, FALSE, FALSE)
SendClassicLatest == \E f \in Latest : Send(f, TRUE, FALSE)

Waits(f) ==
    \E i \in DOMAIN tx_queue : /\ tx_queue[i].high_priority
                               /\ tx_queue[i].id = f.id
                               /\ tx_queue[i].value = f.value

\* A waiting event is known by its frame, which is not sent again meanwhile.
SendClassicHighPriority ==
    \E f \in HighPriority : ~Waits(f) /\ Send(f, FALSE, TRUE)

----------------------------------------------------------------------------
(* CAN_Transport_Process and CAN_Transport_GetStats.                       *)

ProcessBegins ==
    /\ call = "idle"
    /\ IF can_handle
       THEN /\ call' = "draining"
            /\ health' = UpdatedHealth(health, Len(tx_queue))
            /\ UNCHANGED polled
       ELSE polled' = TRUE /\ UNCHANGED <<call, health>>
    /\ UNCHANGED <<can_handle, tx_queue, result, tick, controller, handed,
                   newest, age>>

DrainOne ==
    /\ call = "draining"
    /\ tx_queue # <<>> /\ Sendable
    /\ HandOver(Head(tx_queue))
    /\ tx_queue' = Tail(tx_queue)
    /\ age' = IF Len(tx_queue) = 1 THEN 0 ELSE age
    /\ UNCHANGED <<can_handle, health, result, call, time, newest>>

ProcessEnds ==
    /\ call = "draining"
    /\ tx_queue = <<>> \/ ~Sendable
    /\ call' = "idle"
    /\ health' = UpdatedHealth(health, Len(tx_queue))
    /\ polled' = TRUE
    /\ UNCHANGED <<can_handle, tx_queue, result, tick, controller, handed,
                   newest, age>>

Process == ProcessBegins \/ DrainOne \/ ProcessEnds

GetStats ==
    /\ call = "idle"
    /\ health' = UpdatedHealth(health, Len(tx_queue))
    /\ UNCHANGED <<can_handle, tx_queue, result, call, time, controller,
                   handed, newest, age>>

Publish == SendClassic \/ SendClassicLatest \/ SendClassicHighPriority

Next ==
    \/ Publish \/ Process \/ GetStats
    \/ Transmit \/ ControllerStops \/ ControllerStarts \/ Tick

Spec == Init /\ [][Next]_vars

(***************************************************************************)
(* Fairness: the main loop calls CAN_Transport_Process for ever (twice per *)
(* CAN_App_Process), the bus takes frames, and a stopped controller is     *)
(* started again.  Nobody has to publish anything, and nothing limits how  *)
(* much is published.                                                      *)
(***************************************************************************)
Fairness ==
    /\ WF_vars(Process)
    /\ WF_vars(Transmit)
    /\ WF_vars(ControllerStarts)

FairSpec == Spec /\ Fairness

----------------------------------------------------------------------------
(* Correctness.                                                            *)

\* The number of events: the position of the last one (EventsFirst).
EventCount(q) == SelectLastInSeq(q, LAMBDA m : m.high_priority)

Events(q) == SubSeq(q, 1, EventCount(q))
Periodic(q) == SubSeq(q, EventCount(q) + 1, Len(q))

\* The queue is what the publishers are promised: the refinement maps the one
\* array to the events at its front and the periodic messages behind them.
Service == INSTANCE CanTxService WITH
    events <- Events(tx_queue),
    periodic <- Periodic(tx_queue)

ImplementsService == Service!Spec

\* Events are ahead of periodic messages, so the first element is always the
\* one to send.
EventsFirst ==
    \A i, j \in DOMAIN tx_queue :
        i < j /\ tx_queue[j].high_priority => tx_queue[i].high_priority

\* No periodic value is stale: an identifier waits once, with the value that
\* was requested last, even if requests were refused meanwhile.
FreshOnce ==
    \A i \in DOMAIN tx_queue :
        tx_queue[i].replaceable =>
            /\ tx_queue[i].value = newest[tx_queue[i].id]
            /\ \A j \in DOMAIN tx_queue :
                  (tx_queue[j].replaceable /\ tx_queue[j].id = tx_queue[i].id)
                      => i = j

\* Between calls the queue is reported as stuck only when it has not been
\* empty for the timeout, and always after the poll that follows, although
\* the tick wraps while it stays that way.
StuckIsReported ==
    call = "idle" =>
        /\ health.stuck_active => tx_queue # <<>> /\ age = StuckTimeout
        /\ (polled /\ tx_queue # <<>> /\ age = StuckTimeout)
               => health.stuck_active

\* Every accepted event reaches the controller, whatever is published later.
EventsReachController ==
    \A f \in HighPriority : Waits(f) ~> ~Waits(f)
=============================================================================
