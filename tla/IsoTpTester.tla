---------------------------- MODULE IsoTpTester -----------------------------
(***************************************************************************)
(* The tester's end of the diagnostic connection: IsoTpClient of           *)
(* isotp_client.py under the request queue of UdsClient in uds_client.py.  *)
(* CanSession hands it every frame that has arrived and then polls it;     *)
(* queueing a request polls it as well.  Whatever ends a request is        *)
(* followed, in the same call, by the start of the next one that waits.    *)
(*                                                                         *)
(* The separation time between consecutive frames is shorter than a tick.  *)
(***************************************************************************)
EXTENDS IsoTpBus

VARIABLES
    tester,     \* _state, _buffer, _tx_offset, _tx_block_remaining, _deadline
    issued,     \* the last request queued
    current,    \* the last request started
    outcome,    \* for each request, what its callback was told
    answer      \* history: for each request, the content taken as its response

peer == <<tester, issued, current, outcome, answer>>

Idle == [state |-> "IDLE", buffer |-> <<>>, offset |-> 0, block |-> 0,
         timer |-> 0]

InitTester ==
    /\ tester = Idle
    /\ issued = 0 /\ current = 0
    /\ outcome = [r \in Requests |-> "none"]
    /\ answer = [r \in Requests |-> <<>>]

\* A mutated Started: the deadline is not set.
SlipStartedWithoutDeadline(r) ==
    IF RequestSize[r] = 1
    THEN [Idle EXCEPT !.state = "WAIT_RESPONSE"]
    ELSE [Idle EXCEPT !.state = "WAIT_FLOW_CONTROL", !.offset = 1]

Started(r) ==
    IF RequestSize[r] = 1
    THEN [Idle EXCEPT !.state = "WAIT_RESPONSE", !.timer = Timeout]
    ELSE [Idle EXCEPT !.state = "WAIT_FLOW_CONTROL", !.timer = Timeout,
                      !.offset = 1]

(***************************************************************************)
(* _finish_transport and _start_next at the end of every call: t is the    *)
(* state the transport was left in, r the last request queued, outcomes    *)
(* what the callbacks know, channel the frames sent, spent the faults.     *)
(***************************************************************************)
Conclude(t, r, outcomes, channel, spent) ==
    \/ /\ t.state # "IDLE" \/ current = r
       /\ tester' = t /\ outcome' = outcomes
       /\ toFirmware' = channel /\ faults' = spent
       /\ UNCHANGED current
    \/ /\ t.state = "IDLE" /\ current < r
       /\ current' = current + 1
       /\ \E fate \in Fates :
             /\ spent + Cost(fate) <= MaxFaults
             /\ faults' = spent + Cost(fate)
             /\ toFirmware' =
                   Carry(channel, Opening(current', RequestSize[current']), fate)
             /\ tester' = IF fate = "refused" THEN Idle ELSE Started(current')
             /\ outcome' = IF fate = "refused"
                           THEN [outcomes EXCEPT ![current'] = "failed"]
                           ELSE outcomes

Goes(t, r) == Conclude(t, r, outcome, toFirmware, faults)
Fails(r) ==
    Conclude(Idle, r, [outcome EXCEPT ![current] = "failed"], toFirmware, faults)

Complete(content) ==
    /\ answer' = [answer EXCEPT ![current] = content]
    /\ Conclude(Idle, issued, [outcome EXCEPT ![current] = "answered"],
                toFirmware, faults)

\* _pump_tx: one consecutive frame of the request under way, with block
\* frames left before the next flow control.
Pump(t, r) ==
    LET offset == t.offset + 1
        block == t.block - 1
        next == [t EXCEPT !.offset = offset, !.block = block,
                          !.timer = Timeout,
                          !.state = CASE offset = RequestSize[current]
                                           -> "WAIT_RESPONSE"
                                      [] offset # RequestSize[current]
                                         /\ block = 0 -> "WAIT_FLOW_CONTROL"
                                      [] OTHER -> "TRANSMITTING"]
        frame == Consecutive(Segment(current, offset), t.offset)
    IN  \E fate \in Fates :
            /\ faults + Cost(fate) <= MaxFaults
            /\ IF fate = "refused"
               THEN Conclude(Idle, r, [outcome EXCEPT ![current] = "failed"],
                             toFirmware, faults + 1)
               ELSE Conclude(next, r, outcome,
                             Carry(toFirmware, frame, fate),
                             faults + Cost(fate))

\* process: send, or notice the timeout, or start a waiting request.
Process(r) ==
    \/ /\ tester.state = "TRANSMITTING"
       /\ Pump(tester, r)
    \/ /\ tester.state \notin {"TRANSMITTING", "IDLE"} /\ tester.timer = 0
       /\ Fails(r)
    \/ /\ tester.state # "TRANSMITTING"
       /\ tester.state = "IDLE" \/ tester.timer > 0
       /\ Goes(tester, r)

\* _enqueue, which calls process.
Enqueue ==
    /\ issued < MaxRequests
    /\ issued' = issued + 1
    /\ Process(issued + 1)
    /\ UNCHANGED <<answer, toTester>>

Poll ==
    /\ Process(issued)
    /\ UNCHANGED <<issued, answer, toTester>>

HandleSingleFrame(frame) ==
    /\ frame.type = "SINGLE"
    /\ IF tester.state = "WAIT_RESPONSE"
       THEN Complete(<<frame.segment>>)
       ELSE Fails(issued) /\ UNCHANGED answer

\* The flow control it answers with uses the request identifier.
HandleFirstFrame(frame) ==
    /\ frame.type = "FIRST"
    /\ \/ /\ tester.state # "WAIT_RESPONSE"
          /\ Fails(issued)
       \/ /\ tester.state = "WAIT_RESPONSE"
          /\ \E fate \in Fates :
                /\ faults + Cost(fate) <= MaxFaults
                /\ IF fate = "refused"
                   THEN Conclude(Idle, issued,
                                 [outcome EXCEPT ![current] = "failed"],
                                 toFirmware, faults + 1)
                   ELSE Conclude([Idle EXCEPT !.state = "RECEIVING",
                                              !.buffer = <<frame.segment>>,
                                              !.timer = Timeout],
                                 issued, outcome,
                                 Carry(toFirmware,
                                       ContinueToSend(frame.segment), fate),
                                 faults + Cost(fate))
    /\ UNCHANGED answer

HandleConsecutiveFrame(frame) ==
    LET buffer == Append(tester.buffer, frame.segment)
        expected == /\ tester.state = "RECEIVING"
                    /\ frame.number = SequenceNumber(Len(tester.buffer))
        ends == Len(buffer) = ResponseSize[Head(buffer)[1]]
    IN  /\ frame.type = "CONSECUTIVE"
        /\ \/ /\ ~expected
              /\ Fails(issued) /\ UNCHANGED answer
           \/ /\ expected /\ ends
              /\ Complete(buffer)
           \/ /\ expected /\ ~ends
              /\ Goes([tester EXCEPT !.buffer = buffer, !.timer = Timeout],
                      issued)
              /\ UNCHANGED answer

HandleFlowControl(frame) ==
    /\ frame.type = "FLOW_CONTROL"
    /\ IF tester.state = "WAIT_FLOW_CONTROL"
       THEN Pump([tester EXCEPT !.block = BlockSize], issued)
       ELSE Fails(issued)
    /\ UNCHANGED answer

HandleFrame ==
    /\ toTester # <<>>
    /\ toTester' = Tail(toTester)
    /\ LET frame == Head(toTester).frame
       IN  \/ /\ tester.state = "IDLE"
              /\ Goes(tester, issued)
              /\ UNCHANGED answer
           \/ /\ tester.state # "IDLE"
              /\ \/ HandleSingleFrame(frame)
                 \/ HandleFirstFrame(frame)
                 \/ HandleConsecutiveFrame(frame)
                 \/ HandleFlowControl(frame)
    /\ UNCHANGED issued

(***************************************************************************)
(* The user disconnects and connects again: the queue is emptied, nobody   *)
(* is called back, and what arrives in between is not read.  It takes      *)
(* longer than a frame needs to its receiver and to be handled.            *)
(***************************************************************************)
Reconnect ==
    /\ faults < MaxFaults /\ faults' = faults + 1
    /\ toFirmware = <<>>
    /\ tester' = Idle
    /\ current' = issued
    /\ outcome' = [r \in Requests |-> IF r <= issued /\ outcome[r] = "none"
                                      THEN "dropped" ELSE outcome[r]]
    /\ toTester' = <<>>
    /\ UNCHANGED <<toFirmware, issued, answer>>

TesterNext == Enqueue \/ Poll \/ HandleFrame

\* The window polls often within a tick: nothing that is due stays.
TesterAtRest ==
    CASE tester.state = "IDLE" -> current = issued
      [] tester.state = "TRANSMITTING" -> FALSE
      [] OTHER -> tester.timer > 0

TesterTick ==
    /\ tester' = [tester EXCEPT !.timer = Earlier(@)]
    /\ UNCHANGED <<issued, current, outcome, answer>>
=============================================================================
