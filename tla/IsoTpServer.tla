---------------------------- MODULE IsoTpServer -----------------------------
(***************************************************************************)
(* The firmware's end of the diagnostic connection: isotp_transport.c with *)
(* its binding can_isotp.c, and CAN_Uds_Process that takes a request and   *)
(* starts its response.  CAN_App_Process calls, in this order, the receive *)
(* handler for the frames that have arrived, CAN_Uds_Process and           *)
(* CAN_IsoTp_Process; step says where the round is.                        *)
(*                                                                         *)
(* Frames are well-formed, of a tester whose flow control is always        *)
(* ContinueToSend without a block limit; timers count down.                *)
(***************************************************************************)
EXTENDS IsoTpBus

VARIABLES
    rx,         \* rx_state, rx_buffer, rx_deadline_us, rx_block_count
    tx,         \* tx_state, the request it answers, tx_offset, tx_deadline_us
    step,       \* "receive" or "process"
    executed    \* history: the contents of the requests taken

server == <<rx, tx, step, executed>>

RxIdle == [state |-> "IDLE", buffer |-> <<>>, timer |-> 0, block |-> 0]
TxIdle == [state |-> "IDLE", request |-> 0, offset |-> 0, timer |-> 0]

InitServer ==
    /\ rx = RxIdle
    /\ tx = TxIdle
    /\ step = "receive"
    /\ executed = <<>>

\* A frame is handed to the transmit queue; when it is refused, the
\* receive or the transmit state is reset.
SendFrame(frame, fate) ==
    /\ faults + Cost(fate) <= MaxFaults
    /\ faults' = faults + Cost(fate)
    /\ toTester' = Carry(toTester, frame, fate)

SendFlowControl(received) ==
    LET answered == received.buffer[Len(received.buffer)]
    IN  \E fate \in Fates :
            /\ SendFrame(ContinueToSend(answered), fate)
            /\ rx' = IF fate = "refused" THEN RxIdle ELSE received

SendSegment(frame, transmitted) ==
    \E fate \in Fates :
        /\ SendFrame(frame, fate)
        /\ tx' = IF fate = "refused" THEN TxIdle ELSE transmitted

ReceiveSingleFrame(frame) ==
    /\ frame.type = "SINGLE"
    /\ rx' = IF rx.state = "IDLE"
             THEN [RxIdle EXCEPT !.state = "COMPLETE",
                                 !.buffer = <<frame.segment>>]
             ELSE rx
    /\ UNCHANGED <<tx, toTester, faults>>

ReceiveFirstFrame(frame) ==
    /\ frame.type = "FIRST"
    /\ IF rx.state = "IDLE"
       THEN SendFlowControl([state |-> "RECEIVING", timer |-> Timeout,
                             buffer |-> <<frame.segment>>, block |-> 0])
       ELSE UNCHANGED <<rx, toTester, faults>>
    /\ UNCHANGED tx

\* A mutated Expected: the sequence number is not compared.
SlipExpectedAnyNumber(frame) == rx.timer > 0

Expected(frame) ==
    rx.timer > 0 /\ frame.number = SequenceNumber(Len(rx.buffer))

\* rx_length comes from the first frame.
Ends(buffer) == Len(buffer) = RequestSize[Head(buffer)[1]]

ReceiveConsecutiveFrame(frame) ==
    LET buffer == Append(rx.buffer, frame.segment)
        received == [state |-> "RECEIVING", buffer |-> buffer,
                     timer |-> Timeout, block |-> rx.block + 1]
    IN  /\ frame.type = "CONSECUTIVE"
        /\ \/ /\ rx.state # "RECEIVING"
              /\ UNCHANGED <<rx, toTester, faults>>
           \/ /\ rx.state = "RECEIVING" /\ ~Expected(frame)
              /\ rx' = RxIdle
              /\ UNCHANGED <<toTester, faults>>
           \/ /\ rx.state = "RECEIVING" /\ Expected(frame) /\ Ends(buffer)
              /\ rx' = [RxIdle EXCEPT !.state = "COMPLETE", !.buffer = buffer]
              /\ UNCHANGED <<toTester, faults>>
           \/ /\ rx.state = "RECEIVING" /\ Expected(frame) /\ ~Ends(buffer)
              /\ IF rx.block + 1 >= BlockSize
                 THEN SendFlowControl([received EXCEPT !.block = 0])
                 ELSE rx' = received /\ UNCHANGED <<toTester, faults>>
        /\ UNCHANGED tx

ReceiveFlowControl(frame) ==
    /\ frame.type = "FLOW_CONTROL"
    /\ tx' = CASE tx.state # "WAIT_FLOW_CONTROL" -> tx
               [] tx.state = "WAIT_FLOW_CONTROL" /\ tx.timer = 0 -> TxIdle
               [] OTHER -> [tx EXCEPT !.state = "SEND_CONSECUTIVE",
                                      !.timer = 0]
    /\ UNCHANGED <<rx, toTester, faults>>

OnCanFrame ==
    /\ step = "receive"
    /\ toFirmware # <<>>
    /\ toFirmware' = Tail(toFirmware)
    /\ LET frame == Head(toFirmware).frame
       IN  \/ ReceiveSingleFrame(frame)
           \/ ReceiveFirstFrame(frame)
           \/ ReceiveConsecutiveFrame(frame)
           \/ ReceiveFlowControl(frame)
    /\ UNCHANGED <<step, executed>>

\* A mutated Sending: a response that was sent to its end is still under way.
SlipSendingWhenComplete == tx.state # "IDLE"

Sending == tx.state \in {"WAIT_FLOW_CONTROL", "SEND_CONSECUTIVE"}

\* The response to request r is started, unless another is under way: then
\* it is dropped.
StartResponse(r) ==
    IF Sending
    THEN UNCHANGED <<tx, toTester, faults>>
    ELSE SendSegment(Opening(r, ResponseSize[r]),
                     [state |-> IF ResponseSize[r] = 1
                                THEN "COMPLETE" ELSE "WAIT_FLOW_CONTROL",
                      request |-> r, offset |-> 1,
                      timer |-> IF ResponseSize[r] = 1 THEN 0 ELSE Timeout])

\* CAN_Uds_Process with a request: it is executed, released and answered.
ProcessRequest ==
    /\ step = "receive"
    /\ rx.state = "COMPLETE"
    /\ executed' = Append(executed, rx.buffer)
    /\ rx' = RxIdle
    /\ StartResponse(Head(rx.buffer)[1])
    /\ step' = "process"
    /\ UNCHANGED toFirmware

\* Mutated deadlines: IsoTp_Process does not look at the one of the receiver,
\* or at the one of the sender.
SlipReceiveNeverExpires == FALSE
SlipWaitNeverExpires == FALSE

\* What IsoTp_Process may find to do.
ReceiveExpired == rx.state = "RECEIVING" /\ rx.timer = 0
WaitExpired == tx.state = "WAIT_FLOW_CONTROL" /\ tx.timer = 0
SegmentDue == tx.state = "SEND_CONSECUTIVE" /\ tx.timer = 0

SendConsecutiveFrame ==
    LET offset == tx.offset + 1
        ended == offset = ResponseSize[tx.request]
    IN  SendSegment(Consecutive(Segment(tx.request, offset), tx.offset),
                    [tx EXCEPT !.offset = offset,
                               !.state = IF ended THEN "COMPLETE" ELSE @])

\* CAN_IsoTp_Process does one of these, the first that applies.
IsoTpProcess ==
    /\ rx.state # "COMPLETE" \/ step = "process"
    /\ step' = "receive"
    /\ \/ /\ ReceiveExpired
          /\ rx' = RxIdle
          /\ UNCHANGED <<tx, toTester, faults>>
       \/ /\ ~ReceiveExpired /\ WaitExpired
          /\ tx' = TxIdle
          /\ UNCHANGED <<rx, toTester, faults>>
       \/ /\ ~ReceiveExpired /\ ~WaitExpired /\ SegmentDue
          /\ SendConsecutiveFrame
          /\ UNCHANGED rx
       \/ /\ ~ReceiveExpired /\ ~WaitExpired /\ ~SegmentDue
          /\ UNCHANGED <<rx, tx, toTester, faults>>
    /\ UNCHANGED <<toFirmware, executed>>

ServerNext == OnCanFrame \/ ProcessRequest \/ IsoTpProcess

\* The main loop runs often within a tick: nothing that is due stays.
ServerAtRest ==
    ~ReceiveExpired /\ ~WaitExpired /\ ~SegmentDue /\ rx.state # "COMPLETE"

ServerTick ==
    /\ rx' = [rx EXCEPT !.timer = Earlier(@)]
    /\ tx' = [tx EXCEPT !.timer = Earlier(@)]
    /\ UNCHANGED <<step, executed>>
=============================================================================
