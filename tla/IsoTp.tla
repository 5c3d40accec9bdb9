------------------------------- MODULE IsoTp --------------------------------
(***************************************************************************)
(* The diagnostic connection: the desktop tester and the firmware over a   *)
(* bus that delays, loses and repeats frames.  Time advances when neither  *)
(* end has anything due and no frame is older than the bus allows.         *)
(***************************************************************************)
EXTENDS IsoTpServer, IsoTpTester

VARIABLES
    stray,      \* history: since the connection was last at rest, has an end
                \* taken a frame, or a request, out of its place
    sound       \* history: the requests after this one were queued at rest or
                \* later, and there has been no fault since

vars == <<bus, server, peer, stray, sound>>

Init ==
    /\ toFirmware = <<>> /\ toTester = <<>> /\ faults = 0
    /\ InitServer
    /\ InitTester
    /\ stray = FALSE /\ sound = 0

\* Nothing is left of a request: no frame under way, and no end waits.
AtRest ==
    /\ tester.state = "IDLE" /\ current = issued
    /\ toFirmware = <<>> /\ toTester = <<>>
    /\ rx.state = "IDLE" /\ tx.state \in {"IDLE", "COMPLETE"}

\* The tester, busy with a request, is handed a frame of another one, or a flow
\* control that answers an earlier part of its request.
StrayFrame ==
    /\ tester.state # "IDLE"
    /\ LET frame == Head(toTester).frame
       IN  \/ frame.segment[1] # current
           \/ /\ frame.type = "FLOW_CONTROL"
              /\ frame.segment # Segment(current, tester.offset)

\* The firmware executes a request for the second time.
ExecutedBefore == \E i \in DOMAIN executed : executed[i][1] = Head(rx.buffer)

\* What the history says after a step; strays, that the step takes something
\* out of its place.
Note(strays) ==
    /\ stray' = (strays \/ (stray /\ ~AtRest))
    /\ sound' = CASE faults' # faults -> MaxRequests
                  [] faults' = faults /\ AtRest -> IF sound < issued
                                                   THEN sound ELSE issued
                  [] OTHER -> sound

FirmwareReceives == OnCanFrame /\ UNCHANGED peer /\ Note(FALSE)
FirmwareExecutes == ProcessRequest /\ UNCHANGED peer /\ Note(ExecutedBefore)
FirmwareProcesses == IsoTpProcess /\ UNCHANGED peer /\ Note(FALSE)
TesterQueues == Enqueue /\ UNCHANGED server /\ Note(FALSE)
TesterPolls == Poll /\ UNCHANGED server /\ Note(FALSE)
TesterReceives == HandleFrame /\ UNCHANGED server /\ Note(StrayFrame)
Disconnection ==
    rx.state # "COMPLETE" /\ Reconnect /\ UNCHANGED server /\ Note(FALSE)

Tick ==
    /\ ServerAtRest /\ TesterAtRest
    /\ Punctual(toFirmware) /\ Punctual(toTester)
    /\ toFirmware' = Aged(toFirmware) /\ toTester' = Aged(toTester)
    /\ ServerTick /\ TesterTick
    /\ UNCHANGED faults
    /\ Note(FALSE)

Next ==
    \/ FirmwareReceives \/ FirmwareExecutes \/ FirmwareProcesses
    \/ TesterQueues \/ TesterPolls \/ TesterReceives
    \/ Disconnection
    \/ Tick

Spec == Init /\ [][Next]_vars

(***************************************************************************)
(* The main loop and the window's timers keep running, and time goes on.   *)
(***************************************************************************)
FairSpec ==
    /\ Spec
    /\ WF_vars(FirmwareReceives)
    /\ WF_vars(FirmwareExecutes)
    /\ WF_vars(FirmwareProcesses)
    /\ WF_vars(TesterPolls)
    /\ WF_vars(TesterReceives)
    /\ WF_vars(Tick)

-----------------------------------------------------------------------------
Segments == Requests \X (Nat \ {0})
Frames == [type : {"SINGLE", "FIRST", "CONSECUTIVE", "FLOW_CONTROL"},
           segment : Segments, number : 0 .. (Modulus - 1)]
Timers == 0 .. Timeout

\* The types of the variables, with the bounds that the code relies on: the
\* buffers hold the message they were announced and counters stay in range.
TypeOK ==
    /\ \A channel \in {toFirmware, toTester} : \A i \in DOMAIN channel :
          channel[i].frame \in Frames /\ channel[i].age \in 0 .. MaxDelay
    /\ faults \in 0 .. MaxFaults
    /\ rx.state \in {"IDLE", "RECEIVING", "COMPLETE"}
    /\ rx.timer \in Timers /\ rx.block \in 0 .. (BlockSize - 1)
    /\ rx.state = "IDLE" <=> rx.buffer = <<>>
    /\ tx.state \in {"IDLE", "WAIT_FLOW_CONTROL", "SEND_CONSECUTIVE", "COMPLETE"}
    /\ tx.timer \in Timers
    /\ tx.state = "IDLE" \/ tx.offset \in 1 .. ResponseSize[tx.request]
    /\ step \in {"receive", "process"}
    /\ tester.state \in {"IDLE", "WAIT_RESPONSE", "WAIT_FLOW_CONTROL",
                         "TRANSMITTING", "RECEIVING"}
    /\ tester.timer \in Timers /\ tester.block \in 0 .. BlockSize
    /\ current \in 0 .. issued /\ issued \in 0 .. MaxRequests
    /\ tester.state = "IDLE" \/ tester.offset \in 0 .. RequestSize[current]
    /\ outcome \in [Requests -> {"none", "answered", "failed", "dropped"}]
    /\ stray \in BOOLEAN /\ sound \in 0 .. MaxRequests

\* A response that the tester takes is one of the firmware, complete and without
\* a segment of another message, whatever frames were lost or repeated.  So is a
\* request that the firmware executes, unless the tester has acted on a frame of
\* another request: the flow control of one, taken for that of the next, puts
\* their segments in one message, which nothing in the frames tells apart.
WholeMessages ==
    [][/\ executed' # executed =>
             stray \/ executed'[Len(executed')] \in Messages
       /\ \A r \in Requests : answer'[r] # answer[r] =>
             \E q \in Requests : answer'[r] = Message(q, ResponseSize[q])]_vars

\* What a request is told: "foreign" when its answer is that of another one.
Told(r) == IF answer[r] = <<>> \/ answer[r][1] = Segment(r, 1)
           THEN outcome[r] ELSE "foreign"
Unserved == {r \in Requests : Told(r) \in {"failed", "foreign"}}

\* Faults pass.  Whatever was lost or repeated, and whatever transfers it broke,
\* a connection that has come to rest answers every later request with its own
\* response until the next fault.  And without a rest in between, the requests
\* that one fault costs follow each other: after one that is answered properly
\* none is affected.  Their number has no bound: an answer received twice goes to
\* the next request, the answer of that one to the next, and so on for as long
\* as a request is waiting.
FaultsPass ==
    /\ \A r \in Requests :
          r > sound /\ outcome[r] # "none" => Told(r) = "answered"
    /\ faults <= 1 => \A p, r \in Unserved : p .. r \subseteq Unserved

\* Every request that was queued ends, by an answer or an error.
RequestsEnd == \A r \in Requests : issued >= r ~> outcome[r] # "none"

\* The firmware gives up the rest of a message that does not come, and is
\* ready for the next request.
ServerRecovers ==
    /\ rx.state = "RECEIVING" ~> rx.state # "RECEIVING"
    /\ Sending ~> ~Sending

\* Both ends recover from whatever was lost or repeated.
ConnectionRecovers == RequestsEnd /\ ServerRecovers

\* The connection implements what its users rely on: all of it while every frame
\* is taken in its place, and the rest of it while one was not.
Service == INSTANCE RequestService WITH
    executions <- Len(executed),
    served <- IF executed = <<>> THEN 0 ELSE executed[Len(executed)][1][1],
    outcome <- [r \in Requests |-> Told(r)],
    disturbed <- stray
ImplementsService == Service!Spec
=============================================================================
