------------------------- MODULE FlashUpdateProofs --------------------------
(***************************************************************************)
(* Proofs about FlashUpdate, for every artifact, slot, block counter and   *)
(* session timeout, and for any number of faults and updates.              *)
(*                                                                         *)
(* Four inductive invariants, each of which rests on those before it:      *)
(* DownloadInSession; Types, with the request queue and the header buffer; *)
(* StepInv, what the slot, the server and the tool have in common at each  *)
(* step of an update; and RetryInv, what becomes of an update that only    *)
(* lost blocks.  StepInv carries the refinement of FlashService.           *)
(***************************************************************************)
EXTENDS FlashUpdate, SequenceTheorems, TLAPS

\* Every programming service of uds_download.c that is executed leaves the
\* session alone; the server lets it through in the programming session only.
LEMMA ProgrammingInSession ==
    ASSUME NEW request, DownloadInSession, ProcessProgramming(request)
    PROVE  DownloadInSession'
<1>1. CASE session = "programming"
      BY <1>1 DEF ProcessProgramming, DownloadInSession
<1>2. CASE session # "programming"
      BY <1>2 DEF ProcessProgramming, DownloadInSession, downloadVars
<1> QED BY <1>1, <1>2

\* A change of session keeps a download open only when it stays in the
\* programming session.
LEMMA SessionControlInSession ==
    ASSUME NEW request, DownloadInSession, ProcessSessionControl(request)
    PROVE  DownloadInSession'
<1>1. CASE session = "programming" /\ request.to # "programming"
  <2>1. download' = NoDownload
        BY <1>1 DEF ProcessSessionControl, AbortDownload
  <2>2. download'.state = "IDLE"
        BY <2>1 DEF NoDownload
  <2> QED BY <2>2 DEF DownloadInSession
<1>2. CASE request.to = "programming"
      BY <1>2 DEF ProcessSessionControl, DownloadInSession
<1>3. CASE session # "programming" /\ request.to # "programming"
  <2>1. download.state = "IDLE" /\ download' = download
        BY <1>3 DEF ProcessSessionControl, DownloadInSession, downloadVars
  <2> QED BY <2>1 DEF DownloadInSession
<1> QED BY <1>1, <1>2, <1>3

LEMMA ServeInSession ==
    ASSUME DownloadInSession, Serve
    PROVE  DownloadInSession'
<1>1. ProcessRequest(Request)
      BY DEF Serve
<1>2. CASE ProcessSessionControl(Request)
      BY <1>2, SessionControlInSession
<1>3. CASE ProcessReadDid
      BY <1>3 DEF ProcessReadDid, DownloadInSession, downloadVars
<1>4. CASE ProcessProgramming(Request)
      BY <1>4, ProgrammingInSession
<1> QED BY <1>1, <1>2, <1>3, <1>4 DEF ProcessRequest

\* The S3 timeout and a restart leave no download behind.
LEMMA FirmwareTickInSession ==
    ASSUME DownloadInSession, FirmwareTick
    PROVE  DownloadInSession'
<1>1. CASE session = "programming"
  <2>1. download' = NoDownload
        BY <1>1 DEF FirmwareTick, SessionTimeout, AbortDownload
  <2> QED BY <2>1 DEF DownloadInSession, NoDownload
<1>2. CASE session # "programming"
  <2>1. download.state = "IDLE" /\ download' = download
        BY <1>2 DEF FirmwareTick, SessionTimeout, DownloadInSession, downloadVars
  <2> QED BY <2>1 DEF DownloadInSession
<1> QED BY <1>1, <1>2

LEMMA RestartInSession ==
    ASSUME RestartFirmware
    PROVE  DownloadInSession'
<1>1. download' = NoDownload
      BY DEF RestartFirmware, ServerReset
<1> QED BY <1>1 DEF DownloadInSession, NoDownload

\* An open download lives in a programming session: leaving the session, its
\* S3 timeout and a restart all abort the download, whatever was lost.
THEOREM OpenDownloadInSession == Spec => []DownloadInSession
<1>1. Init => DownloadInSession
      BY DEF Init, ServerInit, DownloadInit, NoDownload, DownloadInSession
<1>2. DownloadInSession /\ [Next]_vars => DownloadInSession'
  <2> SUFFICES ASSUME DownloadInSession, [Next]_vars
               PROVE  DownloadInSession'
      OBVIOUS
  <2>1. CASE UNCHANGED <<session, download>>
        BY <2>1 DEF DownloadInSession
  <2>2. CASE Serve
        BY <2>2, ServeInSession
  <2>3. CASE FirmwareTick
        BY <2>3, FirmwareTickInSession
  <2>4. CASE RestartFirmware
        BY <2>4, RestartInSession
  <2>5. CASE Lose \/ Reconnect \/ RestartTool \/ RefreshDiagnostics
             \/ StartUpdate
        BY <2>1, <2>5 DEF Lose, Reconnect, RestartTool, RefreshDiagnostics,
                          StartUpdate, serverVars
  <2>6. CASE Deliver \/ Timeout \/ TransportError
        BY <2>1, <2>6 DEF Deliver, Timeout, TransportError, Conclude, serverVars
  <2>7. CASE Tick
        BY <2>1, <2>7 DEF Tick, ServerTick, downloadVars
  <2>8. CASE UNCHANGED vars
        BY <2>1, <2>8 DEF vars, serverVars
  <2> QED BY <2>2, <2>3, <2>4, <2>5, <2>6, <2>7, <2>8 DEF Next
<1> QED BY <1>1, <1>2, PTL DEF Spec

----------------------------------------------------------------------------
(* Types, and the request queue of the tool.                               *)

Controllers ==
    [status : Statuses, artifact : Artifacts \cup {"none"}, offset : Nat,
     sequence : Counters, retried : BOOLEAN, polls : 0 .. ErasePollLimit]

Downloads ==
    [state : DownloadStates, size : Nat, received : Nat, header : Seq(Data),
     expected : Counters, last : Counters \cup {NoBlock}]

Slots == [Positions -> Data \cup {Erased, Damaged}]

\* The header buffer holds the first blocks received, and never overflows.
DownloadOK ==
    /\ download \in Downloads
    /\ download.received <= download.size
    /\ Len(download.header) = IF download.received < HeaderBlocks
                              THEN download.received ELSE HeaderBlocks

ServerOK ==
    /\ session \in {"default", "programming"} /\ s3 \in 0 .. S3
    /\ DownloadOK
    /\ slot \in Slots
    /\ scheduled \in BOOLEAN

FlashOK == flash \in Controllers /\ (Busy => flash.artifact \in Artifacts)

\* The request that a controller waits for.
Expects(f, r) ==
    \/ f.status = "SESSION" /\ r = ChangeSession("programming")
    \/ f.status = "ERASING" /\ \E start \in BOOLEAN : r = RoutineControl(start)
    \/ f.status = "REQUESTING" /\ r = RequestDownload(Blocks[f.artifact])
    \/ f.status = "TRANSFERRING" /\ r = CurrentBlock(f)
    \/ f.status = "VERIFYING" /\ r = RequestTransferExit
    \/ f.status \in {"LEAVING", "ABORTING"} /\ r = ChangeSession("default")

\* The request of the update is at most one, before or behind a poll of the
\* diagnostics; or it was forgotten.
Idling(q) == q \in {<<>>, <<ReadDids>>}
Leads(q, f) ==
    \E r : Expects(f, r) /\ q \in {<<r>>, <<r, ReadDids>>}
Follows(q, f) ==
    \E r : Expects(f, r) /\ q = <<ReadDids, r>>

QueueOK == Idling(queue) \/ Leads(queue, flash) \/ Follows(queue, flash)

\* A response belongs to the active request, and only a lost one is late.
AnswerOK ==
    /\ answer \in Results \cup {"none", "lost"}
    /\ late \in BOOLEAN
    /\ ~Active => answer = "none"
    /\ late => answer = "lost"

Types == ServerOK /\ FlashOK /\ QueueOK /\ AnswerOK

\* The active request is the one of the update.
OnUpdate == Active /\ Request # ReadDids

\* The sizes that the arithmetic of the download rests on.
LEMMA Sizes ==
    /\ HeaderBlocks \in Nat \ {0} /\ Capacity \in Nat \ {0}
    /\ Modulus \in Nat \ {0, 1} /\ ErasePollLimit \in Nat
    /\ S3 \in Nat /\ S3 > 3
    /\ \A u \in Artifacts : Blocks[u] \in Nat \ {0} /\ Blocks[u] >= HeaderBlocks
    /\ \A n \in Nat : n % Modulus \in Counters
    /\ 0 \in Counters /\ 1 \in Counters
BY SizesAssumption, PollAssumption, S3Assumption, SessionAssumption,
   BlocksAssumption, ArtifactAssumption DEF Counters

\* A request behind another one.
LEMMA AppendToOne ==
    ASSUME NEW a, NEW b
    PROVE  Append(<<a>>, b) = <<a, b>>
<1>1. <<a>> \in Seq({a, b}) /\ b \in {a, b} /\ <<a, b>> \in Seq({a, b})
  OBVIOUS
<1>2. /\ Append(<<a>>, b) \in Seq({a, b}) /\ Len(Append(<<a>>, b)) = 2
      /\ Append(<<a>>, b)[1] = a /\ Append(<<a>>, b)[2] = b
  BY <1>1, AppendProperties
<1>3. Len(<<a, b>>) = 2 /\ <<a, b>>[1] = a /\ <<a, b>>[2] = b
  OBVIOUS
<1>4. \A i \in 1 .. 2 : i = 1 \/ i = 2
  OBVIOUS
<1> QED BY <1>1, <1>2, <1>3, <1>4, SeqEqual

\* No request of an update is a poll of the diagnostics.
LEMMA ExpectedIsNoPoll ==
    ASSUME NEW f, NEW r, Expects(f, r)
    PROVE  r # ReadDids
<1>1. r.service \in {"session", "routine", "download", "transfer", "exit"}
  BY DEF Expects, ChangeSession, RoutineControl, RequestDownload, CurrentBlock,
         TransferData, RequestTransferExit
<1>2. ReadDids.service = "read"
  BY DEF ReadDids
<1> QED BY <1>1, <1>2

\* The queues that can occur, taken apart.
LEMMA QueueCases ==
    ASSUME QueueOK
    PROVE  /\ OnUpdate <=> Leads(queue, flash)
           /\ OnUpdate => Expects(flash, Request) /\ Idling(Tail(queue))
           /\ Active /\ ~OnUpdate =>
                 /\ Request = ReadDids
                 /\ Idling(queue) => Tail(queue) = <<>>
                 /\ ~Idling(queue) => Leads(Tail(queue), flash)
           /\ ~Active <=> queue = <<>>
           /\ Len(queue) <= 2
<1>1. CASE queue = <<>>
  BY <1>1 DEF OnUpdate, Active, Leads, Idling
<1>2. CASE queue = <<ReadDids>>
  <2>1. Request = ReadDids /\ Tail(queue) = <<>> /\ Active
    BY <1>2 DEF Request, Active
  <2>2. ~Leads(queue, flash)
    BY <1>2, ExpectedIsNoPoll DEF Leads
  <2> QED BY <1>2, <2>1, <2>2 DEF OnUpdate, Active, Idling
<1>3. ASSUME NEW r, Expects(flash, r), queue = <<r>> \/ queue = <<r, ReadDids>>
      PROVE  /\ Request = r /\ Active /\ r # ReadDids
             /\ Idling(Tail(queue)) /\ Len(queue) <= 2
  <2>1. r # ReadDids
    BY <1>3, ExpectedIsNoPoll
  <2>2. CASE queue = <<r>>
    BY <2>1, <2>2 DEF Request, Active, Idling
  <2>3. CASE queue = <<r, ReadDids>>
    BY <2>1, <2>3 DEF Request, Active, Idling
  <2> QED BY <1>3, <2>2, <2>3
<1>4. ASSUME NEW r, Expects(flash, r), queue = <<ReadDids, r>>
      PROVE  /\ Request = ReadDids /\ Active /\ ~Idling(queue)
             /\ Tail(queue) = <<r>> /\ Len(queue) = 2 /\ ~Leads(queue, flash)
  <2>1. Request = ReadDids /\ Active /\ Tail(queue) = <<r>> /\ Len(queue) = 2
    BY <1>4 DEF Request, Active
  <2>2. ~Idling(queue)
    BY <1>4 DEF Idling
  <2>3. ~Leads(queue, flash)
    BY <1>4, ExpectedIsNoPoll DEF Leads
  <2> QED BY <2>1, <2>2, <2>3
<1>5. CASE Leads(queue, flash)
  <2>1. PICK r : Expects(flash, r) /\ queue \in {<<r>>, <<r, ReadDids>>}
    BY <1>5 DEF Leads
  <2>2. /\ Request = r /\ Active /\ r # ReadDids
        /\ Idling(Tail(queue)) /\ Len(queue) <= 2
    BY <1>3, <2>1
  <2> QED BY <1>5, <2>1, <2>2 DEF OnUpdate, Active
<1>6. CASE Follows(queue, flash)
  <2>1. PICK r : Expects(flash, r) /\ queue = <<ReadDids, r>>
    BY <1>6 DEF Follows
  <2>2. /\ Request = ReadDids /\ Active /\ ~Idling(queue)
        /\ Tail(queue) = <<r>> /\ Len(queue) = 2 /\ ~Leads(queue, flash)
    BY <1>4, <2>1
  <2>3. Leads(Tail(queue), flash)
    BY <2>1, <2>2 DEF Leads
  <2> QED BY <2>2, <2>3 DEF OnUpdate, Active
<1> QED BY <1>1, <1>2, <1>5, <1>6 DEF QueueOK, Idling

\* The next request of the update is queued behind what waits.
LEMMA RequestGoesBehind ==
    ASSUME NEW f, NEW q, NEW r, Idling(q), Expects(f, r)
    PROVE  /\ Leads(Append(q, r), f) \/ Follows(Append(q, r), f)
           /\ ~Idling(Append(q, r))
<1>1. CASE q = <<>>
  <2>1. Append(q, r) = <<r>>
    BY <1>1
  <2>2. ~Idling(<<r>>)
    BY ExpectedIsNoPoll DEF Idling
  <2> QED BY <2>1, <2>2 DEF Leads
<1>2. CASE q = <<ReadDids>>
  <2>1. Append(q, r) = <<ReadDids, r>>
    BY <1>2, AppendToOne
  <2>2. ~Idling(<<ReadDids, r>>)
    BY DEF Idling
  <2> QED BY <2>1, <2>2 DEF Follows
<1> QED BY <1>1, <1>2 DEF Idling

\* So is a poll of the diagnostics, at most one of which is queued.
LEMMA PollGoesBehind ==
    ASSUME QueueOK, ~Reading
    PROVE  \/ queue = <<>> /\ Append(queue, ReadDids) = <<ReadDids>>
           \/ \E r : /\ Expects(flash, r) /\ queue = <<r>>
                     /\ Append(queue, ReadDids) = <<r, ReadDids>>
<1>1. CASE Idling(queue)
  <2>1. 1 \in DOMAIN <<ReadDids>> /\ <<ReadDids>>[1] = ReadDids
    OBVIOUS
  <2>2. queue = <<>>
    BY <1>1, <2>1 DEF Idling, Reading
  <2> QED BY <2>2
<1>2. CASE Leads(queue, flash) \/ Follows(queue, flash)
  <2>1. PICK r : /\ Expects(flash, r)
                 /\ \/ queue = <<r>>
                    \/ queue = <<r, ReadDids>>
                    \/ queue = <<ReadDids, r>>
    BY <1>2 DEF Leads, Follows
  <2>2. /\ 1 \in DOMAIN <<ReadDids, r>> /\ 2 \in DOMAIN <<r, ReadDids>>
        /\ <<ReadDids, r>>[1] = ReadDids /\ <<r, ReadDids>>[2] = ReadDids
    OBVIOUS
  <2>3. queue = <<r>>
    BY <2>1, <2>2 DEF Reading
  <2>4. Append(queue, ReadDids) = <<r, ReadDids>>
    BY <2>3, AppendToOne
  <2> QED BY <2>1, <2>3, <2>4
<1> QED BY <1>1, <1>2 DEF QueueOK

----------------------------------------------------------------------------
(* What the server does with the requests of the tool.                     *)

\* A poll of the diagnostics.
ServesPoll ==
    /\ answer' = "positive"
    /\ s3' = IF session = "default" THEN 0 ELSE S3
    /\ UNCHANGED <<session, downloadVars>>

Refuses ==
    /\ answer' = "negative"
    /\ UNCHANGED <<session, downloadVars>>

\* The service of the update's request, in a programming session.
ServesProgramming ==
    /\ session = "programming" /\ session' = session /\ s3' = S3
    /\ \/ /\ flash.status = "ERASING"
          /\ \E start \in BOOLEAN :
                /\ Request = RoutineControl(start)
                /\ ProcessRoutine(RoutineControl(start))
       \/ /\ flash.status = "REQUESTING"
          /\ ProcessRequestDownload(RequestDownload(Blocks[flash.artifact]))
       \/ /\ flash.status = "TRANSFERRING"
          /\ ProcessTransferData(CurrentBlock(flash))
       \/ /\ flash.status = "VERIFYING"
          /\ ProcessTransferExit

ServesSession ==
    \/ /\ flash.status = "SESSION"
       /\ answer' = "positive" /\ session' = "programming" /\ s3' = S3
       /\ UNCHANGED downloadVars
    \/ /\ flash.status \in {"LEAVING", "ABORTING"}
       /\ answer' = "positive" /\ session' = "default" /\ s3' = 0
       /\ IF session = "programming" THEN AbortDownload
                                     ELSE UNCHANGED downloadVars

\* A request is served according to what the update waits for.
LEMMA ServeCases ==
    ASSUME Types, Serve
    PROVE  /\ Active /\ answer = "none" /\ UNCHANGED <<flash, queue, late>>
           /\ \/ ~OnUpdate /\ ServesPoll
              \/ OnUpdate /\ ServesSession
              \/ /\ OnUpdate /\ SessionEntered /\ session = "default"
                 /\ s3' = 0 /\ Refuses
              \/ OnUpdate /\ ServesProgramming
<1>1. /\ Active /\ answer = "none" /\ UNCHANGED <<flash, queue, late>>
      /\ ProcessRequest(Request)
  BY DEF Serve
<1>2. CASE Request = ReadDids
  <2>1. Request.service = "read"
    BY <1>2 DEF ReadDids
  <2>2. ProcessReadDid
    BY <1>1, <2>1 DEF ProcessRequest, ProgrammingServices
  <2>3. ServesPoll
    BY <2>2 DEF ProcessReadDid, Refresh, Answer, ServesPoll
  <2> QED BY <1>1, <1>2, <2>3 DEF OnUpdate
<1>3. CASE Request # ReadDids
  <2>1. OnUpdate /\ Expects(flash, Request)
    BY <1>1, <1>3, QueueCases DEF OnUpdate, Types
  <2>2. ASSUME NEW to, Request = ChangeSession(to)
        PROVE  ProcessSessionControl(ChangeSession(to)) /\ ChangeSession(to).to = to
    <3>1. Request.service = "session"
      BY <2>2 DEF ChangeSession
    <3> QED BY <1>1, <2>2, <3>1
            DEF ProcessRequest, ProgrammingServices, ChangeSession
  <2>3. CASE flash.status = "SESSION" /\ Request = ChangeSession("programming")
    <3>1. ServesSession
      BY <2>2, <2>3
         DEF ProcessSessionControl, ServesSession, Answer, downloadVars
    <3> QED BY <1>1, <2>1, <3>1
  <2>4. CASE /\ flash.status \in {"LEAVING", "ABORTING"}
             /\ Request = ChangeSession("default")
    <3>1. ServesSession
      BY <2>2, <2>4
         DEF ProcessSessionControl, ServesSession, Answer, downloadVars
    <3> QED BY <1>1, <2>1, <3>1
  <2>5. CASE SessionEntered
    <3>1. Request.service \in ProgrammingServices
      BY <2>1, <2>5
         DEF Expects, SessionEntered, ProgrammingServices, RoutineControl,
             RequestDownload, CurrentBlock, TransferData, RequestTransferExit
    <3>2. ProcessProgramming(Request)
      BY <1>1, <3>1 DEF ProcessRequest, ProgrammingServices
    <3>3. CASE session = "programming"
      <4>1. /\ session = "programming" /\ session' = session /\ s3' = S3
            /\ HandleDownload(Request)
        BY <3>2, <3>3 DEF ProcessProgramming, Refresh
      <4>2. CASE flash.status = "ERASING"
        <5>1. PICK start \in BOOLEAN : Request = RoutineControl(start)
          BY <2>1, <4>2 DEF Expects
        <5>2. Request.service = "routine"
          BY <5>1 DEF RoutineControl
        <5>3. ProcessRoutine(Request)
          BY <4>1, <5>2 DEF HandleDownload
        <5> QED BY <1>1, <2>1, <4>1, <4>2, <5>1, <5>3 DEF ServesProgramming
      <4>3. CASE flash.status = "REQUESTING"
        <5>1. Request = RequestDownload(Blocks[flash.artifact])
          BY <2>1, <4>3 DEF Expects
        <5>2. Request.service = "download"
          BY <5>1 DEF RequestDownload
        <5>3. ProcessRequestDownload(Request)
          BY <4>1, <5>2 DEF HandleDownload
        <5> QED BY <1>1, <2>1, <4>1, <4>3, <5>1, <5>3 DEF ServesProgramming
      <4>4. CASE flash.status = "TRANSFERRING"
        <5>1. Request = CurrentBlock(flash)
          BY <2>1, <4>4 DEF Expects
        <5>2. Request.service = "transfer"
          BY <5>1 DEF CurrentBlock, TransferData
        <5>3. ProcessTransferData(Request)
          BY <4>1, <5>2 DEF HandleDownload
        <5> QED BY <1>1, <2>1, <4>1, <4>4, <5>1, <5>3 DEF ServesProgramming
      <4>5. CASE flash.status = "VERIFYING"
        <5>1. Request = RequestTransferExit
          BY <2>1, <4>5 DEF Expects
        <5>2. Request.service = "exit"
          BY <5>1 DEF RequestTransferExit
        <5>3. ProcessTransferExit
          BY <4>1, <5>2 DEF HandleDownload
        <5> QED BY <1>1, <2>1, <4>1, <4>5, <5>3 DEF ServesProgramming
      <4> QED BY <2>5, <4>2, <4>3, <4>4, <4>5 DEF SessionEntered
    <3>4. CASE session # "programming"
      <4>1. session = "default"
        BY <3>4 DEF Types, ServerOK
      <4>2. s3' = 0 /\ Refuses
        BY <3>2, <3>4, <4>1 DEF ProcessProgramming, Refresh, Answer, Refuses
      <4> QED BY <1>1, <2>1, <2>5, <4>1, <4>2
    <3> QED BY <3>3, <3>4
  <2> QED BY <2>1, <2>3, <2>4, <2>5 DEF Expects, SessionEntered
<1> QED BY <1>2, <1>3

\* What the transfer of the current block does: it is acknowledged again,
\* refused, accepted, or it fails.
LEMMA TransferCases ==
    ASSUME Types, flash.status = "TRANSFERRING",
           ProcessTransferData(CurrentBlock(flash))
    PROVE  LET repeated == /\ download.state = "TRANSFER"
                           /\ flash.sequence = download.last
               refused == \/ download.state # "TRANSFER"
                          \/ flash.sequence # download.expected
               b == Block(flash.artifact, flash.offset + 1)
               n == download.received + 1
           IN  /\ scheduled' = scheduled
               /\ \/ repeated /\ answer' = "positive" /\ UNCHANGED <<download, slot>>
                  \/ /\ ~repeated /\ refused
                     /\ answer' = "negative" /\ UNCHANGED <<download, slot>>
                  \/ /\ ~repeated /\ ~refused /\ answer' = "positive"
                     /\ download.received < download.size
                     /\ download' =
                           [download EXCEPT
                               !.received = n, !.last = flash.sequence,
                               !.expected = (download.expected + 1) % Modulus,
                               !.header = IF download.received < HeaderBlocks
                                          THEN Append(download.header, b)
                                          ELSE download.header]
                     /\ slot' = IF download.received < HeaderBlocks THEN slot
                                ELSE Programmed(n, b)
                  \/ /\ ~repeated /\ ~refused /\ answer' = "negative"
                     /\ download' = [download EXCEPT !.state = "FAILED"]
                     /\ \/ slot' = slot
                        \/ /\ download.received < download.size
                           /\ ~(download.received < HeaderBlocks)
                           /\ slot' = [slot EXCEPT ![n] = Damaged]
<1> DEFINE r == CurrentBlock(flash)
<1>1. r.sequence = flash.sequence /\ r.data = Block(flash.artifact, flash.offset + 1)
  BY DEF CurrentBlock, TransferData
<1>2. download.received \in Nat /\ download.size \in Nat
  BY DEF Types, ServerOK, DownloadOK, Downloads
<1> HIDE DEF r
<1>3. ProcessTransferData(r)
  BY DEF r
<1>4. CASE Duplicate(r)
  BY <1>1, <1>3, <1>4
     DEF ProcessTransferData, Duplicate, Answer, downloadVars
<1>5. CASE ~Duplicate(r) /\ TransferRefused(r)
  BY <1>1, <1>3, <1>5
     DEF ProcessTransferData, Duplicate, TransferRefused, Answer, downloadVars
<1>6. CASE ~Duplicate(r) /\ ~TransferRefused(r)
  <2>1. CASE /\ ~Overrun /\ Answer("positive") /\ download' = Accepted(r)
             /\ slot' = IF InHeader THEN slot
                        ELSE Programmed(download.received + 1, r.data)
    BY <1>1, <1>2, <1>3, <1>6, <2>1
       DEF ProcessTransferData, Duplicate, TransferRefused, Answer, Overrun,
           Accepted, InHeader
  <2>2. CASE /\ Overrun \/ ~InHeader
             /\ Answer("negative") /\ Fail
             /\ slot' \in {slot} \cup
                     IF Overrun THEN {}
                     ELSE {[slot EXCEPT ![download.received + 1] = Damaged]}
    BY <1>1, <1>2, <1>3, <1>6, <2>2
       DEF ProcessTransferData, Duplicate, TransferRefused, Answer, Overrun,
           Fail, Enter, InHeader
  <2> QED BY <1>3, <1>6, <2>1, <2>2 DEF ProcessTransferData
<1> QED BY <1>4, <1>5, <1>6

\* What is written to the slot is typed.
LEMMA SlotTypes ==
    ASSUME ServerOK
    PROVE  /\ Blank \in Slots
           /\ ErasedPartly \subseteq Slots
           /\ WithHeader \in Slots
           /\ \A i \in Nat : \A d \in Data \cup {Damaged} :
                 [slot EXCEPT ![i] = d] \in Slots
           /\ \A i \in Nat : \A d \in Data : Programmed(i, d) \in Slots
<1>1. slot \in Slots
  BY DEF ServerOK
<1>2. Blank \in Slots
  BY DEF Blank, Slots
<1>3. ErasedPartly \subseteq Slots
  BY <1>1 DEF ErasedPartly, Slots
<1>4. WithHeader \in Slots
  <2>1. \A i \in Positions : i <= Len(download.header) =>
                                download.header[i] \in Data
    <3>1. download.header \in Seq(Data)
      BY DEF ServerOK, DownloadOK, Downloads
    <3> QED BY <3>1 DEF Positions
  <2> QED BY <1>1, <2>1 DEF WithHeader, Slots
<1>5. \A i \in Nat : \A d \in Data \cup {Damaged} :
         [slot EXCEPT ![i] = d] \in Slots
  BY <1>1 DEF Slots
<1>6. \A i \in Nat : \A d \in Data : Programmed(i, d) \in Slots
  BY <1>1, <1>5 DEF Slots, Programmed
<1> QED BY <1>2, <1>3, <1>4, <1>5, <1>6

\* Where the download enters another state, or begins again.
LEMMA DownloadTypes ==
    ASSUME DownloadOK
    PROVE  /\ NoDownload \in Downloads /\ NoDownload.received = 0
           /\ NoDownload.size = 0 /\ NoDownload.header = <<>>
           /\ \A s \in DownloadStates :
                 LET d == [download EXCEPT !.state = s]
                 IN  /\ d \in Downloads /\ d.received = download.received
                     /\ d.size = download.size /\ d.header = download.header
           /\ \A n \in Nat :
                 LET d == [NoDownload EXCEPT !.state = "TRANSFER", !.size = n,
                                             !.expected = 1]
                 IN  /\ d \in Downloads /\ d.received = 0 /\ d.size = n
                     /\ d.header = <<>>
<1>1. 0 \in Counters /\ 1 \in Counters /\ <<>> \in Seq(Data)
  BY Sizes
<1>2. NoDownload \in Downloads
  BY <1>1 DEF NoDownload, Downloads, DownloadStates, NoBlock
<1> QED BY <1>1, <1>2 DEF NoDownload, Downloads, DownloadStates, DownloadOK

\* Uds_Download_Abort.
LEMMA AbortTypes ==
    ASSUME DownloadOK, download' = NoDownload
    PROVE  DownloadOK'
<1>1. /\ download' \in Downloads /\ download'.received = 0
      /\ download'.size = 0 /\ download'.header = <<>>
  BY DownloadTypes
<1>2. Len(<<>>) = 0 /\ 0 < HeaderBlocks
  BY Sizes
<1> QED BY <1>1, <1>2 DEF DownloadOK, Downloads

\* Uds_Download_Fail, and the states of the erase.
LEMMA EnterTypes ==
    ASSUME DownloadOK, NEW s \in DownloadStates, Enter(s)
    PROVE  DownloadOK'
<1>1. download' = [download EXCEPT !.state = s]
  BY DEF Enter
<1> QED BY <1>1, DownloadTypes DEF DownloadOK

\* The server keeps its types.
LEMMA ServeTypes ==
    ASSUME Types, Serve
    PROVE  ServerOK' /\ answer' \in Results
<1>1. ServerOK /\ DownloadOK
  BY DEF Types, ServerOK
<1>2. S3 \in Nat /\ 0 \in 0 .. S3 /\ S3 \in 0 .. S3
  BY Sizes
<1>3. CASE \/ ServesPoll
           \/ Refuses /\ s3' = 0
  <2>1. s3' \in 0 .. S3
    BY <1>2, <1>3 DEF ServesPoll
  <2>2. UNCHANGED <<session, download, slot, scheduled>>
    BY <1>3 DEF ServesPoll, Refuses, downloadVars
  <2>3. answer' \in Results
    BY <1>3 DEF ServesPoll, Refuses, Results
  <2> QED BY <1>1, <2>1, <2>2, <2>3 DEF ServerOK, DownloadOK, Slots
<1>4. CASE ServesSession
  <2>1. session' \in {"default", "programming"} /\ s3' \in 0 .. S3
        /\ answer' \in Results /\ UNCHANGED <<slot, scheduled>>
    BY <1>2, <1>4 DEF ServesSession, Results, AbortDownload, downloadVars
  <2>2. download' = NoDownload \/ UNCHANGED download
    BY <1>4 DEF ServesSession, AbortDownload, downloadVars
  <2>3. DownloadOK'
    BY <1>1, <2>2, AbortTypes DEF DownloadOK
  <2> QED BY <1>1, <2>1, <2>3 DEF ServerOK, Slots
<1>5. CASE ServesProgramming
  <2>1. session' \in {"default", "programming"} /\ s3' \in 0 .. S3
    BY <1>2, <1>5 DEF ServesProgramming
  <2>2. SUFFICES /\ DownloadOK' /\ slot' \in Slots /\ scheduled' \in BOOLEAN
                 /\ answer' \in Results
    BY <2>1 DEF ServerOK, Slots
  <2>3. scheduled \in BOOLEAN /\ slot \in Slots
    BY <1>1 DEF ServerOK
  <2>4. ASSUME NEW start \in BOOLEAN, ProcessRoutine(RoutineControl(start))
        PROVE  /\ DownloadOK' /\ slot' \in Slots /\ scheduled' = scheduled
               /\ answer' \in Results
    <3>1. CASE Routine
      <4>1. \E s \in DownloadStates : Enter(s)
        BY <3>1 DEF Routine, Fail, DownloadStates
      <4>2. DownloadOK'
        BY <1>1, <4>1, EnterTypes
      <4>3. slot' = Blank \/ slot' \in ErasedPartly
        BY <3>1 DEF Routine
      <4>4. slot' \in Slots
        BY <1>1, <4>3, SlotTypes
      <4> QED BY <3>1, <4>2, <4>4 DEF Routine, Answer, Results
    <3>2. CASE RoutineEnded
      <4>1. UNCHANGED download \/ Enter("FAILED")
        BY <3>2 DEF RoutineEnded, Fail
      <4>2. DownloadOK'
        BY <1>1, <4>1, EnterTypes DEF DownloadOK, DownloadStates
      <4> QED BY <2>3, <3>2, <4>2 DEF RoutineEnded, Answer, Results
    <3>3. CASE Answer("negative") /\ UNCHANGED downloadVars
      BY <1>1, <2>3, <3>3 DEF downloadVars, Answer, Results, DownloadOK
    <3> QED BY <2>4, <3>1, <3>2, <3>3 DEF ProcessRoutine
  <2>5. CASE ProcessRequestDownload(RequestDownload(Blocks[flash.artifact]))
             /\ flash.status = "REQUESTING"
    <3>1. Blocks[flash.artifact] \in Nat
      BY <2>5, Sizes DEF Types, FlashOK, Busy
    <3>2. \/ UNCHANGED download
          \/ download' = [NoDownload EXCEPT !.state = "TRANSFER",
                             !.size = Blocks[flash.artifact], !.expected = 1]
      BY <2>5 DEF ProcessRequestDownload, RequestDownload
    <3>3. UNCHANGED download => DownloadOK'
      BY <1>1 DEF DownloadOK
    <3>4. ASSUME download' = [NoDownload EXCEPT !.state = "TRANSFER",
                                 !.size = Blocks[flash.artifact], !.expected = 1]
          PROVE  DownloadOK'
      <4>1. /\ download' \in Downloads /\ download'.received = 0
            /\ download'.size = Blocks[flash.artifact]
            /\ download'.header = <<>>
        BY <1>1, <3>1, <3>4, DownloadTypes
      <4>2. Len(<<>>) = 0 /\ 0 < HeaderBlocks
        BY Sizes
      <4> QED BY <3>1, <4>1, <4>2 DEF DownloadOK, Downloads
    <3>5. DownloadOK'
      BY <3>2, <3>3, <3>4
    <3> QED BY <2>3, <2>5, <3>5 DEF ProcessRequestDownload, Answer, Results
  <2>6. CASE ProcessTransferData(CurrentBlock(flash))
             /\ flash.status = "TRANSFERRING"
    <3> DEFINE b == Block(flash.artifact, flash.offset + 1)
               n == download.received + 1
    <3>1. /\ b \in Data /\ flash.sequence \in Counters
          /\ download.received \in Nat /\ download.size \in Nat
          /\ download.header \in Seq(Data)
          /\ (download.expected + 1) % Modulus \in Counters
      <4>1. flash.artifact \in Artifacts /\ flash \in Controllers
        BY <2>6 DEF Types, FlashOK, Busy
      <4>2. flash.offset \in Nat /\ flash.sequence \in Counters
        BY <4>1 DEF Controllers
      <4>3. b \in Data
        BY <4>1, <4>2 DEF Data, Block
      <4>4. /\ download.received \in Nat /\ download.size \in Nat
            /\ download.header \in Seq(Data) /\ download.expected \in Nat
        BY <1>1, Sizes DEF DownloadOK, Downloads, Counters
      <4> HIDE DEF b
      <4> QED BY <4>2, <4>3, <4>4, Sizes
    <3> HIDE DEF b
    <3>2. scheduled' = scheduled /\ answer' \in Results
      BY <2>6, TransferCases DEF Results
    <3>3. CASE UNCHANGED <<download, slot>>
      BY <1>1, <2>3, <3>2, <3>3 DEF DownloadOK
    <3>4. CASE /\ download.received < download.size
               /\ download' =
                     [download EXCEPT
                         !.received = n, !.last = flash.sequence,
                         !.expected = (download.expected + 1) % Modulus,
                         !.header = IF download.received < HeaderBlocks
                                    THEN Append(download.header, b)
                                    ELSE download.header]
               /\ slot' = IF download.received < HeaderBlocks THEN slot
                          ELSE Programmed(n, b)
      <4>1. Append(download.header, b) \in Seq(Data)
            /\ Len(Append(download.header, b)) = Len(download.header) + 1
        BY <3>1
      <4>2. download' \in Downloads
        <5> DEFINE header == IF download.received < HeaderBlocks
                             THEN Append(download.header, b)
                             ELSE download.header
                   expected == (download.expected + 1) % Modulus
        <5>1. header \in Seq(Data) /\ n \in Nat /\ expected \in Counters
          BY <3>1, <4>1
        <5>2. download' = [download EXCEPT !.received = n,
                              !.last = flash.sequence, !.expected = expected,
                              !.header = header]
          BY <3>4
        <5> HIDE DEF header, expected, n
        <5> QED BY <1>1, <3>1, <5>1, <5>2 DEF DownloadOK, Downloads
      <4>3. /\ download'.received = n /\ download'.size = download.size
            /\ download'.header = IF download.received < HeaderBlocks
                                  THEN Append(download.header, b)
                                  ELSE download.header
        BY <1>1, <3>4 DEF DownloadOK, Downloads
      <4>4. DownloadOK'
        BY <1>1, <3>1, <3>4, <4>1, <4>2, <4>3, Sizes DEF DownloadOK
      <4>5. slot' \in Slots
        <5>1. Programmed(n, b) \in Slots
          BY <1>1, <3>1, SlotTypes
        <5> QED BY <2>3, <3>4, <5>1
      <4> QED BY <2>3, <3>2, <4>4, <4>5
    <3>5. CASE /\ download' = [download EXCEPT !.state = "FAILED"]
               /\ slot' = slot \/ slot' = [slot EXCEPT ![n] = Damaged]
      <4>1. DownloadOK'
        BY <1>1, <3>5, EnterTypes DEF Enter, DownloadStates
      <4>2. slot' \in Slots
        <5>1. [slot EXCEPT ![n] = Damaged] \in Slots
          BY <2>3 DEF Slots
        <5> QED BY <2>3, <3>5, <5>1
      <4> QED BY <2>3, <3>2, <4>1, <4>2
    <3> QED BY <2>6, <3>3, <3>4, <3>5, TransferCases DEF b
  <2>7. CASE ProcessTransferExit
    <3>1. UNCHANGED download \/ Enter("COMPLETE") \/ Enter("FAILED")
      BY <2>7 DEF ProcessTransferExit, Fail, downloadVars
    <3>2. DownloadOK'
      BY <1>1, <3>1, EnterTypes DEF DownloadOK, DownloadStates
    <3>3. slot' = slot \/ slot' = WithHeader
      BY <2>7 DEF ProcessTransferExit, downloadVars
    <3>4. scheduled' \in BOOLEAN
      BY <2>3, <2>7, Zenon DEF ProcessTransferExit, downloadVars
    <3>5. answer' \in Results
      BY <2>7 DEF ProcessTransferExit, Answer, Results
    <3> QED BY <1>1, <2>3, <3>2, <3>3, <3>4, <3>5, SlotTypes
  <2> QED BY <1>5, <2>3, <2>4, <2>5, <2>6, <2>7, Zenon DEF ServesProgramming
<1> QED BY <1>3, <1>4, <1>5, ServeCases

----------------------------------------------------------------------------
(* What the tool does with the end of a request.                           *)

\* A controller waits for a request just while an update is under way.
LEMMA ExpectsWhileBusy ==
    ASSUME NEW r, Expects(flash, r)
    PROVE  Busy
BY DEF Expects, Busy

\* _send_next_block: another block, or the exit.
LEMMA SendNextBlockCases ==
    ASSUME NEW c \in Controllers, c.status = "TRANSFERRING", SendNextBlock(c)
    PROVE  /\ c.offset >= Blocks[c.artifact] =>
                 Proceed([c EXCEPT !.status = "VERIFYING"], RequestTransferExit)
           /\ ~(c.offset >= Blocks[c.artifact]) =>
                 /\ flash' = [c EXCEPT !.retried = FALSE]
                 /\ queue' = Append(Tail(queue), CurrentBlock(flash'))
BY DEF SendNextBlock, Proceed, Queue

\* The update goes on with another request.
LEMMA ProceedTypes ==
    ASSUME Types, OnUpdate, NEW c \in Controllers, NEW r,
           Expects(c, r), c.artifact \in Artifacts, Proceed(c, r)
    PROVE  /\ FlashOK' /\ QueueOK'
           /\ ~Idling(queue')
<1>1. flash' = c /\ queue' = Append(Tail(queue), r) /\ Idling(Tail(queue))
  BY QueueCases DEF Proceed, Queue, Types
<1>2. FlashOK'
  BY <1>1 DEF FlashOK, Controllers
<1>3. /\ Leads(queue', flash') \/ Follows(queue', flash')
      /\ ~Idling(queue')
  BY <1>1, RequestGoesBehind
<1> QED BY <1>2, <1>3 DEF QueueOK

\* The update has ended.
LEMMA EndTypes ==
    ASSUME Types, OnUpdate, QueueNothing,
           NEW s \in {"FAULT", "COMPLETE"}, flash' = [flash EXCEPT !.status = s]
    PROVE  FlashOK' /\ QueueOK' /\ ~Busy'
<1>1. queue' = Tail(queue) /\ Idling(Tail(queue))
  BY QueueCases DEF QueueNothing, Types
<1>2. flash' \in Controllers /\ flash'.status = s
  BY DEF Types, FlashOK, Controllers, Statuses
<1>3. ~Busy'
  BY <1>2 DEF Busy
<1> QED BY <1>1, <1>2, <1>3 DEF FlashOK, Controllers, QueueOK, Idling

\* A callback leaves the controller and the queue well typed.
LEMMA CallbackTypes ==
    ASSUME Types, OnUpdate, NEW result, UpdateCallback(result)
    PROVE  /\ FlashOK' /\ QueueOK'
           /\ Busy' => ~Idling(queue')
<1>1. flash \in Controllers /\ flash.artifact \in Artifacts
  <2>1. Expects(flash, Request)
    BY QueueCases DEF Types
  <2> QED BY <2>1, ExpectsWhileBusy DEF Types, FlashOK
<1>2. \A s \in Statuses : /\ [flash EXCEPT !.status = s] \in Controllers
                          /\ [flash EXCEPT !.status = s].status = s
                          /\ [flash EXCEPT !.status = s].artifact = flash.artifact
  BY <1>1 DEF Controllers
<1>3. CASE Stop
  <2>1. CASE SessionEntered
    <3> DEFINE c == [flash EXCEPT !.status = "ABORTING"]
    <3>1. Proceed(c, ChangeSession("default"))
      BY <1>3, <2>1 DEF Stop
    <3>2. c \in Controllers /\ c.status = "ABORTING" /\ c.artifact \in Artifacts
      BY <1>1, <1>2 DEF Statuses
    <3>3. Expects(c, ChangeSession("default"))
      BY <3>2 DEF Expects
    <3> HIDE DEF c
    <3> QED BY <3>1, <3>2, <3>3, ProceedTypes
  <2>2. CASE ~SessionEntered
    BY <1>3, <2>2, EndTypes DEF Stop
  <2> QED BY <2>1, <2>2
<1>4. CASE Proceed([flash EXCEPT !.status = "ERASING"], RoutineControl(TRUE))
  <2> DEFINE c == [flash EXCEPT !.status = "ERASING"]
  <2>1. c \in Controllers /\ c.status = "ERASING" /\ c.artifact \in Artifacts
    BY <1>1, <1>2 DEF Statuses
  <2>2. Expects(c, RoutineControl(TRUE))
    BY <2>1 DEF Expects
  <2> HIDE DEF c
  <2> QED BY <1>4, <2>1, <2>2, ProceedTypes DEF c
<1>5. CASE /\ flash.status = "ERASING" /\ PollsLeft
           /\ Proceed([flash EXCEPT !.polls = @ + 1], RoutineControl(FALSE))
  <2> DEFINE c == [flash EXCEPT !.polls = @ + 1]
  <2>1. flash.polls + 1 \in 0 .. ErasePollLimit
    BY <1>1, <1>5, Sizes DEF PollsLeft, Controllers
  <2>2. c \in Controllers /\ c.status = "ERASING" /\ c.artifact \in Artifacts
    BY <1>1, <1>5, <2>1 DEF Controllers
  <2>3. Expects(c, RoutineControl(FALSE))
    BY <2>2 DEF Expects
  <2> HIDE DEF c
  <2> QED BY <1>5, <2>2, <2>3, ProceedTypes DEF c
<1>6. CASE Negotiate
  <2> DEFINE c == [flash EXCEPT !.status = "REQUESTING"]
  <2>1. c \in Controllers /\ c.status = "REQUESTING" /\ c.artifact = flash.artifact
    BY <1>1, <1>2 DEF Statuses
  <2>2. Expects(c, RequestDownload(Blocks[flash.artifact]))
    BY <2>1 DEF Expects
  <2>3. Proceed(c, RequestDownload(Blocks[flash.artifact]))
    BY <1>6 DEF Negotiate
  <2> HIDE DEF c
  <2> QED BY <1>1, <2>1, <2>2, <2>3, ProceedTypes
<1>7. ASSUME NEW c \in Controllers, c.status = "TRANSFERRING",
             c.artifact = flash.artifact, SendNextBlock(c)
      PROVE  FlashOK' /\ QueueOK' /\ ~Idling(queue')
  <2>1. CASE c.offset >= Blocks[c.artifact]
    <3> DEFINE d == [c EXCEPT !.status = "VERIFYING"]
    <3>1. d \in Controllers /\ d.status = "VERIFYING" /\ d.artifact = c.artifact
      BY DEF Controllers, Statuses
    <3>2. Expects(d, RequestTransferExit)
      BY <3>1 DEF Expects
    <3>3. Proceed(d, RequestTransferExit)
      BY <1>7, <2>1, SendNextBlockCases
    <3> HIDE DEF d
    <3> QED BY <1>1, <1>7, <3>1, <3>2, <3>3, ProceedTypes
  <2>2. CASE ~(c.offset >= Blocks[c.artifact])
    <3> DEFINE d == [c EXCEPT !.retried = FALSE]
    <3>1. d \in Controllers /\ d.status = "TRANSFERRING" /\ d.artifact = c.artifact
      BY <1>7 DEF Controllers
    <3>2. Expects(d, CurrentBlock(d))
      BY <3>1 DEF Expects
    <3>3. flash' = d /\ queue' = Append(Tail(queue), CurrentBlock(flash'))
      BY <1>7, <2>2, SendNextBlockCases
    <3>4. Proceed(d, CurrentBlock(d))
      BY <3>3 DEF Proceed, Queue
    <3> HIDE DEF d
    <3> QED BY <1>1, <1>7, <3>1, <3>2, <3>4, ProceedTypes
  <2> QED BY <2>1, <2>2
<1>8. CASE OnProgrammingSession(result)
  BY <1>3, <1>4, <1>8 DEF OnProgrammingSession
<1>9. CASE OnEraseResult(result)
  BY <1>3, <1>5, <1>6, <1>9 DEF OnEraseResult
<1>10. CASE OnDownloadRequested(result)
  <2> DEFINE c == [flash EXCEPT !.status = "TRANSFERRING"]
  <2>1. c \in Controllers /\ c.status = "TRANSFERRING" /\ c.artifact = flash.artifact
    BY <1>1, <1>2 DEF Statuses
  <2> HIDE DEF c
  <2> QED BY <1>3, <1>7, <1>10, <2>1 DEF OnDownloadRequested, c
<1>11. CASE OnTransferData(result)
  <2>1. CASE Retry(result)
    <3> DEFINE c == [flash EXCEPT !.retried = TRUE]
    <3>1. /\ c \in Controllers /\ c.status = "TRANSFERRING"
          /\ c.artifact = flash.artifact
      BY <1>1, <1>11 DEF OnTransferData, Controllers
    <3>2. Expects(c, CurrentBlock(c)) /\ Proceed(c, CurrentBlock(c))
      BY <2>1, <3>1 DEF Expects, Retry
    <3> HIDE DEF c
    <3> QED BY <1>1, <3>1, <3>2, ProceedTypes
  <2>2. CASE SendNextBlock(Transferred)
    <3>1. (flash.sequence + 1) % Modulus \in Counters /\ flash.offset + 1 \in Nat
      BY <1>1, Sizes DEF Controllers, Counters
    <3>2. /\ Transferred \in Controllers /\ Transferred.status = "TRANSFERRING"
          /\ Transferred.artifact = flash.artifact
      BY <1>1, <1>11, <3>1 DEF OnTransferData, Controllers, Transferred
    <3> QED BY <1>7, <2>2, <3>2
  <2> QED BY <1>3, <1>11, <2>1, <2>2 DEF OnTransferData
<1>12. CASE OnTransferExit(result)
  <2> DEFINE c == [flash EXCEPT !.status = "LEAVING"]
  <2>1. c \in Controllers /\ c.status = "LEAVING" /\ c.artifact = flash.artifact
    BY <1>1, <1>2 DEF Statuses
  <2>2. Expects(c, ChangeSession("default"))
    BY <2>1 DEF Expects
  <2>3. CASE Proceed(c, ChangeSession("default"))
    <3> HIDE DEF c
    <3> QED BY <1>1, <2>1, <2>2, <2>3, ProceedTypes
  <2> QED BY <1>3, <1>12, <2>3 DEF OnTransferExit
<1>13. CASE OnCleanup
  <2>1. \E s \in {"FAULT", "COMPLETE"} : flash' = [flash EXCEPT !.status = s]
    BY <1>13 DEF OnCleanup
  <2> QED BY <1>13, <2>1, EndTypes DEF OnCleanup
<1> QED BY <1>8, <1>9, <1>10, <1>11, <1>12, <1>13 DEF UpdateCallback

\* How a request ends: with its response, without one, or with an error of
\* the transport; and what of that leaves the update clean.
EndsWith(result) ==
    \/ /\ answer \in Results /\ result = answer
       /\ clean' => ~(answer = "in_progress" /\ ~PollsLeft)
    \/ answer = "lost" /\ late /\ result = "timeout"
    \/ /\ answer = "none" /\ result = "timeout"
       /\ clean' => Harmless
    \/ answer # "lost" /\ result = "broken" /\ ~clean'

\* How the end of an update is counted.
Counted ==
    failures' =
        IF flash'.status \notin {"FAULT", "COMPLETE"} THEN failures
        ELSE IF flash'.status = "FAULT" /\ clean' /\ Fits(flash.artifact)
        THEN failures + 1 ELSE 0

Ends == Deliver \/ Timeout \/ TransportError

\* Conclude, taken apart.
LEMMA ConcludeCases ==
    ASSUME NEW result, NEW harmless \in BOOLEAN, Active,
           Conclude(result, harmless)
    PROVE  /\ UNCHANGED serverVars /\ UNCHANGED fresh
           /\ answer' = "none" /\ late' = FALSE
           /\ ~OnUpdate => /\ flash' = flash /\ queue' = Tail(queue)
                           /\ UNCHANGED <<clean, failures>>
           /\ OnUpdate => /\ UpdateCallback(result) /\ Counted
                          /\ clean' => clean /\ harmless
<1>1. CASE Request = ReadDids
  BY <1>1 DEF Conclude, OnUpdate, QueueNothing
<1>2. CASE Request # ReadDids
  <2>1. /\ UNCHANGED serverVars /\ UNCHANGED fresh
        /\ answer' = "none" /\ late' = FALSE
        /\ UpdateCallback(result) /\ Account(clean /\ harmless)
    BY <1>2 DEF Conclude
  <2>2. clean' => clean /\ harmless
    BY <2>1, Zenon DEF Account
  <2>3. Counted
    BY <2>1, Zenon DEF Account, Counted
  <2> QED BY <1>2, <2>1, <2>2, <2>3, Zenon DEF OnUpdate
<1> QED BY <1>1, <1>2

\* The end of a request is the callback of the update, or the poll is gone.
LEMMA EndCases ==
    ASSUME Types, Ends
    PROVE  /\ Active /\ UNCHANGED serverVars /\ UNCHANGED fresh
           /\ answer' = "none" /\ late' = FALSE
           /\ ~OnUpdate => /\ flash' = flash /\ queue' = Tail(queue)
                           /\ UNCHANGED <<clean, failures>>
           /\ OnUpdate => \E result :
                 /\ EndsWith(result) /\ UpdateCallback(result) /\ Counted
                 /\ clean' => clean
<1>1. CASE Deliver
  <2> DEFINE h == ~(answer = "in_progress" /\ ~PollsLeft)
  <2>1. Active /\ answer \in Results /\ Conclude(answer, h)
    BY <1>1, Zenon DEF Deliver
  <2>2. h \in BOOLEAN
    OBVIOUS
  <2> HIDE DEF h
  <2>3. OnUpdate => UpdateCallback(answer) /\ Counted /\ (clean' => clean /\ h)
    BY <2>1, <2>2, ConcludeCases
  <2>4. OnUpdate => EndsWith(answer)
    BY <2>1, <2>3, Zenon DEF EndsWith, h
  <2> QED BY <2>1, <2>2, <2>3, <2>4, ConcludeCases
<1>2. CASE Timeout
  <2>1. Active /\ answer = "lost" /\ late /\ Conclude("timeout", TRUE)
    BY <1>2, Zenon DEF Timeout
  <2>2. OnUpdate => UpdateCallback("timeout") /\ Counted /\ (clean' => clean)
    BY <2>1, ConcludeCases
  <2>3. EndsWith("timeout")
    BY <2>1, Zenon DEF EndsWith
  <2> QED BY <2>1, <2>2, <2>3, ConcludeCases
<1>3. CASE TransportError
  <2>1. /\ Active /\ answer # "lost"
        /\ \/ answer = "none" /\ Conclude("timeout", Harmless)
           \/ Conclude("broken", FALSE)
    BY <1>3, Zenon DEF TransportError
  <2>2. CASE answer = "none" /\ Conclude("timeout", Harmless)
    <3> DEFINE h == Harmless
    <3>1. Conclude("timeout", h) /\ h \in BOOLEAN
      BY <2>2 DEF Harmless
    <3> HIDE DEF h
    <3>2. OnUpdate => /\ UpdateCallback("timeout") /\ Counted
                      /\ clean' => clean /\ h
      BY <2>1, <3>1, ConcludeCases
    <3>3. OnUpdate => EndsWith("timeout")
      BY <2>2, <3>2, Zenon DEF EndsWith, h
    <3> QED BY <2>1, <3>1, <3>2, <3>3, ConcludeCases
  <2>3. CASE Conclude("broken", FALSE)
    <3>1. OnUpdate => UpdateCallback("broken") /\ Counted /\ ~clean'
      BY <2>1, <2>3, ConcludeCases
    <3>2. OnUpdate => EndsWith("broken")
      BY <2>1, <3>1, Zenon DEF EndsWith
    <3> QED BY <2>1, <2>3, <3>1, <3>2, ConcludeCases
  <2> QED BY <2>1, <2>2, <2>3
<1> QED BY <1>1, <1>2, <1>3 DEF Ends

----------------------------------------------------------------------------
(* The types are kept.                                                     *)

\* The server's part, when nothing of it changes.
LEMMA ServerKept ==
    ASSUME ServerOK, UNCHANGED serverVars
    PROVE  ServerOK'
BY DEF ServerOK, serverVars, DownloadOK, Downloads, Slots

\* A poll that is taken off the queue, or put on it, leaves the update's
\* request where it is.
LEMMA PollTypes ==
    ASSUME Types, UNCHANGED flash,
           \/ queue' = queue
           \/ Active /\ ~OnUpdate /\ queue' = Tail(queue)
           \/ ~Reading /\ queue' = Append(queue, ReadDids)
    PROVE  /\ FlashOK' /\ QueueOK'
           /\ Idling(queue') <=> Idling(queue)
<1>1. FlashOK'
  BY DEF Types, FlashOK, Controllers, Busy
<1>2. Idling(queue) \/ Leads(queue, flash) \/ Follows(queue, flash)
  BY DEF Types, QueueOK
<1>3. ASSUME NEW q, Leads(q, flash)
      PROVE  ~Idling(q)
  <2>1. PICK r : Expects(flash, r) /\ q \in {<<r>>, <<r, ReadDids>>}
    BY <1>3 DEF Leads
  <2> QED BY <2>1, ExpectedIsNoPoll DEF Idling
<1>4. CASE queue' = queue
  BY <1>1, <1>2, <1>4 DEF QueueOK
<1>5. CASE Active /\ ~OnUpdate /\ queue' = Tail(queue)
  <2>1. /\ Idling(queue) => Tail(queue) = <<>>
        /\ ~Idling(queue) => Leads(Tail(queue), flash)
    BY <1>5, QueueCases DEF Types
  <2> QED BY <1>1, <1>3, <1>5, <2>1 DEF QueueOK, Idling
<1>6. CASE ~Reading /\ queue' = Append(queue, ReadDids)
  <2>1. CASE queue = <<>> /\ queue' = <<ReadDids>>
    BY <1>1, <2>1 DEF QueueOK, Idling
  <2>2. ASSUME NEW r, Expects(flash, r), queue = <<r>>, queue' = <<r, ReadDids>>
        PROVE  Leads(queue, flash) /\ Leads(queue', flash)
    BY <2>2 DEF Leads
  <2> QED BY <1>1, <1>3, <1>6, <2>1, <2>2, PollGoesBehind DEF QueueOK, Types
<1> QED BY <1>4, <1>5, <1>6

\* The end of a request keeps the types.
LEMMA EndKeepsTypes ==
    ASSUME Types, Ends
    PROVE  Types'
<1>1. /\ Active /\ UNCHANGED serverVars /\ answer' = "none" /\ late' = FALSE
      /\ ~OnUpdate => flash' = flash /\ queue' = Tail(queue)
      /\ OnUpdate => \E result : UpdateCallback(result)
  BY EndCases
<1>2. FlashOK' /\ QueueOK'
  <2>1. CASE OnUpdate
    BY <1>1, <2>1, CallbackTypes
  <2>2. CASE ~OnUpdate
    BY <1>1, <2>2, PollTypes
  <2> QED BY <2>1, <2>2
<1>3. ServerOK'
  BY <1>1, ServerKept DEF Types
<1>4. AnswerOK'
  BY <1>1 DEF AnswerOK
<1> QED BY <1>2, <1>3, <1>4 DEF Types

\* A response is lost, a poll is queued, or time passes: what matters of the
\* queue is its first request, which stays the same.
LEMMA SmallSteps ==
    ASSUME Types, Lose \/ RefreshDiagnostics \/ Tick
    PROVE  /\ FlashOK' /\ QueueOK'
           /\ UNCHANGED flash /\ UNCHANGED <<session, downloadVars>>
           /\ Idling(queue') <=> Idling(queue)
           /\ Active => Active' /\ Request' = Request
           /\ ~Active /\ Active' => Request' = ReadDids
<1>1. /\ UNCHANGED flash /\ UNCHANGED <<session, downloadVars>>
      /\ \/ queue' = queue
         \/ ~Reading /\ queue' = Append(queue, ReadDids)
  <2>1. CASE Lose
    BY <2>1 DEF Lose, serverVars, downloadVars
  <2>2. CASE RefreshDiagnostics
    BY <2>2 DEF RefreshDiagnostics, serverVars, downloadVars
  <2>3. CASE Tick
    BY <2>3 DEF Tick, ServerTick, downloadVars
  <2> QED BY <2>1, <2>2, <2>3
<1>2. CASE queue' = queue
  <2>1. FlashOK' /\ QueueOK' /\ (Idling(queue') <=> Idling(queue))
    BY <1>1, <1>2, PollTypes
  <2> QED BY <1>1, <1>2, <2>1 DEF Active, Request
<1>3. CASE ~Reading /\ queue' = Append(queue, ReadDids)
  <2>1. ASSUME queue = <<>>, queue' = <<ReadDids>>
        PROVE  ~Active /\ Request' = ReadDids
    BY <2>1 DEF Active, Request
  <2>2. ASSUME NEW r, queue = <<r>>, queue' = <<r, ReadDids>>
        PROVE  Active /\ Active' /\ Request' = Request
    BY <2>2 DEF Active, Request
  <2>3. /\ Active => Active' /\ Request' = Request
        /\ ~Active /\ Active' => Request' = ReadDids
    BY <1>3, <2>1, <2>2, PollGoesBehind DEF Types, Active
  <2> QED BY <1>1, <1>3, <2>3, PollTypes
<1> QED BY <1>1, <1>2, <1>3

LEMMA SmallStepsKeepTypes ==
    ASSUME Types, Lose \/ RefreshDiagnostics \/ Tick
    PROVE  Types'
<1>1. s3' \in 0 .. S3
  <2>1. s3 \in 0 .. S3 /\ S3 \in Nat
    BY Sizes DEF Types, ServerOK
  <2>2. CASE Lose
    BY <2>1, <2>2 DEF Lose, serverVars
  <2>3. CASE RefreshDiagnostics
    BY <2>1, <2>3 DEF RefreshDiagnostics, serverVars
  <2>4. CASE Tick
    <3>1. s3' = IF s3 = 0 THEN 0 ELSE s3 - 1
      BY <2>4 DEF Tick, ServerTick
    <3> QED BY <2>1, <3>1
  <2> QED BY <2>2, <2>3, <2>4
<1>2. ServerOK'
  BY <1>1, SmallSteps
     DEF downloadVars, ServerOK, DownloadOK, Downloads, Slots, Types
<1>3. AnswerOK'
  <2>1. CASE Lose
    BY <2>1 DEF Lose, AnswerOK, Types, Active
  <2>2. CASE RefreshDiagnostics
    BY <2>2, SmallSteps DEF RefreshDiagnostics, AnswerOK, Types
  <2>3. CASE Tick
    <3>1. late' = Active /\ answer' = answer /\ (Active => answer = "lost")
      BY <2>3, Zenon DEF Tick
    <3>2. Active => Active'
      BY SmallSteps
    <3>3. ~Active => answer = "none"
      BY DEF AnswerOK, Types
    <3>4. late' \in BOOLEAN /\ (late' => answer' = "lost")
      BY <3>1, Zenon DEF Active
    <3>5. ~Active' => answer' = "none"
      BY <3>1, <3>2, <3>3
    <3>6. answer' \in Results \cup {"none", "lost"}
      BY <3>1 DEF AnswerOK, Types
    <3> QED BY <3>4, <3>5, <3>6, Zenon DEF AnswerOK
  <2> QED BY <2>1, <2>2, <2>3
<1> QED BY <1>2, <1>3, SmallSteps DEF Types

\* An update begins with no request of its own in the queue.
LEMMA StartKeepsTypes ==
    ASSUME Types, StartUpdate
    PROVE  Types' /\ ~Idling(queue') /\ flash'.status = "SESSION"
<1>1. PICK u \in Artifacts : Start(u)
  BY DEF StartUpdate
<1>2. flash' = [flash EXCEPT !.status = "SESSION", !.artifact = u,
                             !.offset = 0, !.sequence = 1, !.polls = 0]
      /\ queue' = Append(queue, ChangeSession("programming")) /\ ~Busy
  BY <1>1 DEF Start
<1>3. flash' \in Controllers /\ flash'.status = "SESSION" /\ flash'.artifact = u
  <2>1. flash \in Controllers /\ 1 \in Counters /\ 0 \in 0 .. ErasePollLimit
    BY Sizes DEF Types, FlashOK
  <2> QED BY <1>2, <2>1 DEF Controllers, Statuses
<1>4. Idling(queue)
  BY <1>2, ExpectsWhileBusy DEF Types, QueueOK, Leads, Follows
<1>5. Expects(flash', ChangeSession("programming"))
  BY <1>3 DEF Expects
<1>6. QueueOK' /\ ~Idling(queue')
  BY <1>2, <1>4, <1>5, RequestGoesBehind DEF QueueOK
<1>7. Active'
  BY <1>6 DEF Active, Idling
<1>8. UNCHANGED <<serverVars, answer, late>>
  BY DEF StartUpdate
<1>9. AnswerOK'
  BY <1>7, <1>8 DEF AnswerOK, Types
<1>10. FlashOK'
  BY <1>3 DEF FlashOK, Controllers
<1> QED BY <1>3, <1>6, <1>8, <1>9, <1>10, ServerKept DEF Types

\* Connections and restarts.
LEMMA RestartsKeepTypes ==
    ASSUME Types, Reconnect \/ RestartTool \/ RestartFirmware \/ FirmwareTick
    PROVE  Types'
<1>1. CASE Reconnect \/ RestartTool
  <2>1. /\ UNCHANGED serverVars /\ answer' = "none" /\ late' = FALSE
        /\ Idling(queue') /\ (flash' = flash \/ flash' = ControllerIdle)
    BY <1>1 DEF Reconnect, RestartTool, Idling
  <2>2. ControllerIdle \in Controllers /\ ControllerIdle.status = "IDLE"
    BY Sizes DEF ControllerIdle, Controllers, Statuses
  <2>3. FlashOK'
    BY <2>1, <2>2 DEF FlashOK, Controllers, Busy, Types
  <2> QED BY <2>1, <2>3, ServerKept DEF Types, QueueOK, AnswerOK
<1>2. CASE RestartFirmware
  <2>1. /\ UNCHANGED <<flash, queue, late, scheduled>>
        /\ session' = "default" /\ s3' = 0 /\ download' = NoDownload
        /\ answer' = IF Active THEN "lost" ELSE "none"
    BY <1>2 DEF RestartFirmware, ServerReset
  <2>2. slot' \in {slot, [slot EXCEPT ![download.received + 1] = Damaged]}
                     \cup ErasedPartly
    BY <1>2 DEF RestartFirmware, ServerReset
  <2>3. ServerOK /\ DownloadOK /\ download.received + 1 \in Nat
    BY DEF Types, ServerOK, DownloadOK, Downloads
  <2>4. slot' \in Slots
    <3>1. slot \in Slots
      BY <2>3 DEF ServerOK
    <3>2. [slot EXCEPT ![download.received + 1] = Damaged] \in Slots
      BY <3>1 DEF Slots
    <3> QED BY <2>2, <2>3, <3>1, <3>2, SlotTypes
  <2>5. DownloadOK'
    BY <2>1, <2>3, AbortTypes
  <2>6. ServerOK'
    BY <2>1, <2>3, <2>4, <2>5, Sizes DEF ServerOK, Slots
  <2>7. FlashOK' /\ QueueOK'
    BY <2>1, PollTypes
  <2>8. AnswerOK'
    BY <2>1 DEF AnswerOK, Active, Types
  <2> QED BY <2>6, <2>7, <2>8 DEF Types
<1>3. CASE FirmwareTick
  <2>1. /\ UNCHANGED <<flash, queue, answer, late, s3, slot, scheduled>>
        /\ session' = "default"
        /\ download' = NoDownload \/ UNCHANGED download
    BY <1>3 DEF FirmwareTick, SessionTimeout, AbortDownload, downloadVars
  <2>2. DownloadOK'
    BY <2>1, AbortTypes DEF Types, ServerOK, DownloadOK
  <2>3. ServerOK'
    BY <2>1, <2>2 DEF ServerOK, Slots, Types
  <2>4. FlashOK' /\ QueueOK'
    BY <2>1, PollTypes
  <2> QED BY <2>1, <2>3, <2>4 DEF Types, AnswerOK, Active
<1> QED BY <1>1, <1>2, <1>3

\* Every variable keeps its type, the tool has one request of the update in
\* its queue at most, next to one poll, and the header fits its buffer.
THEOREM TypesInvariance == Spec => []Types
<1>1. Init => Types
  <2> SUFFICES ASSUME Init PROVE Types
    OBVIOUS
  <2>1. DownloadOK
    <3>1. download \in Downloads
      BY Sizes DEF Init, ServerInit, DownloadInit, NoDownload, Downloads,
                   DownloadStates
    <3>2. Len(<<>>) = 0 /\ 0 < HeaderBlocks
      BY Sizes
    <3> QED BY <3>1, <3>2
            DEF Init, ServerInit, DownloadInit, NoDownload, DownloadOK
  <2>2. slot \in Slots
    <3>1. Blank \in Slots
      BY DEF Blank, Slots
    <3>2. \A u \in Artifacts : \A i \in Positions : Block(u, i) \in Data
      BY DEF Block, Data, Positions
    <3>3. \A u \in Artifacts : Whole(u) \in Slots
      BY <3>2 DEF Whole, Slots
    <3>4. Fitting \subseteq Artifacts
      BY LinkedAssumption DEF Fitting
    <3> QED BY <3>1, <3>3, <3>4 DEF Init, ServerInit, DownloadInit
  <2>3. ServerOK
    <3>1. session = "default" /\ s3 = 0 /\ scheduled = FALSE
      BY DEF Init, ServerInit, DownloadInit
    <3>2. 0 \in 0 .. S3
      BY Sizes
    <3> QED BY <2>1, <2>2, <3>1, <3>2 DEF ServerOK
  <2>4. FlashOK
    BY Sizes DEF Init, ControllerIdle, FlashOK, Controllers, Statuses, Busy
  <2>5. QueueOK /\ AnswerOK
    BY DEF Init, QueueOK, Idling, AnswerOK, Active
  <2> QED BY <2>3, <2>4, <2>5 DEF Types
<1>2. ASSUME Types, [Next]_vars
      PROVE  Types'
  <2>1. CASE Serve
    <3>1. ServerOK' /\ answer' \in Results
      BY <1>2, <2>1, ServeTypes
    <3>2. Active /\ answer = "none" /\ UNCHANGED <<flash, queue, late>>
      BY <1>2, <2>1, ServeCases
    <3>3. FlashOK' /\ QueueOK'
      BY <1>2, <3>2, PollTypes
    <3>4. AnswerOK'
      BY <1>2, <3>1, <3>2 DEF AnswerOK, Active, Types
    <3> QED BY <3>1, <3>3, <3>4 DEF Types
  <2>2. CASE UNCHANGED vars
    <3>1. UNCHANGED <<serverVars, flash, queue, answer, late>>
      BY <2>2 DEF vars
    <3>2. FlashOK' /\ QueueOK'
      BY <1>2, <3>1, PollTypes
    <3> QED BY <1>2, <3>1, <3>2, ServerKept DEF Types, AnswerOK, Active
  <2> QED BY <1>2, <2>1, <2>2, EndKeepsTypes, SmallStepsKeepTypes,
             StartKeepsTypes, RestartsKeepTypes DEF Next, Ends
<1> QED BY <1>1, <1>2, PTL DEF Spec

\* The types of the model's variables, as the run checks them.
THEOREM TypeCorrect == Spec => []TypeOK
<1>1. Types => TypeOK
  <2> SUFFICES ASSUME Types PROVE TypeOK
    OBVIOUS
  <2>1. Len(queue) <= 2
    BY QueueCases DEF Types
  <2>2. flash.status \in Statuses /\ flash.sequence \in Counters
        /\ flash.polls \in 0 .. ErasePollLimit
    BY DEF Types, FlashOK, Controllers
  <2>3. /\ download.state \in DownloadStates /\ download.expected \in Counters
        /\ download.last \in Counters \cup {NoBlock}
        /\ download.received \in 0 .. download.size
        /\ Len(download.header) <= HeaderBlocks
    BY Sizes DEF Types, ServerOK, DownloadOK, Downloads
  <2> QED BY <2>1, <2>2, <2>3
          DEF TypeOK, Types, ServerOK, AnswerOK, Slots
<1> QED BY <1>1, TypesInvariance, PTL

----------------------------------------------------------------------------
(* What the slot holds, and how far the server and the tool have come.     *)

\* The sequence counter wraps, and two blocks in a row never share a number.
LEMMA CounterSteps ==
    ASSUME NEW n \in Nat
    PROVE  /\ ((n % Modulus) + 1) % Modulus = (n + 1) % Modulus
           /\ (n + 1) % Modulus # n % Modulus
           /\ n % Modulus \in Counters
<1> DEFINE q == n \div Modulus
           r == n % Modulus
<1>1. /\ q \in Nat /\ r \in 0 .. (Modulus - 1) /\ n = (Modulus * q) + r
      /\ Modulus \in Nat \ {0, 1}
  BY Sizes
<1> HIDE DEF q
<1>2. \A p \in Nat : \A s \in 0 .. (Modulus - 1) :
         ((Modulus * p) + s) % Modulus = s
  BY <1>1
<1> HIDE DEF r
<1>3. CASE r = Modulus - 1
  <2>1. n + 1 = (Modulus * (q + 1)) + 0
    BY <1>1, <1>3
  <2>2. (n + 1) % Modulus = 0
    BY <2>1, <1>1, <1>2
  <2>3. Modulus % Modulus = 0
    BY <1>1
  <2> QED BY <1>1, <1>3, <2>2, <2>3 DEF r, Counters
<1>4. CASE r # Modulus - 1
  <2>1. n + 1 = (Modulus * q) + (r + 1) /\ r + 1 \in 0 .. (Modulus - 1)
    BY <1>1, <1>4
  <2>2. (n + 1) % Modulus = r + 1
    BY <2>1, <1>1, <1>2
  <2>3. (r + 1) % Modulus = r + 1
    BY <1>1, <2>1
  <2> QED BY <1>1, <1>4, <2>2, <2>3 DEF r, Counters
<1> QED BY <1>3, <1>4

\* A slot without a header offers nothing to the bootloader; any other is what
\* an unfinished erase left of an artifact, or that artifact.
HeaderErased == \A i \in Header \cap Positions : slot[i] = Erased
Remains(u) == \A i \in Positions : slot[i] \in {Erased, Whole(u)[i]}

\* An open download has counted its blocks, and programmed no other ones.
OpenDownload ==
    /\ HeaderBlocks <= download.size /\ download.size <= Capacity
    /\ download.expected = (download.received + 1) % Modulus
    /\ download.last = IF download.received = 0 THEN NoBlock
                       ELSE download.received % Modulus
    /\ HeaderErased
    /\ \A i \in (download.received + 1) .. Capacity : slot[i] = Erased

SlotInv ==
    /\ download.state = "READY" => slot = Blank
    /\ HeaderErased \/ \E u \in Fitting : Remains(u)
    /\ download.state = "TRANSFER" => OpenDownload

\* The request of the update was executed, and with success.
Pos == OnUpdate /\ answer = "positive"

\* The blocks that the server has, each in its place.
Matches ==
    \A i \in 1 .. download.received :
        Block(flash.artifact, i) = IF i <= HeaderBlocks
                                   THEN download.header[i] ELSE slot[i]

AtBegin == flash.offset = 0 /\ flash.sequence = 1

WhileErasing == AtBegin /\ (Pos => download.state \in {"READY", "IDLE"})

WhileRequesting ==
    /\ Fits(flash.artifact) /\ AtBegin
    /\ download.state = "TRANSFER" =>
          download.received = 0 /\ download.size = Blocks[flash.artifact]

WhileTransferring ==
    /\ Fits(flash.artifact)
    /\ flash.offset < Blocks[flash.artifact]
    /\ flash.sequence = (flash.offset + 1) % Modulus
    /\ download.state = "TRANSFER" =>
          /\ download.size = Blocks[flash.artifact]
          /\ download.received \in {flash.offset, flash.offset + 1}
          /\ Matches
          /\ Pos => download.received = flash.offset + 1

Installed ==
    slot = Whole(flash.artifact) /\ download.state \in {"COMPLETE", "IDLE"}

WhileVerifying ==
    /\ Fits(flash.artifact)
    /\ download.state = "TRANSFER" =>
          /\ download.size = Blocks[flash.artifact]
          /\ download.received = download.size
          /\ Matches
    /\ Pos => Installed

\* The tool and the server, step by step of the update.
LinkInv ==
    /\ flash.status = "SESSION" => AtBegin
    /\ flash.status = "ERASING" => WhileErasing
    /\ flash.status = "REQUESTING" => WhileRequesting
    /\ flash.status = "TRANSFERRING" => WhileTransferring
    /\ flash.status = "VERIFYING" => WhileVerifying
    /\ flash.status \in {"LEAVING", "COMPLETE"} =>
          Fits(flash.artifact) /\ Installed

StepInv == SlotInv /\ LinkInv

\* Positions and blocks, and what tells them apart.
LEMMA Places ==
    /\ 1 \in Header \cap Positions
    /\ \A i : i \in Header <=> i \in Nat /\ 1 <= i /\ i <= HeaderBlocks
    /\ \A i : i \in Positions <=> i \in Nat /\ 1 <= i /\ i <= Capacity
    /\ \A u \in Artifacts : \A i \in Positions :
          Block(u, i) \in Data /\ Block(u, i) # Erased /\ Block(u, i) # Damaged
    /\ \A u \in Artifacts : Whole(u)[1] = Block(u, 1) /\ Whole(u)[1] # Erased
    /\ \A u, v, i : Block(u, i) = Block(v, i) => u = v
    /\ Fitting \subseteq Artifacts
<1>1. /\ \A i : i \in Header <=> i \in Nat /\ 1 <= i /\ i <= HeaderBlocks
      /\ \A i : i \in Positions <=> i \in Nat /\ 1 <= i /\ i <= Capacity
  BY Sizes DEF Header, Positions
<1>2. 1 \in Header \cap Positions
  BY <1>1, Sizes
<1>3. ASSUME NEW u \in Artifacts, NEW i \in Positions
      PROVE  Block(u, i) \in Data
  BY <1>1 DEF Block, Data
<1>4. \A u \in Artifacts : \A i \in Positions :
         Block(u, i) \in Data /\ Block(u, i) # Erased /\ Block(u, i) # Damaged
  BY <1>3, FlashAssumption
<1>5. ASSUME NEW u \in Artifacts
      PROVE  Whole(u)[1] = Block(u, 1)
  <2>1. 1 \in Positions /\ 1 <= Blocks[u]
    BY <1>2, Sizes
  <2> QED BY <2>1 DEF Whole
<1>6. \A u, v, i : Block(u, i) = Block(v, i) => u = v
  BY DEF Block
<1>7. Fitting \subseteq Artifacts
  BY LinkedAssumption DEF Fitting
<1> QED BY <1>1, <1>2, <1>4, <1>5, <1>6, <1>7

\* An unfinished erase leaves no artifact that was not there.
LEMMA ErasedPartlyRemains ==
    ASSUME HeaderErased \/ \E u \in Fitting : Remains(u),
           slot' \in ErasedPartly
    PROVE  HeaderErased' \/ \E u \in Fitting : Remains(u)'
<1>1. \A i \in Positions : slot'[i] \in {Erased, slot[i]}
  BY DEF ErasedPartly
<1>2. HeaderErased => HeaderErased'
  BY <1>1 DEF HeaderErased
<1>3. ASSUME NEW u \in Fitting, Remains(u)
      PROVE  Remains(u)'
  BY <1>1, <1>3 DEF Remains, Whole
<1> QED BY <1>2, <1>3

\* With the header of a slot stays what the bootloader sees of it.
LEMMA HeaderStays ==
    ASSUME ServerOK, HeaderErased, NEW n \in Nat, n > HeaderBlocks, NEW d,
           slot' = [slot EXCEPT ![n] = d]
    PROVE  /\ HeaderErased'
           /\ \A i \in Positions : i # n => slot'[i] = slot[i]
           /\ n \in Positions => slot'[n] = d
<1>1. \A i \in Positions : i # n => slot'[i] = slot[i]
  BY DEF ServerOK, Slots
<1>2. n \notin Header
  BY Sizes DEF Header
<1>3. HeaderErased'
  BY <1>1, <1>2 DEF HeaderErased
<1>4. n \in Positions => slot'[n] = d
  BY DEF ServerOK, Slots
<1> QED BY <1>1, <1>3, <1>4

\* Nothing but the end of a download happens.
LEMMA StableStep ==
    ASSUME StepInv, UNCHANGED <<flash, slot>>,
           download' = download \/ download' = NoDownload,
           Pos' => \/ Pos
                   \/ flash.status \notin {"ERASING", "TRANSFERRING", "VERIFYING"}
    PROVE  StepInv'
<1>1. CASE download' = download
  BY <1>1 DEF StepInv, SlotInv, LinkInv, HeaderErased, Remains, OpenDownload,
              Matches, AtBegin, WhileErasing, WhileRequesting,
              WhileTransferring, WhileVerifying, Installed
<1>2. CASE download' = NoDownload
  <2>1. download'.state = "IDLE"
    BY <1>2 DEF NoDownload
  <2> QED BY <2>1 DEF StepInv, SlotInv, LinkInv, HeaderErased, Remains,
              AtBegin, WhileErasing, WhileRequesting,
              WhileTransferring, WhileVerifying, Installed
<1> QED BY <1>1, <1>2

\* RoutineControl: a slot that is ready is blank, whatever an erase before did.
LEMMA RoutineStep ==
    ASSUME Types, StepInv, UNCHANGED flash, flash.status = "ERASING",
           NEW start \in BOOLEAN, ProcessRoutine(RoutineControl(start))
    PROVE  StepInv'
<1>1. CASE Routine
  <2>1. CASE Answer("positive") /\ Enter("READY") /\ slot' = Blank
    <3>1. download'.state = "READY"
      BY <2>1 DEF Enter, Types, ServerOK, DownloadOK, Downloads
    <3>2. HeaderErased'
      BY <2>1 DEF HeaderErased, Blank
    <3> QED BY <2>1, <3>1, <3>2
            DEF StepInv, SlotInv, LinkInv, WhileErasing, AtBegin
  <2>2. CASE /\ answer' # "positive" /\ slot' \in ErasedPartly
             /\ Enter("ERASING") \/ Enter("FAILED")
    <3>1. download'.state \in {"ERASING", "FAILED"}
      BY <2>2 DEF Enter, Types, ServerOK, DownloadOK, Downloads
    <3>2. HeaderErased' \/ \E u \in Fitting : Remains(u)'
      BY <2>2, ErasedPartlyRemains DEF StepInv, SlotInv
    <3> QED BY <2>2, <3>1, <3>2
            DEF StepInv, SlotInv, LinkInv, WhileErasing, AtBegin, Pos
  <2> QED BY <1>1, <2>1, <2>2 DEF Routine, Answer, Fail
<1>2. CASE RoutineEnded /\ download.state = "READY"
  <2>1. UNCHANGED <<download, slot>>
    BY <1>2 DEF RoutineEnded
  <2> QED BY <1>2, <2>1
          DEF StepInv, SlotInv, LinkInv, WhileErasing, AtBegin, HeaderErased,
              Remains
<1>3. CASE RoutineEnded /\ download.state # "READY"
  <2>1. Enter("FAILED") /\ slot' = slot /\ answer' = "failed"
    BY <1>3 DEF RoutineEnded, Fail, Answer
  <2>2. download'.state = "FAILED"
    BY <2>1 DEF Enter, Types, ServerOK, DownloadOK, Downloads
  <2> QED BY <2>1, <2>2
          DEF StepInv, SlotInv, LinkInv, WhileErasing, AtBegin, HeaderErased,
              Remains, Pos
<1>4. CASE Answer("negative") /\ UNCHANGED downloadVars
  <2>1. ~Pos'
    BY <1>4 DEF Answer, Pos
  <2> QED BY <1>4, <2>1, StableStep DEF downloadVars
<1> QED BY <1>1, <1>2, <1>3, <1>4 DEF ProcessRoutine

\* RequestDownload: a download opens on a blank slot that the artifact fits.
LEMMA RequestStep ==
    ASSUME Types, StepInv, UNCHANGED flash, flash.status = "REQUESTING",
           ProcessRequestDownload(RequestDownload(Blocks[flash.artifact]))
    PROVE  StepInv'
<1> DEFINE n == Blocks[flash.artifact]
<1>1. UNCHANGED slot /\ n \in Nat
  BY Sizes DEF ProcessRequestDownload, Types, FlashOK, Busy
<1>2. RequestDownload(n).size = n
  BY DEF RequestDownload
<1>3. CASE DownloadRefused(RequestDownload(n))
  BY <1>1, <1>3, StableStep DEF ProcessRequestDownload
<1>4. CASE ~DownloadRefused(RequestDownload(n))
  <2>1. download.state = "READY" /\ HeaderBlocks <= n /\ n <= Capacity
    BY <1>1, <1>2, <1>4, Sizes DEF DownloadRefused
  <2>2. download' = [NoDownload EXCEPT !.state = "TRANSFER", !.size = n,
                                       !.expected = 1]
    BY <1>2, <1>4 DEF ProcessRequestDownload
  <2>3. /\ download'.state = "TRANSFER" /\ download'.size = n
        /\ download'.expected = 1 /\ download'.received = 0
        /\ download'.last = NoBlock
    BY <2>2 DEF NoDownload
  <2>4. slot' = Blank
    BY <1>1, <2>1 DEF StepInv, SlotInv
  <2>5. \A i \in Positions : slot'[i] = Erased
    BY <2>4 DEF Blank
  <2>6. \A i \in 1 .. Capacity : slot'[i] = Erased
    BY <2>5 DEF Positions
  <2>7. HeaderErased'
    BY <2>5 DEF HeaderErased
  <2>8. (0 + 1) % Modulus = 1
    BY Sizes
  <2>9. OpenDownload'
    BY <2>1, <2>3, <2>6, <2>7, <2>8 DEF OpenDownload
  <2> QED BY <2>3, <2>7, <2>9
          DEF StepInv, SlotInv, LinkInv, WhileRequesting, AtBegin
<1> QED BY <1>3, <1>4

\* TransferData: the server takes a block once, and only the next one; what it
\* acknowledges again it has.
LEMMA TransferStep ==
    ASSUME Types, StepInv, UNCHANGED flash, flash.status = "TRANSFERRING",
           ProcessTransferData(CurrentBlock(flash))
    PROVE  /\ StepInv'
           /\ \/ slot' = slot
              \/ HeaderErased /\ HeaderErased'
<1> DEFINE H == HeaderBlocks
           u == flash.artifact
           b == Block(u, flash.offset + 1)
           n == download.received + 1
<1>1. /\ WhileTransferring /\ SlotInv
      /\ download.state = "TRANSFER" => OpenDownload
  BY DEF StepInv, SlotInv, LinkInv
<1>2. /\ flash.offset \in Nat /\ flash.sequence \in Counters /\ u \in Artifacts
      /\ download \in Downloads /\ slot \in Slots /\ DownloadOK
      /\ download.received \in Nat /\ download.size \in Nat
      /\ download.header \in Seq(Data) /\ H \in Nat /\ H >= 1 /\ Capacity \in Nat
  BY Sizes DEF Types, FlashOK, Busy, Controllers, ServerOK, DownloadOK, Downloads
<1>3. b \in Data
  BY <1>2 DEF Data, Block
<1>4. ASSUME download.state = "TRANSFER"
      PROVE  flash.sequence = download.last <=>
                download.received = flash.offset + 1
  <2>1. /\ flash.sequence = (flash.offset + 1) % Modulus
        /\ download.received \in {flash.offset, flash.offset + 1}
        /\ download.last = IF download.received = 0 THEN NoBlock
                           ELSE download.received % Modulus
    BY <1>1, <1>4 DEF WhileTransferring, OpenDownload
  <2>2. NoBlock \notin Counters
    BY Sizes DEF NoBlock, Counters
  <2>3. (flash.offset + 1) % Modulus # flash.offset % Modulus
    BY <1>2, CounterSteps
  <2> QED BY <1>2, <2>1, <2>2, <2>3
<1>5. CASE /\ download.state = "TRANSFER" /\ flash.sequence = download.last
           /\ answer' = "positive" /\ UNCHANGED <<download, slot>>
  BY <1>1, <1>4, <1>5
     DEF StepInv, SlotInv, LinkInv, WhileTransferring, OpenDownload, Matches,
         HeaderErased, Remains
<1>6. CASE answer' = "negative" /\ UNCHANGED <<download, slot>>
  <2>1. ~Pos' /\ slot' = slot
    BY <1>6 DEF Pos
  <2>2. StepInv'
    BY <1>6, <2>1, StableStep
  <2> QED BY <2>1, <2>2
<1>7. CASE /\ download.state = "TRANSFER" /\ flash.sequence # download.last
           /\ answer' = "positive" /\ download.received < download.size
           /\ download' =
                 [download EXCEPT
                     !.received = n, !.last = flash.sequence,
                     !.expected = (download.expected + 1) % Modulus,
                     !.header = IF download.received < H
                                THEN Append(download.header, b)
                                ELSE download.header]
           /\ slot' = IF download.received < H THEN slot ELSE Programmed(n, b)
  <2>1. /\ download'.state = "TRANSFER" /\ download'.size = download.size
        /\ download'.received = n /\ download'.last = flash.sequence
        /\ download'.expected = (download.expected + 1) % Modulus
        /\ download'.header = IF download.received < H
                              THEN Append(download.header, b)
                              ELSE download.header
    BY <1>2, <1>7 DEF Downloads
  <2>2. /\ download.received = flash.offset /\ b = Block(u, n)
        /\ download.size = Blocks[u] /\ Matches /\ OpenDownload
    BY <1>1, <1>2, <1>4, <1>7 DEF WhileTransferring
  <2>3. n \in 1 .. Capacity /\ n \in Positions /\ slot[n] = Erased
    BY <1>2, <1>7, <2>2, Places DEF OpenDownload
  <2>4. ASSUME ~(download.received < H)
        PROVE  slot' = [slot EXCEPT ![n] = b] /\ n > H
    BY <1>2, <1>7, <2>3, <2>4 DEF Programmed
  <2>5. /\ HeaderErased'
        /\ \A i \in Positions : i # n => slot'[i] = slot[i]
        /\ ~(n <= H) => slot'[n] = b
    <3>1. CASE download.received < H
      <4>1. slot' = slot
        BY <1>7, <3>1
      <4> QED BY <1>2, <2>2, <3>1, <4>1 DEF OpenDownload, HeaderErased
    <3>2. CASE ~(download.received < H)
      <4>1. slot' = [slot EXCEPT ![n] = b] /\ n > H /\ n \in Nat
        BY <1>2, <2>4, <3>2
      <4> QED BY <2>2, <2>3, <4>1, HeaderStays DEF OpenDownload, Types
    <3> QED BY <3>1, <3>2
  <2> HIDE DEF b
  <2>6. OpenDownload'
    <3>1. download'.expected = (n + 1) % Modulus
      BY <1>2, <2>1, <2>2, CounterSteps DEF OpenDownload
    <3>2. download'.last = n % Modulus /\ n # 0
      BY <1>1, <1>2, <2>1, <2>2 DEF WhileTransferring
    <3>3. \A i \in (n + 1) .. Capacity : slot'[i] = Erased
      <4>1. \A i \in (n + 1) .. Capacity : slot[i] = Erased
        BY <1>2, <2>2 DEF OpenDownload
      <4>2. \A i \in (n + 1) .. Capacity : i \in Positions /\ i # n
        <5>1. n \in Nat /\ Capacity \in Nat
          <6>1. download.received \in Nat /\ Capacity \in Nat
            BY <1>2, Zenon
          <6> QED BY <6>1
        <5>2. \A i \in (n + 1) .. Capacity :
                 i \in Nat /\ 1 <= i /\ i <= Capacity /\ i # n
          BY <5>1
        <5> QED BY <5>2, Places
      <4> QED BY <2>5, <4>1, <4>2
    <3> QED BY <2>1, <2>2, <2>5, <3>1, <3>2, <3>3 DEF OpenDownload
  <2>7. Matches'
    <3> SUFFICES ASSUME NEW i \in 1 .. n
                 PROVE  Block(u, i) = IF i <= H THEN download'.header[i]
                                      ELSE slot'[i]
      BY <2>1 DEF Matches
    <3>1. CASE i = n
      <4>1. ASSUME i <= H
            PROVE  download'.header[i] = b
        <5>1. download.received < H /\ Len(download.header) = download.received
          BY <1>2, <3>1, <4>1 DEF DownloadOK
        <5>2. Append(download.header, b)[Len(download.header) + 1] = b
          BY <1>2, <1>3
        <5> QED BY <1>2, <2>1, <3>1, <5>1, <5>2
      <4> QED BY <2>2, <2>5, <3>1, <4>1
    <3>2. CASE i # n
      <4>1. i \in 1 .. download.received /\ i \in Positions
        BY <1>2, <2>3, <3>2, Places
      <4>2. ASSUME i <= H
            PROVE  download'.header[i] = download.header[i]
        <5>1. i \in 1 .. Len(download.header)
          BY <1>2, <4>1, <4>2 DEF DownloadOK
        <5>2. Append(download.header, b)[i] = download.header[i]
          BY <1>2, <1>3, <5>1
        <5> QED BY <2>1, <5>2
      <4> QED BY <2>2, <2>5, <3>2, <4>1, <4>2 DEF Matches
    <3> QED BY <3>1, <3>2
  <2>8. WhileTransferring'
    BY <1>1, <1>2, <2>1, <2>2, <2>7 DEF WhileTransferring, Fits
  <2>9. HeaderErased
    BY <2>2 DEF OpenDownload
  <2> QED BY <1>7, <2>1, <2>5, <2>6, <2>8, <2>9 DEF StepInv, SlotInv, LinkInv
<1>8. CASE /\ download.state = "TRANSFER" /\ answer' = "negative"
           /\ download' = [download EXCEPT !.state = "FAILED"]
           /\ \/ slot' = slot
              \/ /\ ~(download.received < H)
                 /\ slot' = [slot EXCEPT ![n] = Damaged]
  <2>1. download'.state = "FAILED"
    BY <1>2, <1>8 DEF Downloads
  <2>2. HeaderErased
    BY <1>1, <1>8 DEF OpenDownload
  <2>3. HeaderErased'
    <3>1. n \in Nat /\ (~(download.received < H) => n > H)
      BY <1>2
    <3> QED BY <1>8, <2>2, <3>1, HeaderStays DEF HeaderErased, Types
  <2>4. WhileTransferring'
    BY <1>1, <2>1 DEF WhileTransferring, Fits
  <2>5. StepInv'
    BY <2>1, <2>3, <2>4 DEF StepInv, SlotInv, LinkInv
  <2> QED BY <2>2, <2>3, <2>5
<1> QED BY <1>5, <1>6, <1>7, <1>8, TransferCases

\* RequestTransferExit: with the header the slot holds the whole artifact.
LEMMA ExitStep ==
    ASSUME Types, StepInv, UNCHANGED flash, flash.status = "VERIFYING",
           ProcessTransferExit
    PROVE  /\ StepInv'
           /\ \/ slot' = slot
              \/ /\ HeaderErased /\ slot' = Whole(flash.artifact)
                 /\ Fits(flash.artifact)
<1> DEFINE u == flash.artifact
<1>1. /\ WhileVerifying /\ SlotInv /\ u \in Artifacts
      /\ download.state = "TRANSFER" => OpenDownload
  BY DEF StepInv, SlotInv, LinkInv, Types, FlashOK, Busy
<1>2. CASE ExitRefused
  <2>1. answer' = "negative" /\ UNCHANGED <<download, slot>>
    BY <1>2 DEF ProcessTransferExit, Answer, downloadVars
  <2>2. ~Pos'
    BY <2>1 DEF Pos
  <2> QED BY <2>1, <2>2, StableStep
<1>3. CASE ~ExitRefused
  <2>1. download.state = "TRANSFER" /\ download.received = download.size
    BY <1>3 DEF ExitRefused
  <2>2. /\ download.size = Blocks[u] /\ Matches /\ OpenDownload /\ Fits(u)
    BY <1>1, <2>1 DEF WhileVerifying
  <2>3. Len(download.header) = HeaderBlocks
    <3>1. Len(download.header) = IF download.received < HeaderBlocks
                                 THEN download.received ELSE HeaderBlocks
      BY DEF Types, ServerOK, DownloadOK
    <3>2. download.received \in Nat /\ HeaderBlocks <= download.received
      BY <2>1, <2>2 DEF OpenDownload, Types, ServerOK, DownloadOK, Downloads
    <3> QED BY <3>1, <3>2, Sizes
  <2>4. ASSUME NEW i \in Positions
        PROVE  WithHeader[i] = Whole(u)[i]
    <3>1. i \in Nat /\ 1 <= i /\ i <= Capacity /\ Blocks[u] \in Nat
      BY <1>1, Places, Sizes
    <3>2. CASE i <= Blocks[u]
      <4>1. i \in 1 .. download.received
        BY <2>1, <2>2, <3>1, <3>2
      <4> QED BY <2>2, <2>3, <3>2, <4>1 DEF Matches, WithHeader, Whole
    <3>3. CASE ~(i <= Blocks[u])
      <4>1. i \in (download.received + 1) .. Capacity /\ ~(i <= HeaderBlocks)
        BY <1>1, <2>1, <2>2, <3>1, <3>3, Sizes
      <4> QED BY <2>2, <2>3, <3>3, <4>1 DEF OpenDownload, WithHeader, Whole
    <3> QED BY <3>2, <3>3
  <2>5. WithHeader = Whole(u)
    BY <2>4 DEF WithHeader, Whole
  <2>6. /\ slot' \in {slot, WithHeader}
        /\ \/ Enter("COMPLETE") /\ slot' = WithHeader
           \/ Enter("FAILED") /\ answer' = "negative"
    BY <1>3 DEF ProcessTransferExit, Answer, Fail
  <2>7. /\ \/ download'.state = "COMPLETE" /\ slot' = Whole(u)
           \/ download'.state = "FAILED" /\ ~Pos'
    BY <2>5, <2>6
       DEF Enter, Types, ServerOK, DownloadOK, Downloads, Pos
  <2>8. Fits(u)' /\ u \in Fitting
    BY <2>2 DEF Fits
  <2>9. HeaderErased' \/ \E v \in Fitting : Remains(v)'
    <3>1. CASE slot' = slot
      BY <1>1, <3>1 DEF SlotInv, HeaderErased, Remains
    <3>2. CASE slot' = Whole(u)
      <4>1. Remains(u)'
        BY <3>2 DEF Remains, Whole
      <4> QED BY <2>8, <4>1
    <3> QED BY <2>5, <2>6, <3>1, <3>2
  <2>10. StepInv'
    BY <2>7, <2>8, <2>9
       DEF StepInv, SlotInv, LinkInv, WhileVerifying, Installed
  <2> QED BY <2>2, <2>5, <2>6, <2>10 DEF OpenDownload
<1> QED BY <1>2, <1>3

\* How a step changes the slot: while the tool claims nothing, an erase takes
\* an artifact away, or blocks are programmed below a header that is erased,
\* or the header completes an artifact that fits.
SlotMoves ==
    \/ UNCHANGED slot
    \/ /\ UNCHANGED flash /\ flash.status \notin {"LEAVING", "COMPLETE"}
       /\ \/ slot' \in ErasedPartly
          \/ HeaderErased /\ HeaderErased'
          \/ HeaderErased /\ \E u \in Fitting : slot' = Whole(u)

\* An erase that has ended left nothing.
LEMMA BlankIsErased == Blank \in ErasedPartly
<1>1. {} \in SUBSET Positions
  OBVIOUS
<1>2. [i \in Positions |-> IF i \in {} THEN slot[i] ELSE Erased] = Blank
  BY DEF Blank
<1> DEFINE left(kept) == [i \in Positions |-> IF i \in kept THEN slot[i] ELSE Erased]
<1>3. left({}) = Blank
  BY <1>2
<1> HIDE DEF left
<1>4. \E kept \in SUBSET Positions : Blank = left(kept)
  BY <1>1, <1>3
<1> QED BY <1>4 DEF ErasedPartly, left

\* A request that is served.
LEMMA ServeStep ==
    ASSUME Types, StepInv, Serve
    PROVE  StepInv' /\ SlotMoves
<1>1. UNCHANGED <<flash, queue>>
  BY ServeCases
<1>2. OnUpdate' <=> OnUpdate
  BY <1>1 DEF OnUpdate, Active, Request
<1>3. CASE ~OnUpdate /\ ServesPoll
  <2>1. ~Pos' /\ UNCHANGED <<download, slot>>
    BY <1>2, <1>3 DEF Pos, ServesPoll, downloadVars
  <2> QED BY <1>1, <2>1, StableStep DEF SlotMoves
<1>4. CASE ServesSession
  <2>1. /\ flash.status \in {"SESSION", "LEAVING", "ABORTING"}
        /\ UNCHANGED slot
        /\ download' = download \/ download' = NoDownload
    BY <1>4 DEF ServesSession, AbortDownload, downloadVars
  <2> QED BY <1>1, <2>1, StableStep DEF SlotMoves
<1>5. CASE Refuses
  <2>1. ~Pos' /\ UNCHANGED <<download, slot>>
    BY <1>5 DEF Pos, Refuses, downloadVars
  <2> QED BY <1>1, <2>1, StableStep DEF SlotMoves
<1>6. CASE ServesProgramming
  <2>1. ASSUME NEW start \in BOOLEAN, flash.status = "ERASING",
               ProcessRoutine(RoutineControl(start))
        PROVE  StepInv' /\ SlotMoves
    <3>1. slot' = slot \/ slot' \in ErasedPartly
      BY <2>1, BlankIsErased DEF ProcessRoutine, Routine, RoutineEnded, downloadVars
    <3> QED BY <1>1, <2>1, <3>1, RoutineStep DEF SlotMoves
  <2>2. CASE /\ flash.status = "REQUESTING"
             /\ ProcessRequestDownload(RequestDownload(Blocks[flash.artifact]))
    BY <1>1, <2>2, RequestStep DEF SlotMoves, ProcessRequestDownload
  <2>3. CASE /\ flash.status = "TRANSFERRING"
             /\ ProcessTransferData(CurrentBlock(flash))
    BY <1>1, <2>3, TransferStep DEF SlotMoves
  <2>4. CASE flash.status = "VERIFYING" /\ ProcessTransferExit
    BY <1>1, <2>4, ExitStep DEF SlotMoves, Fits
  <2> QED BY <1>6, <2>1, <2>2, <2>3, <2>4, Zenon DEF ServesProgramming
<1> QED BY <1>3, <1>4, <1>5, <1>6, ServeCases

\* A request that ends while its update waits for it.
LEMMA CallbackStep ==
    ASSUME Types, StepInv, OnUpdate, NEW result, UpdateCallback(result),
           result = "positive" => Pos,
           UNCHANGED <<download, slot>>, answer' = "none"
    PROVE  StepInv'
<1> DEFINE u == flash.artifact
<1>1. flash \in Controllers /\ u \in Artifacts
  <2>1. Expects(flash, Request)
    BY QueueCases DEF Types
  <2> QED BY <2>1, ExpectsWhileBusy DEF Types, FlashOK
<1>2. /\ flash.status \in Statuses /\ flash.offset \in Nat
      /\ Blocks[u] \in Nat \ {0}
  BY <1>1, Sizes DEF Controllers
<1>3. ~Pos' /\ SlotInv'
  <2>1. ~Pos'
    BY DEF Pos
  <2>2. SlotInv'
    BY DEF StepInv, SlotInv, HeaderErased, Remains, OpenDownload
  <2> QED BY <2>1, <2>2
<1>4. SUFFICES LinkInv'
  BY <1>3 DEF StepInv
<1>5. CASE flash'.status \in {"ABORTING", "FAULT"}
  BY <1>5 DEF LinkInv
<1>6. ASSUME Stop
      PROVE  flash'.status \in {"ABORTING", "FAULT"}
  BY <1>1, <1>6 DEF Stop, Proceed, Controllers
<1>7. CASE OnProgrammingSession(result)
  <2>1. CASE flash' = [flash EXCEPT !.status = "ERASING"]
    <3>1. flash'.status = "ERASING" /\ flash'.offset = flash.offset
          /\ flash'.sequence = flash.sequence
      BY <1>1, <2>1 DEF Controllers
    <3>2. AtBegin
      BY <1>7 DEF OnProgrammingSession, StepInv, LinkInv
    <3> QED BY <1>3, <3>1, <3>2 DEF LinkInv, WhileErasing, AtBegin
  <2> QED BY <1>5, <1>6, <1>7, <2>1 DEF OnProgrammingSession, Proceed
<1>8. CASE OnEraseResult(result)
  <2>1. AtBegin /\ WhileErasing /\ flash.status = "ERASING"
    BY <1>8 DEF OnEraseResult, StepInv, LinkInv, WhileErasing
  <2>2. CASE flash' = [flash EXCEPT !.polls = @ + 1]
    <3>1. flash'.status = "ERASING" /\ flash'.offset = flash.offset
          /\ flash'.sequence = flash.sequence
      BY <1>1, <2>1, <2>2 DEF Controllers
    <3> QED BY <1>3, <2>1, <3>1 DEF LinkInv, WhileErasing, AtBegin
  <2>3. CASE /\ flash' = [flash EXCEPT !.status = "REQUESTING"]
             /\ Fits(u) /\ result = "positive"
    <3>1. flash'.status = "REQUESTING" /\ flash'.offset = flash.offset
          /\ flash'.sequence = flash.sequence /\ flash'.artifact = u
      BY <1>1, <2>3 DEF Controllers
    <3>2. download.state # "TRANSFER"
      BY <2>1, <2>3 DEF WhileErasing
    <3> QED BY <1>3, <2>1, <2>3, <3>1, <3>2
            DEF LinkInv, WhileRequesting, AtBegin, Fits
  <2> QED BY <1>5, <1>6, <1>8, <2>2, <2>3 DEF OnEraseResult, Negotiate, Proceed
<1>9. CASE OnDownloadRequested(result)
  <2>1. WhileRequesting /\ flash.status = "REQUESTING"
    BY <1>9 DEF OnDownloadRequested, StepInv, LinkInv
  <2>2. CASE SendNextBlock([flash EXCEPT !.status = "TRANSFERRING"])
    <3> DEFINE c == [flash EXCEPT !.status = "TRANSFERRING"]
    <3>1. c \in Controllers /\ c.status = "TRANSFERRING" /\ c.offset = 0
          /\ c.sequence = 1 /\ c.artifact = u
      BY <1>1, <2>1 DEF Controllers, Statuses, WhileRequesting, AtBegin
    <3> HIDE DEF c
    <3>2. flash' = [c EXCEPT !.retried = FALSE]
      <4>1. SendNextBlock(c) /\ ~(c.offset >= Blocks[c.artifact])
        BY <1>2, <2>2, <3>1 DEF c
      <4> QED BY <3>1, <4>1, SendNextBlockCases
    <3>3. /\ flash'.status = "TRANSFERRING" /\ flash'.offset = 0
          /\ flash'.sequence = 1 /\ flash'.artifact = u
      BY <3>1, <3>2 DEF Controllers
    <3>4. (0 + 1) % Modulus = 1
      BY Sizes
    <3>5. download.state = "TRANSFER" => Matches'
      BY <2>1, <3>3 DEF WhileRequesting, Matches
    <3> QED BY <1>2, <1>3, <2>1, <3>3, <3>4, <3>5
            DEF LinkInv, WhileRequesting, WhileTransferring, Fits
  <2> QED BY <1>5, <1>6, <1>9, <2>2 DEF OnDownloadRequested
<1>10. CASE OnTransferData(result)
  <2>1. WhileTransferring /\ flash.status = "TRANSFERRING"
    BY <1>10 DEF OnTransferData, StepInv, LinkInv
  <2>2. CASE Retry(result)
    <3>1. flash' = [flash EXCEPT !.retried = TRUE]
      BY <2>2 DEF Retry, Proceed
    <3>2. /\ flash'.status = "TRANSFERRING" /\ flash'.offset = flash.offset
          /\ flash'.sequence = flash.sequence /\ flash'.artifact = u
      BY <1>1, <2>1, <3>1 DEF Controllers
    <3> QED BY <1>3, <2>1, <3>2 DEF LinkInv, WhileTransferring, Fits, Matches
  <2>3. CASE result = "positive" /\ SendNextBlock(Transferred)
    <3>1. /\ Transferred.status = "TRANSFERRING" /\ Transferred.artifact = u
          /\ Transferred.offset = flash.offset + 1
          /\ Transferred.sequence = (flash.offset + 2) % Modulus
          /\ Transferred \in Controllers
      <4>1. /\ flash.sequence = (flash.offset + 1) % Modulus
            /\ (flash.sequence + 1) % Modulus = (flash.offset + 2) % Modulus
            /\ (flash.offset + 2) % Modulus \in Counters
        BY <1>2, <2>1, CounterSteps DEF WhileTransferring
      <4> DEFINE next == (flash.sequence + 1) % Modulus
      <4>2. next = (flash.offset + 2) % Modulus /\ next \in Counters
        BY <4>1
      <4> DEFINE offset == flash.offset + 1
      <4>3. /\ Transferred = [flash EXCEPT !.offset = offset, !.sequence = next]
            /\ offset \in Nat
        BY <1>2 DEF Transferred
      <4> HIDE DEF next, offset
      <4>4. /\ Transferred.status = "TRANSFERRING" /\ Transferred.artifact = u
            /\ Transferred.offset = offset
            /\ Transferred.sequence = next /\ Transferred \in Controllers
        BY <1>1, <2>1, <4>2, <4>3 DEF Controllers
      <4> QED BY <4>2, <4>4 DEF offset
    <3> DEFINE c == Transferred
    <3> HIDE DEF c
    <3>2. ASSUME download.state = "TRANSFER"
          PROVE  download.received = flash.offset + 1 /\ Matches
                 /\ download.size = Blocks[u]
      BY <2>1, <2>3, <3>2 DEF WhileTransferring
    <3>3. CASE c.offset >= Blocks[u]
      <4>1. flash' = [c EXCEPT !.status = "VERIFYING"]
        BY <2>3, <3>1, <3>3, SendNextBlockCases DEF Proceed, c
      <4>2. flash'.status = "VERIFYING" /\ flash'.artifact = u
        BY <3>1, <4>1 DEF Controllers, c
      <4>3. flash.offset + 1 = Blocks[u]
        BY <1>2, <2>1, <3>1, <3>3 DEF WhileTransferring, c
      <4>4. Matches => Matches'
        BY <4>2 DEF Matches
      <4> QED BY <1>3, <2>1, <3>2, <4>2, <4>3, <4>4
              DEF LinkInv, WhileTransferring, WhileVerifying, Fits
    <3>4. CASE ~(c.offset >= Blocks[u])
      <4>1. flash' = [c EXCEPT !.retried = FALSE]
        BY <2>3, <3>1, <3>4, SendNextBlockCases DEF c
      <4>2. /\ flash'.status = "TRANSFERRING" /\ flash'.artifact = u
            /\ flash'.offset = flash.offset + 1
            /\ flash'.sequence = (flash.offset + 2) % Modulus
        BY <3>1, <4>1 DEF Controllers, c
      <4>3. flash.offset + 1 < Blocks[u] /\ (flash.offset + 1) + 1 = flash.offset + 2
        BY <1>2, <3>1, <3>4 DEF c
      <4>4. Matches => Matches'
        BY <4>2 DEF Matches
      <4> QED BY <1>3, <2>1, <3>2, <4>2, <4>3, <4>4
              DEF LinkInv, WhileTransferring, Fits
    <3> QED BY <3>3, <3>4
  <2> QED BY <1>5, <1>6, <1>10, <2>2, <2>3 DEF OnTransferData
<1>11. CASE OnTransferExit(result)
  <2>1. WhileVerifying /\ flash.status = "VERIFYING"
    BY <1>11 DEF OnTransferExit, StepInv, LinkInv
  <2>2. CASE /\ result = "positive"
             /\ flash' = [flash EXCEPT !.status = "LEAVING"]
    <3>1. flash'.status = "LEAVING" /\ flash'.artifact = u
      BY <1>1, <2>2 DEF Controllers
    <3> QED BY <2>1, <2>2, <3>1
            DEF LinkInv, WhileVerifying, Installed, Fits, Whole
  <2> QED BY <1>5, <1>6, <1>11, <2>2 DEF OnTransferExit, Proceed
<1>12. CASE OnCleanup
  <2>1. CASE flash.status = "LEAVING"
    <3>1. flash'.status = "COMPLETE" /\ flash'.artifact = u
      BY <1>1, <1>12, <2>1 DEF OnCleanup, Controllers
    <3> QED BY <2>1, <3>1 DEF StepInv, LinkInv, Installed, Fits, Whole
  <2>2. CASE flash.status = "ABORTING"
    <3>1. flash'.status = "FAULT"
      BY <1>1, <1>12, <2>2 DEF OnCleanup, Controllers
    <3> QED BY <1>5, <3>1
  <2> QED BY <1>12, <2>1, <2>2 DEF OnCleanup
<1> QED BY <1>7, <1>8, <1>9, <1>10, <1>11, <1>12 DEF UpdateCallback

\* The end of a request.
LEMMA EndStep ==
    ASSUME Types, StepInv, Ends
    PROVE  StepInv' /\ UNCHANGED slot
<1>1. UNCHANGED <<download, slot>> /\ answer' = "none"
  BY EndCases DEF serverVars
<1>2. ~Pos'
  BY <1>1 DEF Pos
<1>3. CASE ~OnUpdate
  BY <1>1, <1>2, <1>3, EndCases, StableStep
<1>4. CASE OnUpdate
  <2>1. PICK result : EndsWith(result) /\ UpdateCallback(result)
    BY <1>4, EndCases
  <2>2. result = "positive" => Pos
    BY <1>4, <2>1 DEF EndsWith, Pos
  <2> QED BY <1>1, <1>4, <2>1, <2>2, CallbackStep
<1> QED BY <1>3, <1>4

\* Requests and responses that come and go leave the slot alone.
LEMMA QuietStep ==
    ASSUME Types, StepInv,
           Lose \/ RefreshDiagnostics \/ Tick \/ Reconnect \/ FirmwareTick
    PROVE  StepInv' /\ UNCHANGED slot
<1>1. CASE Lose \/ RefreshDiagnostics \/ Tick
  <2>1. /\ UNCHANGED <<flash, download, slot>>
        /\ Active => Active' /\ Request' = Request
        /\ ~Active /\ Active' => Request' = ReadDids
    BY <1>1, SmallSteps DEF downloadVars
  <2>2. answer' = "lost" \/ answer' = answer
    BY <1>1 DEF Lose, RefreshDiagnostics, Tick
  <2>3. Pos' => Pos
    <3>1. OnUpdate' => OnUpdate
      BY <2>1 DEF OnUpdate
    <3> QED BY <2>2, <3>1 DEF Pos
  <2> QED BY <2>1, <2>3, StableStep
<1>2. CASE Reconnect
  <2>1. UNCHANGED <<flash, download, slot>> /\ answer' = "none"
    BY <1>2 DEF Reconnect, serverVars
  <2>2. ~Pos'
    BY <2>1 DEF Pos
  <2> QED BY <2>1, <2>2, StableStep
<1>3. CASE FirmwareTick
  <2>1. /\ UNCHANGED <<flash, queue, answer, slot>>
        /\ download' = download \/ download' = NoDownload
    BY <1>3 DEF FirmwareTick, SessionTimeout, AbortDownload, downloadVars
  <2>2. Pos' => Pos
    BY <2>1 DEF Pos, OnUpdate, Active, Request
  <2> QED BY <2>1, <2>2, StableStep
<1> QED BY <1>1, <1>2, <1>3

\* Another update, by this tool or by one that was started again.
LEMMA BeginStep ==
    ASSUME Types, StepInv, StartUpdate \/ RestartTool
    PROVE  StepInv' /\ UNCHANGED slot
<1>1. UNCHANGED <<download, slot>>
  BY DEF StartUpdate, RestartTool, serverVars
<1>2. SlotInv'
  BY <1>1 DEF StepInv, SlotInv, HeaderErased, Remains, OpenDownload
<1>3. /\ flash'.status \in {"SESSION", "IDLE"}
      /\ flash'.status = "SESSION" => AtBegin'
  <2>1. CASE StartUpdate
    <3>1. flash \in Controllers
      BY DEF Types, FlashOK
    <3>2. PICK u \in Artifacts :
             flash' = [flash EXCEPT !.status = "SESSION", !.artifact = u,
                                    !.offset = 0, !.sequence = 1, !.polls = 0]
      BY <2>1 DEF StartUpdate, Start
    <3> QED BY <3>1, <3>2 DEF Controllers, AtBegin
  <2>2. CASE RestartTool
    BY <2>2 DEF RestartTool, ControllerIdle
  <2> QED BY <2>1, <2>2
<1> QED BY <1>1, <1>2, <1>3 DEF StepInv, LinkInv

\* A restart of the firmware damages what it was writing, and no artifact that
\* the tool has claimed.
LEMMA RestartFirmwareStep ==
    ASSUME Types, StepInv, RestartFirmware
    PROVE  StepInv' /\ SlotMoves
<1>1. /\ UNCHANGED <<flash, queue>> /\ download' = NoDownload
      /\ answer' \in {"lost", "none"}
      /\ \/ slot' = slot
         \/ /\ download.state = "TRANSFER" /\ ~InHeader
            /\ slot' = [slot EXCEPT ![download.received + 1] = Damaged]
         \/ download.state = "ERASING" /\ slot' \in ErasedPartly
  BY DEF RestartFirmware, ServerReset
<1>2. ~Pos' /\ download'.state = "IDLE"
  BY <1>1 DEF Pos, NoDownload
<1>3. CASE slot' = slot
  BY <1>1, <1>2, <1>3, StableStep DEF SlotMoves
<1>4. ASSUME HeaderErased' \/ \E u \in Fitting : Remains(u)',
             flash.status \notin {"LEAVING", "COMPLETE"}
      PROVE  StepInv'
  BY <1>1, <1>2, <1>4
     DEF StepInv, SlotInv, LinkInv, AtBegin, WhileErasing, WhileRequesting,
         WhileTransferring, WhileVerifying, Fits
<1>5. download.state \in {"TRANSFER", "ERASING"} =>
         flash.status \notin {"LEAVING", "COMPLETE"}
  BY DEF StepInv, LinkInv, Installed
<1>6. CASE /\ download.state = "TRANSFER" /\ ~InHeader
           /\ slot' = [slot EXCEPT ![download.received + 1] = Damaged]
  <2>1. HeaderErased
    BY <1>6 DEF StepInv, SlotInv, OpenDownload
  <2>2. download.received + 1 \in Nat /\ download.received + 1 > HeaderBlocks
    <3>1. download.received \in Nat /\ HeaderBlocks \in Nat
      BY Sizes DEF Types, ServerOK, DownloadOK, Downloads
    <3> QED BY <1>6, <3>1 DEF InHeader
  <2>3. HeaderErased'
    BY <1>6, <2>1, <2>2, HeaderStays DEF Types
  <2> QED BY <1>1, <1>4, <1>5, <1>6, <2>1, <2>3 DEF SlotMoves
<1>7. CASE download.state = "ERASING" /\ slot' \in ErasedPartly
  <2>1. HeaderErased' \/ \E u \in Fitting : Remains(u)'
    BY <1>7, ErasedPartlyRemains DEF StepInv, SlotInv
  <2> QED BY <1>1, <1>4, <1>5, <1>7, <2>1 DEF SlotMoves
<1> QED BY <1>1, <1>3, <1>6, <1>7

\* Every step keeps the tool and the server in step.
LEMMA EveryStep ==
    ASSUME Types, StepInv, [Next]_vars
    PROVE  StepInv' /\ SlotMoves
<1>1. CASE UNCHANGED vars
  <2>1. UNCHANGED <<flash, queue, answer, download, slot>>
    BY <1>1 DEF vars, serverVars
  <2>2. Pos' => Pos
    BY <2>1 DEF Pos, OnUpdate, Active, Request
  <2> QED BY <2>1, <2>2, StableStep DEF SlotMoves
<1>2. CASE Next
  <2>1. CASE Serve \/ RestartFirmware
    BY <2>1, ServeStep, RestartFirmwareStep
  <2>2. CASE StepInv' /\ UNCHANGED slot
    BY <2>2 DEF SlotMoves
  <2> QED BY <1>2, <2>1, <2>2, EndStep, QuietStep, BeginStep DEF Next, Ends
<1> QED BY <1>1, <1>2

LEMMA FirstStep ==
    ASSUME Init
    PROVE  StepInv
<1>1. /\ download.state = "IDLE" /\ flash.status = "IDLE"
      /\ slot \in {Blank} \cup {Whole(u) : u \in Fitting}
  BY DEF Init, ServerInit, DownloadInit, NoDownload, ControllerIdle
<1>2. slot = Blank => HeaderErased
  BY DEF HeaderErased, Blank
<1>3. ASSUME NEW u \in Fitting, slot = Whole(u)
      PROVE  Remains(u)
  BY <1>3 DEF Remains
<1> QED BY <1>1, <1>2, <1>3 DEF StepInv, SlotInv, LinkInv

\* Both ends of an update stay in step, whatever is lost, repeated, restarted
\* or abandoned: the server has what the tool knows to be accepted, at most the
\* active block in addition, and each block in its place; what the tool
\* claims to be installed fills the slot.
THEOREM StepsTogether == Spec => []StepInv
<1>1. Init => StepInv
  BY FirstStep
<1>2. StepInv /\ Types /\ [Next]_vars => StepInv'
  BY EveryStep
<1> QED BY <1>1, <1>2, TypesInvariance, PTL DEF Spec

----------------------------------------------------------------------------
(* The update implements the firmware update service.                      *)

\* What the bootloader finds in the slot.
ImageIs ==
    /\ \A u \in Artifacts : slot = Whole(u) => Image = u /\ ~HeaderErased
    /\ (\A u \in Artifacts : slot # Whole(u)) =>
          Image = IF HeaderErased THEN "nothing" ELSE "unsound"

\* Each artifact looks different, and none of them like a slot without a header.
LEMMA Images == ImageIs
<1>1. \A u, v \in Artifacts : Whole(u) = Whole(v) => u = v
  BY Places
<1>2. ASSUME NEW u \in Artifacts, slot = Whole(u)
      PROVE  Image = u /\ ~HeaderErased
  <2>1. Image = u
    BY <1>1, <1>2 DEF Image
  <2>2. ~HeaderErased
    BY <1>2, Places DEF HeaderErased
  <2> QED BY <2>1, <2>2
<1>3. ASSUME \A u \in Artifacts : slot # Whole(u)
      PROVE  Image = IF HeaderErased THEN "nothing" ELSE "unsound"
  BY <1>3 DEF Image, HeaderErased
<1> QED BY <1>2, <1>3 DEF ImageIs

\* The same after a step.
LEMMA ImagesAfter ==
    /\ \A u \in Artifacts : slot' = Whole(u) => Image' = u /\ ~HeaderErased'
    /\ (\A u \in Artifacts : slot' # Whole(u)) =>
          Image' = IF HeaderErased' THEN "nothing" ELSE "unsound"
<1>1. ImageIs'
  BY Images, PTL
<1> QED BY <1>1 DEF ImageIs, Whole

\* An artifact in the slot is one that fits.
LEMMA ImageFits ==
    ASSUME SlotInv, NEW u \in Artifacts, slot = Whole(u)
    PROVE  u \in Fitting
<1>1. ~HeaderErased
  BY Images DEF ImageIs
<1>2. PICK v \in Fitting : Remains(v)
  BY <1>1 DEF SlotInv
<1>3. /\ 1 \in Positions /\ slot[1] = Block(u, 1) /\ slot[1] # Erased
      /\ v \in Artifacts /\ Whole(v)[1] = Block(v, 1)
  BY <1>2, Places
<1>4. Block(u, 1) = Block(v, 1)
  BY <1>2, <1>3 DEF Remains
<1> QED BY <1>2, <1>4, Places

\* What an unfinished erase leaves is the artifact, nothing, or unsound.
LEMMA ErasedImage ==
    ASSUME Types, SlotInv, slot' \in ErasedPartly
    PROVE  \/ Image' = Image
           \/ Image' = "nothing"
           \/ Image # "nothing" /\ Image' = "unsound"
<1>1. /\ \A i \in Positions : slot'[i] \in {Erased, slot[i]}
      /\ slot' = [i \in Positions |-> slot'[i]]
  BY DEF ErasedPartly
<1>2. ASSUME NEW u \in Artifacts, slot' = Whole(u)
      PROVE  slot = Whole(u)
  <2>1. 1 \in Positions /\ slot'[1] = Block(u, 1) /\ slot'[1] # Erased
    BY <1>2, Places
  <2>2. slot[1] = Block(u, 1) /\ slot[1] # Erased
    BY <1>1, <2>1
  <2>3. ~HeaderErased
    BY <2>2, Places DEF HeaderErased
  <2>4. PICK v \in Fitting : Remains(v)
    BY <2>3 DEF SlotInv
  <2>5. v = u
    <3>1. v \in Artifacts /\ Whole(v)[1] = Block(v, 1)
      BY <2>4, Places
    <3>2. Block(u, 1) = Block(v, 1)
      BY <2>1, <2>2, <2>4, <3>1 DEF Remains
    <3> QED BY <3>2, Places
  <2>6. ASSUME NEW i \in Positions
        PROVE  slot[i] = Whole(u)[i]
    <3>1. slot[i] \in {Erased, Whole(u)[i]}
      BY <2>4, <2>5 DEF Remains
    <3>2. Whole(u)[i] # Erased => slot[i] # Erased
      BY <1>1, <1>2
    <3> QED BY <3>1, <3>2
  <2> QED BY <2>6 DEF Whole, Types, ServerOK, Slots
<1>3. HeaderErased => HeaderErased'
  BY <1>1 DEF HeaderErased
<1>4. CASE \E u \in Artifacts : slot' = Whole(u)
  BY <1>2, <1>4, Images, ImagesAfter DEF ImageIs
<1>5. CASE \A u \in Artifacts : slot' # Whole(u)
  <2>1. HeaderErased' => Image' = "nothing"
    BY <1>5, ImagesAfter
  <2>2. ~HeaderErased' => Image' = "unsound"
    BY <1>5, ImagesAfter
  <2>3. ~HeaderErased => Image # "nothing"
    <3>1. "nothing" \notin Artifacts
      BY NamesAssumption
    <3> QED BY <3>1, Images DEF ImageIs
  <2> QED BY <1>3, <2>1, <2>2, <2>3
<1> QED BY <1>4, <1>5

\* The claim of the tool.
Claimed == IF flash.status \in {"LEAVING", "COMPLETE"}
           THEN flash.artifact ELSE "nothing"

\* Every step is one of the service, or none of its business.
LEMMA ServiceStep ==
    ASSUME Types, StepInv, StepInv', SlotMoves
    PROVE  [Service!Next]_(Service!vars)
<1> DEFINE claim == Claimed
           image == Image
<1>1. CASE UNCHANGED slot
  <2>1. UNCHANGED image
    BY <1>1 DEF Image
  <2>2. ASSUME flash'.status \in {"LEAVING", "COMPLETE"}
        PROVE  claim' = image /\ image \in Fitting
    <3>1. slot' = Whole(flash'.artifact) /\ flash'.artifact \in Fitting
      BY <2>2 DEF StepInv, LinkInv, Installed, Fits, Whole, Fitting
    <3>2. image' = flash'.artifact
      BY <3>1, ImagesAfter, Places
    <3> QED BY <2>1, <2>2, <3>1, <3>2 DEF Claimed
  <2>3. \/ claim' = "nothing"
        \/ claim' = image /\ image \in Fitting
    BY <2>2 DEF Claimed
  <2>4. Service!Claim
    BY <2>1, <2>3 DEF Service!Claim, Claimed
  <2> QED BY <2>4 DEF Service!Next
<1>2. CASE UNCHANGED flash /\ flash.status \notin {"LEAVING", "COMPLETE"}
  <2>1. claim = "nothing" /\ claim' = "nothing"
    BY <1>2 DEF Claimed
  <2>2. CASE slot' \in ErasedPartly
    <3>1. UNCHANGED image \/ Service!Erase
      BY <2>1, <2>2, ErasedImage DEF StepInv, Service!Erase, Claimed
    <3> QED BY <2>1, <3>1 DEF Service!Next, Service!vars, Claimed
  <2>3. CASE HeaderErased /\ HeaderErased'
    <3>1. image = "nothing" /\ image' = "nothing"
      BY <2>3, Images, ImagesAfter DEF ImageIs
    <3> QED BY <2>1, <3>1 DEF Service!vars, Claimed
  <2>4. CASE HeaderErased /\ \E u \in Fitting : slot' = Whole(u)
    <3>1. image = "nothing"
      BY <2>4, Images DEF ImageIs
    <3>2. image' \in Fitting
      BY <2>4, ImagesAfter, Places
    <3>3. Service!Accept
      BY <2>1, <3>1, <3>2 DEF Service!Accept, Claimed
    <3> QED BY <3>3 DEF Service!Next
  <2> QED BY <1>1, <1>2, <2>2, <2>3, <2>4 DEF SlotMoves
<1> QED BY <1>1, <1>2 DEF SlotMoves

\* At first the slot holds nothing, or an artifact of an earlier update.
LEMMA ServiceInit ==
    ASSUME Init
    PROVE  Service!Init
<1>1. flash.status = "IDLE" /\ slot \in {Blank} \cup {Whole(u) : u \in Fitting}
  BY DEF Init, ServerInit, DownloadInit, ControllerIdle
<1>2. Image \in Fitting \cup {"nothing"}
  <2>1. CASE slot = Blank
    <3>1. HeaderErased
      BY <2>1 DEF HeaderErased, Blank
    <3> QED BY <3>1, Images DEF ImageIs
  <2>2. CASE \E u \in Fitting : slot = Whole(u)
    BY <2>2, Images, Places DEF ImageIs
  <2> QED BY <1>1, <2>1, <2>2
<1> QED BY <1>1, <1>2 DEF Service!Init

\* The update keeps its promise to the user and to the bootloader: an artifact
\* becomes bootable in one step, out of a slot that offers nothing, and the
\* tool claims an artifact only while the slot offers exactly that one -
\* through lost requests and responses, restarts and a failing backend.
THEOREM UpdateImplementsService == Spec => ImplementsFlashService
<1>1. Init => Service!Init
  BY ServiceInit
<1>2. Types /\ StepInv /\ StepInv' /\ [Next]_vars => [Service!Next]_(Service!vars)
  BY EveryStep, ServiceStep
<1> QED BY <1>1, <1>2, TypesInvariance, StepsTogether, PTL
        DEF Spec, ImplementsFlashService, Service!Spec

----------------------------------------------------------------------------
(* Retries: what lost blocks and abandoned updates do to an update.        *)

Executed == OnUpdate /\ answer \in Results

\* The request of the update, active or behind a poll of the diagnostics.
Pending == IF OnUpdate THEN Request ELSE queue[2]

\* An update that only lost blocks, that found no download open, and whose
\* artifact fits.
Smooth == clean /\ fresh /\ Fits(flash.artifact)

\* The seconds that the session may have lost: one for each request that is
\* active or timed out since the last one was executed.
Spent == (IF flash.status = "TRANSFERRING" /\ flash.retried THEN 2 ELSE 0)
         + (IF OnUpdate THEN 1 ELSE 0) + (IF late THEN 1 ELSE 0)

CleanInv ==
    clean =>
        /\ Busy => ~Idling(queue)
        /\ OnUpdate /\ answer = "lost" =>
              flash.status = "TRANSFERRING" /\ ~flash.retried
        /\ Executed /\ flash.status \in {"SESSION", "LEAVING", "ABORTING"} =>
              answer = "positive"
        /\ Executed /\ flash.status = "ABORTING" => download.state = "IDLE"

InTime ==
    /\ session = "programming"
    /\ s3 >= S3 - Spent
    /\ Executed => s3 = S3

SmoothSession ==
    /\ download.state = "IDLE"
    /\ Executed => session = "programming" /\ s3 = S3

SmoothErase ==
    IF Executed
    THEN \/ answer = "positive" /\ download.state = "READY"
         \/ answer = "in_progress" /\ download.state = "ERASING"
    ELSE IF Pending.start THEN download.state = "IDLE"
                          ELSE download.state = "ERASING"

SmoothRequest ==
    IF Executed THEN answer = "positive" /\ download.state = "TRANSFER"
                ELSE download.state = "READY"

SmoothTransfer ==
    download.state = "TRANSFER" /\ (Executed => answer = "positive")

SmoothExit ==
    IF Executed THEN answer = "positive" ELSE download.state = "TRANSFER"

SmoothUpdate ==
    /\ flash.status \notin {"ABORTING", "FAULT"}
    /\ SessionEntered => InTime
    /\ flash.status = "SESSION" => SmoothSession
    /\ flash.status = "ERASING" => SmoothErase
    /\ flash.status = "REQUESTING" => SmoothRequest
    /\ flash.status = "TRANSFERRING" => SmoothTransfer
    /\ flash.status = "VERIFYING" => SmoothExit

SmoothInv == Smooth => SmoothUpdate

\* A failed update leaves no download open, and the next one begins with none.
FailInv ==
    /\ failures \in {0, 1}
    /\ failures = 1 /\ ~Busy => download.state = "IDLE"
    /\ failures = 1 /\ Busy => fresh

RetryInv == CleanInv /\ SmoothInv /\ FailInv

\* Where the request of the update is after a step of a poll.
LEMMA PendingKept ==
    ASSUME Types, UNCHANGED flash, ~Idling(queue),
           \/ queue' = queue
           \/ Active /\ ~OnUpdate /\ queue' = Tail(queue)
           \/ ~Reading /\ queue' = Append(queue, ReadDids)
    PROVE  Pending' = Pending /\ ~Idling(queue')
<1>1. ~Idling(queue')
  BY PollTypes
<1>2. CASE queue' = queue
  BY <1>1, <1>2 DEF Pending, OnUpdate, Active, Request
<1>3. CASE Active /\ ~OnUpdate /\ queue' = Tail(queue)
  <2>1. Follows(queue, flash)
    BY <1>3, QueueCases DEF Types, QueueOK
  <2>2. PICK r : Expects(flash, r) /\ queue = <<ReadDids, r>>
    BY <2>1 DEF Follows
  <2>3. queue' = <<r>> /\ r # ReadDids
    BY <1>3, <2>2, ExpectedIsNoPoll
  <2>4. queue[2] = r
    BY <2>2
  <2>5. Active' /\ Request' = r
    BY <2>3 DEF Active, Request
  <2>6. OnUpdate'
    BY <2>3, <2>5 DEF OnUpdate
  <2>7. Pending = r
    BY <1>3, <2>4 DEF Pending
  <2>8. Pending' = r
    BY <2>5, <2>6 DEF Pending
  <2> QED BY <1>1, <2>7, <2>8
<1>4. CASE ~Reading /\ queue' = Append(queue, ReadDids)
  <2>1. PICK r : /\ Expects(flash, r) /\ queue = <<r>>
                 /\ queue' = <<r, ReadDids>>
    BY <1>4, PollGoesBehind DEF Types, Idling
  <2>2. r # ReadDids
    BY <2>1, ExpectedIsNoPoll
  <2>3. Request = r /\ Request' = r /\ Active /\ Active'
    BY <2>1 DEF Request, Active
  <2>4. OnUpdate /\ OnUpdate'
    BY <2>2, <2>3 DEF OnUpdate
  <2> QED BY <1>1, <2>3, <2>4 DEF Pending
<1> QED BY <1>2, <1>3, <1>4

\* A request that is queued is the one that waits.
LEMMA PendingQueued ==
    ASSUME NEW r, r # ReadDids, NEW q, Idling(q), queue' = Append(q, r)
    PROVE  Pending' = r
<1>1. CASE q = <<>>
  <2>1. queue' = <<r>>
    BY <1>1
  <2>2. Active' /\ Request' = r
    BY <2>1 DEF Active, Request
  <2>3. OnUpdate'
    BY <2>2 DEF OnUpdate
  <2> QED BY <2>2, <2>3 DEF Pending
<1>2. CASE q = <<ReadDids>>
  <2>1. queue' = <<ReadDids, r>>
    BY <1>2, AppendToOne
  <2>2. Request' = ReadDids /\ queue'[2] = r
    BY <2>1 DEF Request
  <2>3. ~OnUpdate'
    BY <2>2 DEF OnUpdate
  <2> QED BY <2>2, <2>3 DEF Pending
<1> QED BY <1>1, <1>2 DEF Idling

\* What a fault does to the history.
LEMMA FaultHistory ==
    ASSUME NEW harmless, Fault(harmless)
    PROVE  /\ clean' => clean /\ harmless
           /\ UNCHANGED <<fresh, failures>>
BY Zenon DEF Fault

\* The harmless loss of a request of the update is that of a block.
LEMMA HarmlessLoss ==
    ASSUME Types, OnUpdate, Harmless
    PROVE  flash.status = "TRANSFERRING" /\ ~flash.retried
<1>1. Expects(flash, Request)
  BY QueueCases DEF Types
<1>2. Request.service = "transfer" /\ ~flash.retried
  BY Zenon DEF Harmless, OnUpdate
<1> QED BY <1>1, <1>2
        DEF Expects, ChangeSession, RoutineControl, RequestDownload,
            RequestTransferExit

\* Nothing happens to the update but that time passes, a poll comes or goes, or
\* a request is lost without harm.
LEMMA StillStep ==
    ASSUME Types, RetryInv,
           UNCHANGED <<flash, download, session, fresh, failures>>,
           clean' => clean,
           clean' /\ Busy => Pending' = Pending /\ ~Idling(queue'),
           Executed' => Executed /\ answer' = answer /\ s3' = s3,
           clean' /\ OnUpdate' /\ answer' = "lost" =>
              flash.status = "TRANSFERRING" /\ ~flash.retried,
           clean' /\ Executed /\ ~Executed' => flash.status = "TRANSFERRING",
           Smooth /\ clean' /\ SessionEntered => s3' >= S3 - Spent'
    PROVE  RetryInv'
<1>1. Busy' <=> Busy
  BY DEF Busy
<1>2. CleanInv'
  BY <1>1 DEF RetryInv, CleanInv
<1>3. SmoothInv'
  <2> SUFFICES ASSUME Smooth'
               PROVE  SmoothUpdate'
    BY DEF SmoothInv
  <2>1. Smooth /\ clean'
    BY DEF Smooth, Fits
  <2>2. SmoothUpdate
    BY <2>1 DEF RetryInv, SmoothInv
  <2>3. SessionEntered' => InTime'
    BY <2>1, <2>2 DEF SmoothUpdate, InTime, SessionEntered
  <2>4. flash.status = "SESSION" => SmoothSession'
    BY <2>2 DEF SmoothUpdate, SmoothSession
  <2> QED BY <2>1, <2>2, <2>3, <2>4
          DEF SmoothUpdate, SmoothErase, SmoothRequest, SmoothTransfer, SmoothExit, Busy
<1>4. FailInv'
  BY <1>1 DEF RetryInv, FailInv
<1> QED BY <1>2, <1>3, <1>4 DEF RetryInv

\* Seconds are counted in natural numbers.
LEMMA SpentTypes ==
    /\ Spent \in 0 .. 4 /\ Spent' \in 0 .. 4
    /\ S3 >= S3 - Spent'
<1>1. Spent \in 0 .. 4
  BY DEF Spent
<1>2. Spent' \in 0 .. 4
  BY DEF Spent
<1>3. \A n \in 0 .. 4 : S3 >= S3 - n
  BY Sizes
<1> QED BY <1>1, <1>2, <1>3

\* The session of an update that goes well does not end.
LEMMA SmoothNotExpired ==
    ASSUME Types, RetryInv, Smooth, SessionEntered
    PROVE  session = "programming" /\ s3 > 0 /\ Busy
<1>1. CleanInv /\ SmoothUpdate /\ clean
  BY DEF RetryInv, SmoothInv, Smooth
<1>2. InTime
  BY <1>1 DEF SmoothUpdate
<1>3. late => answer = "lost"
  BY DEF Types, AnswerOK
<1>4. OnUpdate /\ late => ~(flash.status = "TRANSFERRING" /\ flash.retried)
  BY <1>1, <1>3 DEF CleanInv
<1>5. Spent <= 3
  BY <1>4 DEF Spent
<1>6. s3 \in Nat /\ S3 \in Nat /\ S3 > 3
  BY Sizes DEF Types, ServerOK
<1> QED BY <1>2, <1>5, <1>6, SpentTypes DEF InTime, SessionEntered, Busy

\* A step of the connection that the update survives or not, by what it does
\* to the history.
LEMMA ServeHistory ==
    ASSUME Serve
    PROVE  /\ clean' => clean /\ ~BackendFails
           /\ UNCHANGED <<fresh, failures>>
<1>1. \/ ~BackendFails /\ NoFault
      \/ Fault(FALSE)
  BY Zenon DEF Serve
<1>2. CASE ~BackendFails /\ NoFault
  BY <1>2, Zenon DEF NoFault, history
<1>3. CASE Fault(FALSE)
  BY <1>3, FaultHistory
<1> QED BY <1>1, <1>2, <1>3

\* The erase of an update that goes well is asked for when nothing is open, and
\* its end is awaited while it is under way.
LEMMA SmoothRoutine ==
    ASSUME Types, SmoothErase, OnUpdate, ~Executed, session = "programming",
           NEW start \in BOOLEAN, Request = RoutineControl(start),
           ProcessRoutine(RoutineControl(start)), ~BackendFails
    PROVE  \/ answer' = "positive" /\ download'.state = "READY"
           \/ answer' = "in_progress" /\ download'.state = "ERASING"
<1> DEFINE r == RoutineControl(start)
<1>1. r.start = start /\ Request.service = "routine"
  BY DEF RoutineControl
<1>2. \A s : Enter(s) => download'.state = s
  BY DEF Enter, Types, ServerOK, DownloadOK, Downloads
<1>3. IF start THEN download.state = "IDLE" ELSE download.state = "ERASING"
  BY <1>1 DEF SmoothErase, Pending
<1>4. ~EraseRefused(Request)
  BY <1>1, <1>3 DEF EraseRefused
<1>5. Routine \/ Answer("negative")
  BY <1>1, <1>3, <1>4 DEF ProcessRoutine
<1>6. ~Answer("negative")
  BY <1>1, <1>4 DEF BackendFails, Answer
<1>7. ~(answer' = "failed" /\ Enter("FAILED"))
  BY <1>2, <1>3 DEF BackendFails
<1> QED BY <1>2, <1>5, <1>6, <1>7 DEF Routine, Answer, Fail

\* The download of an artifact that fits is not refused.
LEMMA SmoothDownload ==
    ASSUME Types, download.state = "READY", flash.status = "REQUESTING",
           Fits(flash.artifact),
           ProcessRequestDownload(RequestDownload(Blocks[flash.artifact]))
    PROVE  answer' = "positive" /\ download'.state = "TRANSFER"
<1> DEFINE r == RequestDownload(Blocks[flash.artifact])
<1>1. flash.artifact \in Artifacts
  BY DEF Types, FlashOK, Busy
<1>2. /\ Blocks[flash.artifact] >= HeaderBlocks
      /\ Blocks[flash.artifact] <= Capacity
      /\ Blocks[flash.artifact] \in Nat /\ HeaderBlocks \in Nat /\ Capacity \in Nat
  BY <1>1, Sizes DEF Fits, Fitting
<1>3. ~DownloadRefused(r)
  BY <1>2 DEF DownloadRefused, RequestDownload
<1> QED BY <1>3 DEF ProcessRequestDownload, Answer, NoDownload

\* The current block is the next one, or the last one again.
LEMMA SmoothBlock ==
    ASSUME Types, StepInv, download.state = "TRANSFER",
           flash.status = "TRANSFERRING", ~BackendFails,
           ProcessTransferData(CurrentBlock(flash))
    PROVE  answer' = "positive" /\ download'.state = "TRANSFER"
<1>1. WhileTransferring /\ OpenDownload
  BY DEF StepInv, SlotInv, LinkInv
<1>2. flash.offset \in Nat /\ download.received \in Nat /\ download \in Downloads
  BY DEF Types, FlashOK, Controllers, ServerOK, DownloadOK, Downloads
<1>3. flash.sequence \in {download.last, download.expected}
  BY <1>1, <1>2 DEF WhileTransferring, OpenDownload
<1>4. download'.state # "FAILED"
  BY DEF BackendFails
<1>5. [download EXCEPT !.state = "FAILED"].state = "FAILED"
  BY <1>2 DEF Downloads
<1> DEFINE n == download.received + 1
           e == (download.expected + 1) % Modulus
           h == IF download.received < HeaderBlocks
                THEN Append(download.header, Block(flash.artifact, flash.offset + 1))
                ELSE download.header
<1>6. [download EXCEPT !.received = n, !.last = flash.sequence,
                       !.expected = e, !.header = h].state = "TRANSFER"
  <2> HIDE DEF n, e, h
  <2> QED BY <1>2 DEF Downloads
<1> QED BY <1>3, <1>4, <1>5, <1>6, TransferCases

\* The exit of an update that goes well comes with the last block.
LEMMA SmoothEnd ==
    ASSUME Types, StepInv, download.state = "TRANSFER",
           flash.status = "VERIFYING", ~BackendFails, ProcessTransferExit
    PROVE  answer' = "positive"
<1>1. download.received = download.size
  BY DEF StepInv, LinkInv, WhileVerifying
<1>2. ~ExitRefused
  BY <1>1 DEF ExitRefused
<1>3. Enter("FAILED") => download'.state = "FAILED"
  BY DEF Enter, Types, ServerOK, DownloadOK, Downloads
<1>4. ~Fail
  BY <1>3 DEF BackendFails, Fail
<1> QED BY <1>2, <1>4 DEF ProcessTransferExit, Answer

\* A request that is served.
LEMMA ServeRetry ==
    ASSUME Types, StepInv, DownloadInSession, RetryInv, Serve
    PROVE  RetryInv'
<1>1. /\ Active /\ answer = "none" /\ UNCHANGED <<flash, queue, late>>
      /\ answer' \in Results /\ ~Executed
  BY ServeCases, ServeTypes DEF Executed, Results
<1>2. /\ OnUpdate' <=> OnUpdate
      /\ Pending' = Pending /\ (Idling(queue') <=> Idling(queue))
      /\ (Busy' <=> Busy) /\ (SessionEntered' <=> SessionEntered)
  BY <1>1 DEF OnUpdate, Active, Request, Pending, Busy, SessionEntered
<1>3. /\ clean' => clean /\ ~BackendFails
      /\ UNCHANGED <<fresh, failures>>
  BY ServeHistory
<1>4. answer' # "lost"
  BY <1>1 DEF Results
<1>5. Smooth' => Smooth /\ SmoothUpdate /\ ~BackendFails
  BY <1>1, <1>3 DEF Smooth, Fits, RetryInv, SmoothInv
<1>6. CASE ~OnUpdate /\ ServesPoll
  <2>1. UNCHANGED <<download, session>> /\ ~Executed'
    BY <1>2, <1>6 DEF ServesPoll, downloadVars, Executed
  <2>2. Smooth /\ clean' /\ SessionEntered => s3' >= S3 - Spent'
    <3>1. Smooth /\ SessionEntered => s3' = S3
      BY <1>6, SmoothNotExpired DEF ServesPoll
    <3> QED BY <3>1, SpentTypes
  <2> QED BY <1>1, <1>2, <1>3, <1>4, <2>1, <2>2, StillStep DEF RetryInv, CleanInv
<1>7. CASE OnUpdate
  <2>1. Executed' /\ Busy /\ Expects(flash, Request)
    BY <1>1, <1>2, <1>7, QueueCases, ExpectsWhileBusy DEF Executed, Types
  <2>2. FailInv'
    BY <1>2, <1>3, <2>1 DEF RetryInv, FailInv
  <2>3. CASE ServesSession
    <3>1. /\ answer' = "positive" /\ ~SessionEntered
          /\ flash.status \in {"SESSION", "LEAVING", "ABORTING"}
      BY <2>3 DEF ServesSession, SessionEntered
    <3>2. flash.status = "ABORTING" => download'.state = "IDLE"
      BY <2>3 DEF ServesSession, AbortDownload, NoDownload, downloadVars,
                  DownloadInSession
    <3>3. CleanInv'
      BY <1>1, <1>2, <1>3, <3>1, <3>2 DEF RetryInv, CleanInv
    <3>4. flash.status = "SESSION" =>
             session' = "programming" /\ s3' = S3 /\ download' = download
      BY <2>3 DEF ServesSession, downloadVars
    <3>5. SmoothInv'
      BY <1>1, <1>2, <1>5, <3>1, <3>4 DEF SmoothInv, SmoothUpdate, SmoothSession
    <3> QED BY <2>2, <3>3, <3>5 DEF RetryInv
  <2>4. CASE SessionEntered
    <3>1. CleanInv'
      BY <1>1, <1>2, <1>3, <1>4, <2>4
         DEF RetryInv, CleanInv, SessionEntered
    <3>2. ASSUME Smooth'
          PROVE  SmoothUpdate'
      <4>1. Smooth /\ SmoothUpdate /\ ~BackendFails /\ session = "programming"
        BY <1>5, <2>4, <3>2, SmoothNotExpired
      <4>2. ServesProgramming
        BY <1>7, <2>4, <4>1, ServeCases DEF ServesSession, SessionEntered
      <4>3. session' = "programming" /\ s3' = S3
        BY <4>2, Zenon DEF ServesProgramming
      <4>4. InTime'
        <5>1. s3' >= S3 - Spent'
          BY <4>3, SpentTypes
        <5> QED BY <4>3, <5>1 DEF InTime
      <4>5. CASE flash.status = "ERASING"
        <5>1. PICK start \in BOOLEAN :
                 /\ Request = RoutineControl(start)
                 /\ ProcessRoutine(RoutineControl(start))
          BY <4>2, <4>5, Zenon DEF ServesProgramming
        <5>2. \/ answer' = "positive" /\ download'.state = "READY"
              \/ answer' = "in_progress" /\ download'.state = "ERASING"
          BY <1>1, <1>7, <4>1, <4>5, <5>1, SmoothRoutine DEF SmoothUpdate
        <5> QED BY <1>1, <2>1, <4>4, <4>5, <5>2 DEF SmoothUpdate, SmoothErase
      <4>6. CASE flash.status = "REQUESTING"
        <5>1. /\ ProcessRequestDownload(RequestDownload(Blocks[flash.artifact]))
              /\ download.state = "READY" /\ Fits(flash.artifact)
          BY <1>1, <4>1, <4>2, <4>6
             DEF ServesProgramming, SmoothUpdate, SmoothRequest, Smooth
        <5>2. answer' = "positive" /\ download'.state = "TRANSFER"
          BY <4>6, <5>1, SmoothDownload
        <5> QED BY <1>1, <2>1, <4>4, <4>6, <5>2 DEF SmoothUpdate, SmoothRequest
      <4>7. CASE flash.status = "TRANSFERRING"
        <5>1. /\ ProcessTransferData(CurrentBlock(flash))
              /\ download.state = "TRANSFER"
          BY <4>1, <4>2, <4>7 DEF ServesProgramming, SmoothUpdate, SmoothTransfer
        <5>2. answer' = "positive" /\ download'.state = "TRANSFER"
          BY <4>1, <4>7, <5>1, SmoothBlock
        <5> QED BY <1>1, <2>1, <4>4, <4>7, <5>2 DEF SmoothUpdate, SmoothTransfer
      <4>8. CASE flash.status = "VERIFYING"
        <5>1. ProcessTransferExit /\ download.state = "TRANSFER"
          BY <1>1, <4>1, <4>2, <4>8 DEF ServesProgramming, SmoothUpdate, SmoothExit
        <5>2. answer' = "positive"
          BY <4>1, <4>8, <5>1, SmoothEnd
        <5> QED BY <1>1, <2>1, <4>4, <4>8, <5>2 DEF SmoothUpdate, SmoothExit
      <4> QED BY <2>4, <4>5, <4>6, <4>7, <4>8 DEF SessionEntered
    <3> QED BY <2>2, <3>1, <3>2 DEF RetryInv, SmoothInv
  <2> QED BY <1>7, <2>3, <2>4, ServeCases
          DEF ServesProgramming, SessionEntered
<1> QED BY <1>6, <1>7, ServeCases

\* What leaves an update clean at the end of its request: a response, or the
\* first loss of a block.
LEMMA CleanEnds ==
    ASSUME Types, RetryInv, OnUpdate, NEW result, EndsWith(result),
           clean' => clean, clean'
    PROVE  \/ /\ Executed /\ result = answer
              /\ ~(answer = "in_progress" /\ ~PollsLeft)
           \/ /\ ~Executed /\ result = "timeout"
              /\ flash.status = "TRANSFERRING" /\ ~flash.retried
<1>1. CleanInv /\ clean
  BY DEF RetryInv
<1>2. CASE answer \in Results
  <2>1. result = answer /\ ~(answer = "in_progress" /\ ~PollsLeft)
    BY <1>2, Zenon DEF EndsWith, Results
  <2> QED BY <1>2, <2>1 DEF Executed
<1>3. CASE answer = "lost"
  <2>1. result = "timeout"
    BY <1>3 DEF EndsWith, Results
  <2> QED BY <1>1, <1>3, <2>1 DEF CleanInv, Executed, Results
<1>4. CASE answer = "none"
  <2>1. result = "timeout" /\ Harmless
    <3>1. answer \notin Results /\ answer # "lost"
      BY <1>4 DEF Results
    <3> QED BY <3>1, Zenon DEF EndsWith
  <2> QED BY <1>4, <2>1, HarmlessLoss DEF Executed, Results
<1> QED BY <1>2, <1>3, <1>4 DEF Types, AnswerOK


\* How the update goes on after a request.
LEMMA CallbackCases ==
    ASSUME Types, OnUpdate, NEW result, UpdateCallback(result)
    PROVE  /\ flash'.artifact = flash.artifact
           /\ \/ /\ flash.status = "SESSION" /\ result = "positive"
                 /\ flash'.status = "ERASING"
                 /\ Pending' = RoutineControl(TRUE)
              \/ /\ flash.status = "ERASING" /\ result = "in_progress"
                 /\ flash'.status = "ERASING"
                 /\ Pending' = RoutineControl(FALSE)
              \/ /\ flash.status = "ERASING" /\ result = "positive"
                 /\ flash'.status = "REQUESTING"
              \/ /\ flash.status \in {"REQUESTING", "TRANSFERRING"}
                 /\ result = "positive"
                 /\ flash'.status \in {"TRANSFERRING", "VERIFYING"}
              \/ /\ flash.status = "TRANSFERRING" /\ result = "timeout"
                 /\ ~flash.retried
                 /\ flash'.status = "TRANSFERRING" /\ flash'.retried
              \/ /\ flash.status = "VERIFYING" /\ result = "positive"
                 /\ flash'.status = "LEAVING"
              \/ flash.status = "LEAVING" /\ flash'.status = "COMPLETE"
              \/ flash.status = "ABORTING" /\ flash'.status = "FAULT"
              \/ /\ flash.status = "SESSION" /\ result # "positive"
                 /\ flash'.status = "FAULT"
              \/ /\ SessionEntered /\ flash'.status = "ABORTING"
                 /\ result = "positive" => /\ flash.status = "ERASING"
                                           /\ ~Fits(flash.artifact)
                 /\ result = "in_progress" =>
                       ~(flash.status = "ERASING" /\ PollsLeft)
                 /\ result = "timeout" =>
                       ~(flash.status = "TRANSFERRING" /\ ~flash.retried)
<1>1. /\ flash \in Controllers /\ flash.artifact \in Artifacts
      /\ Idling(Tail(queue))
  <2>1. Expects(flash, Request) /\ Idling(Tail(queue))
    BY QueueCases DEF Types
  <2> QED BY <2>1, ExpectsWhileBusy DEF Types, FlashOK
<1>2. \A s : /\ [flash EXCEPT !.status = s].status = s
             /\ [flash EXCEPT !.status = s].artifact = flash.artifact
  BY <1>1 DEF Controllers
<1>3. ASSUME NEW start \in BOOLEAN, Queue(RoutineControl(start))
      PROVE  Pending' = RoutineControl(start)
  <2>1. RoutineControl(start) # ReadDids
    BY DEF RoutineControl, ReadDids
  <2> QED BY <1>1, <1>3, <2>1, PendingQueued DEF Queue
<1>4. ASSUME Stop
      PROVE  /\ flash'.artifact = flash.artifact
             /\ SessionEntered => flash'.status = "ABORTING"
             /\ ~SessionEntered => flash'.status = "FAULT"
  BY <1>2, <1>4 DEF Stop, Proceed
<1>5. ASSUME NEW c \in Controllers, c.status = "TRANSFERRING", SendNextBlock(c)
      PROVE  /\ flash'.artifact = c.artifact
             /\ flash'.status \in {"TRANSFERRING", "VERIFYING"}
  <2>1. flash' = [c EXCEPT !.status = "VERIFYING"]
        \/ flash' = [c EXCEPT !.retried = FALSE]
    BY <1>5, SendNextBlockCases DEF Proceed
  <2> QED BY <1>5, <2>1 DEF Controllers
<1>6. CASE OnProgrammingSession(result)
  <2>1. flash.status = "SESSION" /\ ~SessionEntered
    BY <1>6 DEF OnProgrammingSession, SessionEntered
  <2>2. CASE result = "positive"
    BY <1>2, <1>3, <1>6, <2>1, <2>2 DEF OnProgrammingSession, Proceed
  <2>3. CASE result # "positive"
    BY <1>4, <1>6, <2>1, <2>3 DEF OnProgrammingSession
  <2> QED BY <2>2, <2>3
<1>7. CASE OnEraseResult(result)
  <2>1. flash.status = "ERASING" /\ SessionEntered
    BY <1>7 DEF OnEraseResult, SessionEntered
  <2>2. CASE /\ result = "in_progress"
             /\ Proceed([flash EXCEPT !.polls = @ + 1], RoutineControl(FALSE))
    <3>1. flash'.status = "ERASING" /\ flash'.artifact = flash.artifact
      BY <1>1, <2>1, <2>2 DEF Proceed, Controllers
    <3> QED BY <1>3, <2>1, <2>2, <3>1 DEF Proceed
  <2>3. CASE result = "positive" /\ Negotiate
    BY <1>2, <2>1, <2>3 DEF Negotiate, Proceed
  <2>4. CASE /\ Stop
             /\ result = "positive" => ~Fits(flash.artifact)
             /\ result = "in_progress" => ~PollsLeft
    BY <1>4, <2>1, <2>4
  <2> QED BY <1>7, <2>2, <2>3, <2>4 DEF OnEraseResult
<1>8. CASE OnDownloadRequested(result)
  <2>1. flash.status = "REQUESTING" /\ SessionEntered
    BY <1>8 DEF OnDownloadRequested, SessionEntered
  <2>2. CASE result = "positive"
    <3> DEFINE c == [flash EXCEPT !.status = "TRANSFERRING"]
    <3>1. c \in Controllers /\ c.status = "TRANSFERRING"
          /\ c.artifact = flash.artifact
      BY <1>1 DEF Controllers, Statuses
    <3>2. SendNextBlock(c)
      BY <1>8, <2>2 DEF OnDownloadRequested
    <3> HIDE DEF c
    <3> QED BY <1>5, <2>1, <2>2, <3>1, <3>2
  <2>3. CASE result # "positive"
    BY <1>4, <1>8, <2>1, <2>3 DEF OnDownloadRequested
  <2> QED BY <2>2, <2>3
<1>9. CASE OnTransferData(result)
  <2>1. flash.status = "TRANSFERRING" /\ SessionEntered
    BY <1>9 DEF OnTransferData, SessionEntered
  <2>2. CASE Retry(result)
    <3>1. flash' = [flash EXCEPT !.retried = TRUE]
      BY <2>2 DEF Retry, Proceed
    <3>2. /\ flash'.status = flash.status /\ flash'.artifact = flash.artifact
          /\ flash'.retried = TRUE
      BY <1>1, <3>1 DEF Controllers
    <3> QED BY <2>1, <2>2, <3>2 DEF Retry
  <2>3. CASE result = "positive" /\ SendNextBlock(Transferred)
    <3> DEFINE c == Transferred
               n == (flash.sequence + 1) % Modulus
    <3>1. n \in Counters /\ flash.offset + 1 \in Nat
      <4>1. flash.sequence + 1 \in Nat /\ flash.offset + 1 \in Nat
        BY <1>1, Sizes DEF Controllers, Counters
      <4> QED BY <4>1, Sizes
    <3>2. c = [flash EXCEPT !.offset = @ + 1, !.sequence = n]
      BY DEF Transferred
    <3> HIDE DEF c, n
    <3>3. c \in Controllers /\ c.status = "TRANSFERRING"
          /\ c.artifact = flash.artifact
      BY <1>1, <2>1, <3>1, <3>2 DEF Controllers
    <3>4. SendNextBlock(c)
      BY <2>3 DEF c
    <3> QED BY <1>5, <2>1, <2>3, <3>3, <3>4
  <2>4. CASE /\ Stop /\ result # "positive"
             /\ ~(result = "timeout" /\ ~flash.retried)
    BY <1>4, <2>1, <2>4
  <2> QED BY <1>9, <2>2, <2>3, <2>4, Zenon DEF OnTransferData
<1>10. CASE OnTransferExit(result)
  <2>1. flash.status = "VERIFYING" /\ SessionEntered
    BY <1>10 DEF OnTransferExit, SessionEntered
  <2>2. CASE result = "positive"
    BY <1>2, <1>10, <2>1, <2>2 DEF OnTransferExit, Proceed
  <2>3. CASE result # "positive"
    BY <1>4, <1>10, <2>1, <2>3 DEF OnTransferExit
  <2> QED BY <2>2, <2>3
<1>11. CASE OnCleanup
  BY <1>2, <1>11 DEF OnCleanup
<1> QED BY <1>6, <1>7, <1>8, <1>9, <1>10, <1>11 DEF UpdateCallback

\* A request of the update ends.
LEMMA CallbackRetry ==
    ASSUME Types, RetryInv, OnUpdate, NEW result, EndsWith(result),
           UpdateCallback(result), Counted, clean' => clean,
           UNCHANGED <<session, s3, download, fresh>>,
           answer' = "none", late' = FALSE
    PROVE  RetryInv'
<1>1. ~Executed' /\ (Busy' => ~Idling(queue')) /\ Busy
  BY CallbackTypes, QueueCases, ExpectsWhileBusy DEF Executed, Results, Types
<1>2. flash'.artifact = flash.artifact
  BY CallbackCases
<1>3. CleanInv'
  BY <1>1 DEF CleanInv
<1>4. ASSUME clean'
      PROVE  flash.status = "SESSION" => result = "positive" /\ Executed
  BY <1>4, CleanEnds DEF RetryInv, CleanInv
<1>5. ASSUME Smooth'
      PROVE  /\ Smooth /\ SmoothUpdate
             /\ flash.status \notin {"ABORTING", "FAULT"}
             /\ flash'.status \notin {"ABORTING", "FAULT"}
  <2>1. Smooth /\ SmoothUpdate /\ clean'
    BY <1>2, <1>5 DEF Smooth, Fits, RetryInv, SmoothInv
  <2>2. flash.status \notin {"ABORTING", "FAULT"}
    BY <2>1 DEF SmoothUpdate
  <2>3. ASSUME SessionEntered
        PROVE  \/ result = "positive"
               \/ flash.status = "ERASING" /\ result = "in_progress" /\ PollsLeft
               \/ /\ flash.status = "TRANSFERRING" /\ result = "timeout"
                  /\ ~flash.retried
    BY <2>1, <2>3, CleanEnds
       DEF SmoothUpdate, SmoothErase, SmoothRequest, SmoothTransfer, SmoothExit,
           SessionEntered
  <2> QED BY <1>4, <2>1, <2>2, <2>3, CallbackCases DEF Smooth
<1>6. SmoothInv'
  <2> SUFFICES ASSUME Smooth'
               PROVE  SmoothUpdate'
    BY DEF SmoothInv
  <2>1. Smooth /\ SmoothUpdate /\ clean'
        /\ flash'.status \notin {"ABORTING", "FAULT"}
    BY <1>5 DEF Smooth
  <2>2. \/ /\ Executed /\ result = answer
        \/ /\ ~Executed /\ result = "timeout"
           /\ flash.status = "TRANSFERRING" /\ ~flash.retried
    BY <2>1, CleanEnds
  <2>3. SessionEntered' => InTime'
    <3> SUFFICES ASSUME SessionEntered'
                 PROVE  InTime'
      OBVIOUS
    <3>1. session = "programming" /\ (Executed => s3 = S3)
      BY <1>4, <2>1, CallbackCases
         DEF SmoothUpdate, SmoothSession, InTime, SessionEntered
    <3>2. s3 >= S3 - Spent'
      <4>1. CASE Executed
        BY <3>1, <4>1, SpentTypes
      <4>2. CASE ~Executed
        <5>1. /\ flash.status = "TRANSFERRING" /\ ~flash.retried
              /\ result = "timeout"
          BY <2>2, <4>2
        <5>2. Spent <= 2
          BY <5>1 DEF Spent
        <5>3. flash'.status = "TRANSFERRING" /\ flash'.retried
          BY <2>1, <5>1, CallbackCases
        <5>4. Spent' >= 2
          BY <5>3 DEF Spent
        <5>5. s3 >= S3 - Spent /\ s3 \in Nat /\ S3 \in Nat
          BY <2>1, <5>1, Sizes
             DEF SmoothUpdate, InTime, SessionEntered, Types, ServerOK
        <5>6. Spent \in 0 .. 4 /\ Spent' \in 0 .. 4
          BY SpentTypes
        <5>7. \A m, n \in 0 .. 4 :
                 m <= 2 /\ n >= 2 /\ s3 >= S3 - m => s3 >= S3 - n
          BY <5>5
        <5> QED BY <5>2, <5>4, <5>5, <5>6, <5>7
      <4> QED BY <4>1, <4>2
    <3> QED BY <1>1, <3>1, <3>2 DEF InTime
  <2>4. flash'.status # "SESSION"
    BY CallbackCases
  <2>5. flash'.status = "ERASING" => SmoothErase'
    <3>1. ASSUME flash.status = "SESSION", Pending' = RoutineControl(TRUE)
          PROVE  SmoothErase'
      <4>1. download.state = "IDLE" /\ Pending'.start = TRUE
        BY <2>1, <3>1 DEF SmoothUpdate, SmoothSession, RoutineControl
      <4> QED BY <1>1, <4>1 DEF SmoothErase
    <3>2. ASSUME flash.status = "ERASING", result = "in_progress",
                 Pending' = RoutineControl(FALSE)
          PROVE  SmoothErase'
      <4>1. download.state = "ERASING" /\ Pending'.start = FALSE
        BY <2>1, <2>2, <3>2 DEF SmoothUpdate, SmoothErase, RoutineControl
      <4> QED BY <1>1, <4>1 DEF SmoothErase
    <3> QED BY <3>1, <3>2, CallbackCases
  <2>6. flash'.status = "REQUESTING" => SmoothRequest'
    <3>1. flash'.status = "REQUESTING" =>
             flash.status = "ERASING" /\ result = "positive"
      BY CallbackCases
    <3> QED BY <1>1, <2>1, <2>2, <3>1
            DEF SmoothUpdate, SmoothErase, SmoothRequest
  <2>7. flash'.status \in {"TRANSFERRING", "VERIFYING"} =>
           download.state = "TRANSFER"
    <3>1. flash'.status \in {"TRANSFERRING", "VERIFYING"} =>
             /\ flash.status \in {"REQUESTING", "TRANSFERRING"}
             /\ flash.status = "REQUESTING" => result = "positive"
      BY CallbackCases
    <3> QED BY <2>1, <2>2, <3>1
            DEF SmoothUpdate, SmoothRequest, SmoothTransfer
  <2> QED BY <1>1, <2>1, <2>3, <2>4, <2>5, <2>6, <2>7
          DEF SmoothUpdate, SmoothTransfer, SmoothExit
<1>7. FailInv'
  <2>1. FailInv
    BY DEF RetryInv
  <2>2. CASE flash'.status \notin {"FAULT", "COMPLETE"}
    <3>1. Busy' /\ failures' = failures
      BY <2>2, CallbackCases DEF Counted, Busy
    <3> QED BY <1>1, <2>1, <3>1 DEF FailInv
  <2>3. CASE flash'.status \in {"FAULT", "COMPLETE"}
    <3>1. ~Busy'
      BY <2>3 DEF Busy
    <3>2. CASE ~(flash'.status = "FAULT" /\ clean' /\ Fits(flash.artifact))
      <4>1. failures' = 0
        BY <2>3, <3>2, Zenon DEF Counted
      <4> QED BY <4>1 DEF FailInv
    <3>3. CASE flash'.status = "FAULT" /\ clean' /\ Fits(flash.artifact)
      <4>1. failures' = failures + 1
        BY <3>3, Zenon DEF Counted
      <4>2. flash.status = "ABORTING"
        BY <1>4, <3>3, CallbackCases
      <4>3. ~fresh
        BY <3>3, <4>2 DEF RetryInv, SmoothInv, SmoothUpdate, Smooth
      <4>4. failures = 0
        BY <1>1, <2>1, <4>3 DEF FailInv
      <4>5. download.state = "IDLE"
        BY <3>3, <4>2, CleanEnds DEF RetryInv, CleanInv
      <4> QED BY <3>1, <4>1, <4>4, <4>5 DEF FailInv
    <3> QED BY <3>2, <3>3
  <2> QED BY <2>2, <2>3
<1> QED BY <1>3, <1>6, <1>7 DEF RetryInv

\* A request ends.
LEMMA EndRetry ==
    ASSUME Types, RetryInv, Ends
    PROVE  RetryInv'
<1>1. /\ Active /\ UNCHANGED <<session, s3, download, fresh>>
      /\ answer' = "none" /\ late' = FALSE
  BY EndCases DEF serverVars
<1>2. CASE OnUpdate
  <2>1. PICK result : /\ EndsWith(result) /\ UpdateCallback(result) /\ Counted
                      /\ clean' => clean
    BY <1>2, EndCases
  <2> QED BY <1>1, <1>2, <2>1, CallbackRetry
<1>3. CASE ~OnUpdate
  <2>1. /\ UNCHANGED <<flash, clean, failures>> /\ queue' = Tail(queue)
        /\ ~Executed /\ ~Executed'
    BY <1>1, <1>3, EndCases DEF Executed, Results
  <2>2. clean' /\ Busy => Pending' = Pending /\ ~Idling(queue')
    BY <1>1, <1>3, <2>1, PendingKept DEF RetryInv, CleanInv
  <2>3. Smooth /\ SessionEntered => s3' >= S3 - Spent'
    <3> SUFFICES ASSUME Smooth, SessionEntered
                 PROVE  s3' >= S3 - Spent'
      OBVIOUS
    <3>1. Busy /\ CleanInv /\ SmoothUpdate
      BY DEF Smooth, SessionEntered, Busy, RetryInv, SmoothInv
    <3>2. ~Idling(queue)
      BY <3>1 DEF Smooth, CleanInv
    <3>3. OnUpdate'
      <4>1. Leads(Tail(queue), flash)
        BY <1>1, <1>3, <3>2, QueueCases DEF Types
      <4>2. PICK r : /\ Expects(flash, r)
                     /\ queue' = <<r>> \/ queue' = <<r, ReadDids>>
        BY <2>1, <4>1 DEF Leads
      <4>3. r # ReadDids /\ Active' /\ Request' = r
        BY <4>2, ExpectedIsNoPoll DEF Active, Request
      <4> QED BY <4>3 DEF OnUpdate
    <3>4. Spent' >= Spent
      BY <1>1, <1>3, <2>1, <3>3 DEF Spent
    <3>5. s3' >= S3 - Spent /\ s3' \in Nat /\ S3 \in Nat
      BY <1>1, <3>1, Sizes DEF SmoothUpdate, InTime, Types, ServerOK
    <3>6. Spent \in 0 .. 4 /\ Spent' \in 0 .. 4
      BY SpentTypes
    <3>7. \A m, n \in 0 .. 4 : n >= m /\ s3' >= S3 - m => s3' >= S3 - n
      BY <3>5
    <3> QED BY <3>4, <3>5, <3>6, <3>7
  <2> QED BY <1>1, <2>1, <2>2, <2>3, StillStep
<1> QED BY <1>2, <1>3

\* A poll is queued.
LEMMA RefreshRetry ==
    ASSUME Types, RetryInv, RefreshDiagnostics
    PROVE  RetryInv'
<1>1. /\ UNCHANGED <<flash, download, session, s3, answer, late>>
      /\ ~Reading /\ queue' = Append(queue, ReadDids)
      /\ UNCHANGED <<clean, fresh, failures>>
  BY DEF RefreshDiagnostics, serverVars, NoFault, history
<1>2. /\ Active => Active' /\ Request' = Request
      /\ ~Active /\ Active' => Request' = ReadDids
  BY SmallSteps
<1>3. /\ OnUpdate => OnUpdate'
      /\ OnUpdate' => OnUpdate
  BY <1>2 DEF OnUpdate
<1>4. clean' /\ Busy => Pending' = Pending /\ ~Idling(queue')
  BY <1>1, PendingKept DEF RetryInv, CleanInv
<1>5. Executed' <=> Executed
  BY <1>1, <1>3 DEF Executed
<1>6. Spent' = Spent
  BY <1>1, <1>3 DEF Spent
<1>7. Smooth /\ SessionEntered => s3' >= S3 - Spent'
  BY <1>1, <1>6 DEF RetryInv, SmoothInv, SmoothUpdate, InTime
<1> QED BY <1>1, <1>3, <1>4, <1>5, <1>7, StillStep DEF RetryInv, CleanInv

\* A request or its response is lost.
LEMMA LoseRetry ==
    ASSUME Types, RetryInv, Lose
    PROVE  RetryInv'
<1>1. /\ UNCHANGED <<flash, download, session, s3, queue, late>>
      /\ answer' = "lost" /\ Fault(Harmless)
  BY DEF Lose, serverVars
<1>2. clean' => clean /\ Harmless
  BY <1>1, Zenon DEF Fault
<1>3. UNCHANGED <<fresh, failures>>
  BY <1>1 DEF Fault
<1>4. /\ OnUpdate' <=> OnUpdate
      /\ ~Executed'
  BY <1>1 DEF OnUpdate, Active, Request, Executed, Results
<1>5. clean' /\ OnUpdate => flash.status = "TRANSFERRING" /\ ~flash.retried
  BY <1>2, HarmlessLoss
<1>6. clean' /\ Busy => Pending' = Pending /\ ~Idling(queue')
  BY <1>1, <1>2, PendingKept DEF RetryInv, CleanInv
<1>7. Executed => OnUpdate
  BY DEF Executed
<1>8. Spent' = Spent
  BY <1>1, <1>4 DEF Spent
<1>9. Smooth /\ SessionEntered => s3' >= S3 - Spent'
  BY <1>1, <1>8 DEF RetryInv, SmoothInv, SmoothUpdate, InTime
<1> QED BY <1>1, <1>2, <1>3, <1>4, <1>5, <1>6, <1>7, <1>9, StillStep

\* A second passes, at the cost of a request that was lost.
LEMMA TickRetry ==
    ASSUME Types, RetryInv, Tick
    PROVE  RetryInv'
<1>1. /\ UNCHANGED <<flash, download, session, answer>>
      /\ UNCHANGED <<clean, fresh, failures>>
      /\ late' = Active
      /\ s3' = IF s3 = 0 THEN 0 ELSE s3 - 1
      /\ \/ queue' = queue
         \/ ~Reading /\ queue' = Append(queue, ReadDids)
  BY Zenon DEF Tick, ServerTick, NoFault, history, downloadVars
<1>2. Active => answer = "lost" /\ ~late
  BY DEF Tick
<1>3. /\ Active => Active' /\ Request' = Request
      /\ ~Active /\ Active' => Request' = ReadDids
  BY SmallSteps
<1>4. /\ OnUpdate => OnUpdate'
      /\ OnUpdate' => OnUpdate
  BY <1>3 DEF OnUpdate
<1>5. ~Executed /\ ~Executed'
  BY <1>1, <1>2, <1>4 DEF Executed, OnUpdate, Results
<1>6. clean' /\ Busy => Pending' = Pending /\ ~Idling(queue')
  BY <1>1, PendingKept DEF RetryInv, CleanInv
<1>7. ASSUME Smooth, SessionEntered
      PROVE  s3' >= S3 - Spent'
  <2>1. CleanInv /\ SmoothUpdate /\ Busy /\ clean
    BY <1>7 DEF Smooth, SessionEntered, Busy, RetryInv, SmoothInv
  <2>2. Active
    BY <2>1, QueueCases DEF CleanInv, Idling, Types
  <2>3. ~late /\ late' = TRUE
    BY <1>1, <1>2, <2>2, Zenon DEF Active
  <2>4. Spent' = Spent + 1
    BY <1>1, <1>4, <2>3 DEF Spent
  <2>5. s3 >= S3 - Spent /\ s3 \in Nat /\ S3 \in Nat
    BY <1>7, <2>1, Sizes DEF SmoothUpdate, InTime, Types, ServerOK
  <2>6. Spent \in 0 .. 4 /\ s3 > 0
    BY <1>7, SpentTypes, SmoothNotExpired
  <2>7. s3' = s3 - 1
    BY <1>1, <2>6
  <2>8. \A m \in 0 .. 4 : s3 >= S3 - m => s3 - 1 >= S3 - (m + 1)
    BY <2>5
  <2> QED BY <2>4, <2>5, <2>6, <2>7, <2>8
<1>8. clean' /\ OnUpdate' /\ answer' = "lost" =>
         flash.status = "TRANSFERRING" /\ ~flash.retried
  BY <1>1, <1>4 DEF RetryInv, CleanInv
<1> QED BY <1>1, <1>5, <1>6, <1>7, <1>8, StillStep

\* An update begins.
LEMMA StartRetry ==
    ASSUME Types, RetryInv, StartUpdate
    PROVE  RetryInv'
<1>1. /\ UNCHANGED <<serverVars, answer, late, failures>>
      /\ fresh' = (download.state = "IDLE") /\ ~Busy
      /\ queue' = Append(queue, ChangeSession("programming"))
  BY DEF StartUpdate, Start
<1>2. ~Idling(queue') /\ flash'.status = "SESSION"
  BY StartKeepsTypes
<1>3. ~Executed' /\ (OnUpdate' => answer' # "lost")
  <2>1. Idling(queue)
    BY <1>1, ExpectsWhileBusy DEF Types, QueueOK, Leads, Follows
  <2>2. CASE queue = <<>>
    <3>1. answer' = "none"
      BY <1>1, <2>2 DEF Types, AnswerOK, Active
    <3> QED BY <3>1 DEF Executed, Results
  <2>3. CASE queue = <<ReadDids>>
    <3>1. queue' = <<ReadDids, ChangeSession("programming")>>
      BY <1>1, <2>3, AppendToOne
    <3>2. ~OnUpdate'
      BY <3>1 DEF OnUpdate, Request
    <3> QED BY <3>2 DEF Executed
  <2> QED BY <2>1, <2>2, <2>3 DEF Idling
<1>4. CleanInv'
  BY <1>2, <1>3 DEF CleanInv
<1>5. SmoothInv'
  BY <1>1, <1>2, <1>3
     DEF SmoothInv, Smooth, SmoothUpdate, SmoothSession, SessionEntered,
         serverVars
<1>6. FailInv'
  <2>1. Busy'
    BY <1>2 DEF Busy
  <2>2. failures = 1 => fresh'
    BY <1>1 DEF RetryInv, FailInv
  <2> QED BY <1>1, <2>1, <2>2 DEF RetryInv, FailInv
<1> QED BY <1>4, <1>5, <1>6 DEF RetryInv

\* A restart or a new connection interrupts the update.
LEMMA InterruptRetry ==
    ASSUME Types, RetryInv, Reconnect \/ RestartTool \/ RestartFirmware
    PROVE  RetryInv'
<1>1. ~clean' /\ UNCHANGED fresh
  <2>1. CASE Reconnect \/ RestartFirmware
    <3>1. Fault(FALSE)
      BY <2>1 DEF Reconnect, RestartFirmware
    <3> QED BY <3>1, FaultHistory
  <2>2. CASE RestartTool
    BY <2>2 DEF RestartTool
  <2> QED BY <2>1, <2>2
<1>2. CleanInv' /\ SmoothInv'
  BY <1>1 DEF CleanInv, SmoothInv, Smooth
<1>3. FailInv'
  <2>1. CASE Reconnect
    <3>1. UNCHANGED <<flash, download, failures>>
      BY <2>1 DEF Reconnect, serverVars, Fault
    <3> QED BY <1>1, <3>1 DEF RetryInv, FailInv, Busy
  <2>2. CASE RestartFirmware
    <3>1. UNCHANGED <<flash, failures>> /\ download'.state = "IDLE"
      BY <2>2 DEF RestartFirmware, ServerReset, NoDownload, Fault
    <3> QED BY <1>1, <3>1 DEF RetryInv, FailInv, Busy
  <2>3. CASE RestartTool
    <3>1. /\ UNCHANGED download /\ ~Busy'
          /\ failures' = IF Busy THEN 0 ELSE failures
      BY <2>3 DEF RestartTool, serverVars, ControllerIdle, Busy
    <3> QED BY <3>1 DEF RetryInv, FailInv
  <2> QED BY <2>1, <2>2, <2>3
<1> QED BY <1>2, <1>3 DEF RetryInv

\* The session of an update that goes well does not end; that of another one
\* takes its download along.
LEMMA FirmwareTickRetry ==
    ASSUME Types, RetryInv, FirmwareTick
    PROVE  RetryInv'
<1>1. /\ UNCHANGED <<flash, queue, answer, late, s3, clean, fresh, failures>>
      /\ Expired /\ session' = "default"
      /\ download' = NoDownload \/ download' = download
  BY DEF FirmwareTick, SessionTimeout, AbortDownload, downloadVars, NoFault,
         history
<1>2. download.state = "IDLE" => download'.state = "IDLE"
  BY <1>1 DEF NoDownload
<1>3. /\ OnUpdate' <=> OnUpdate
      /\ Executed' <=> Executed
      /\ Busy' <=> Busy
  BY <1>1 DEF OnUpdate, Active, Request, Executed, Busy
<1>4. CleanInv'
  BY <1>1, <1>2, <1>3 DEF RetryInv, CleanInv
<1>5. ASSUME Smooth'
      PROVE  SmoothUpdate'
  <2>1. Smooth /\ SmoothUpdate
    BY <1>1, <1>5 DEF Smooth, Fits, RetryInv, SmoothInv
  <2>2. ~SessionEntered
    BY <1>1, <2>1, SmoothNotExpired DEF Expired
  <2>3. flash.status = "SESSION" => ~Executed
    BY <1>1, <2>1, Sizes DEF SmoothUpdate, SmoothSession, Expired
  <2> QED BY <1>1, <1>2, <1>3, <2>1, <2>2, <2>3
          DEF SmoothUpdate, SmoothSession, SessionEntered
<1>6. FailInv'
  BY <1>1, <1>2, <1>3 DEF RetryInv, FailInv
<1> QED BY <1>4, <1>5, <1>6 DEF RetryInv, SmoothInv

\* Lost blocks and abandoned updates do no harm, at any time.
LEMMA RetryInvariance == Spec => []RetryInv
<1>1. Init => RetryInv
  BY DEF Init, ControllerIdle, ServerInit, DownloadInit, NoDownload, RetryInv,
         CleanInv, SmoothInv, Smooth, FailInv, Busy
<1>2. /\ Types /\ StepInv /\ DownloadInSession /\ RetryInv /\ [Next]_vars
      => RetryInv'
  <2> SUFFICES ASSUME Types, StepInv, DownloadInSession, RetryInv, [Next]_vars
               PROVE  RetryInv'
    OBVIOUS
  <2>1. CASE UNCHANGED vars
    BY <2>1 DEF vars, serverVars, bounds, history, RetryInv, CleanInv, SmoothInv,
                Smooth, SmoothUpdate, InTime, SmoothSession, SmoothErase,
                SmoothRequest, SmoothTransfer, SmoothExit, FailInv, Busy,
                Idling, OnUpdate, Active, Request, Executed, Pending, Spent,
                SessionEntered, Fits
  <2> QED BY <2>1, ServeRetry, EndRetry, RefreshRetry, LoseRetry, TickRetry,
             StartRetry, InterruptRetry, FirmwareTickRetry DEF Next, Ends
<1> QED BY <1>1, <1>2, TypesInvariance, StepsTogether, OpenDownloadInSession, PTL
        DEF Spec

\* Retries are safe, of a block and of an update: both ends stay in step, an
\* update that only lost blocks, each repeated with success, does not fail, and
\* a download left open by an abandoned update costs one attempt and no more.
THEOREM RetriesAreSafe == Spec => []RetrySafe
<1>1. ASSUME Types, StepInv, RetryInv
      PROVE  RetrySafe
  <2>1. InStep
    BY <1>1 DEF StepInv, SlotInv, LinkInv, WhileTransferring, OpenDownload,
                Matches, InStep
  <2>2. LostBlocksAreHarmless
    BY <1>1 DEF RetryInv, SmoothInv, Smooth, SmoothUpdate, LostBlocksAreHarmless
  <2>3. OneAttemptLost
    BY <1>1 DEF RetryInv, FailInv, OneAttemptLost
  <2> QED BY <2>1, <2>2, <2>3 DEF RetrySafe
<1> QED BY <1>1, TypesInvariance, StepsTogether, RetryInvariance, PTL
=============================================================================
