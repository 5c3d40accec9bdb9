------------------------------ MODULE IsoTpBus ------------------------------
(***************************************************************************)
(* What the two ends of the diagnostic connection share: the frames of     *)
(* ISO-TP, the bus between the desktop tester and the firmware, and the    *)
(* requests that cross it.                                                 *)
(*                                                                         *)
(* A message is the sequence of its segments; a segment, the payload of    *)
(* one frame, is the pair of a request and a number.  The 4-bit sequence   *)
(* number of a consecutive frame is the number of segments before it.      *)
(***************************************************************************)
EXTENDS Integers, Sequences

CONSTANTS
    MaxRequests,    \* bound: requests the tester makes, numbered from 1
    RequestSize,    \* for each request, the frames it takes
    ResponseSize,   \* for each request, the frames its response takes
    Modulus,        \* ISOTP_SEQUENCE_MASK + 1
    BlockSize,      \* CAN_ISOTP_RX_BLOCK_SIZE
    Timeout,        \* one second, the timeout of both ends, in ticks
    MaxDelay,       \* ticks from the sender of a frame to its receiver
    MaxFaults       \* bound: frames lost, repeated or refused, reconnections

Requests == 1 .. MaxRequests

ASSUME SizesAssumption ==
    /\ MaxRequests \in Nat \ {0}
    /\ RequestSize \in [Requests -> Nat \ {0}]
    /\ ResponseSize \in [Requests -> Nat \ {0}]
    /\ BlockSize \in Nat \ {0} /\ Modulus \in Nat \ {0}
    /\ BlockSize < Modulus

ASSUME TimeAssumption ==
    /\ Timeout \in Nat \ {0} /\ MaxDelay \in Nat /\ MaxFaults \in Nat
    /\ 2 * MaxDelay < Timeout

VARIABLES
    toFirmware,     \* frames with the request identifier, with their age
    toTester,       \* frames with the response identifier
    faults          \* how many faults have happened

bus == <<toFirmware, toTester, faults>>

Segment(r, n) == <<r, n>>
Message(r, size) == [n \in 1 .. size |-> Segment(r, n)]
Messages == {Message(r, RequestSize[r]) : r \in Requests}

\* The sequence number of the segment that follows n others.
SequenceNumber(n) == n % Modulus

Single(s) == [type |-> "SINGLE", segment |-> s, number |-> 0]
First(s) == [type |-> "FIRST", segment |-> s, number |-> 0]
Consecutive(s, n) == [type |-> "CONSECUTIVE", segment |-> s,
                      number |-> SequenceNumber(n)]

\* A flow control carries no payload: s, the segment it answers, is known to the
\* history only, and neither end looks at it.
ContinueToSend(s) == [type |-> "FLOW_CONTROL", segment |-> s, number |-> 0]

\* The first frame of a message.
Opening(r, size) ==
    IF size = 1 THEN Single(Segment(r, 1)) ELSE First(Segment(r, 1))

\* A frame is sent, accepted and lost, refused by the sender's queue, or
\* received twice, which CAN does when its last bit is disturbed.
Fates == {"sent", "lost", "refused", "repeated"}
Cost(fate) == IF fate = "sent" THEN 0 ELSE 1
Copies(fate) ==
    CASE fate = "repeated" -> 2
      [] fate \in {"lost", "refused"} -> 0
      [] OTHER -> 1
Carry(channel, frame, fate) ==
    channel \o [i \in 1 .. Copies(fate) |-> [frame |-> frame, age |-> 0]]

Aged(channel) == [i \in DOMAIN channel |-> [channel[i] EXCEPT !.age = @ + 1]]
Punctual(channel) == \A i \in DOMAIN channel : channel[i].age < MaxDelay

Earlier(timer) == IF timer = 0 THEN 0 ELSE timer - 1
=============================================================================
