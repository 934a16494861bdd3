--------------------------- MODULE RetransmitTimer ---------------------------
(***************************************************************************)
(* When the reliable stream is sent again (src/server/netserver.c): the    *)
(* round trip time that acknowledgements measure, in integers scaled by 8  *)
(* and by 4, the time-out made of it, and the back-off that doubles it.    *)
(* ReliableStream leaves the time open; here is why its timer expires.     *)
(*                                                                         *)
(* An acknowledgement repeats the loop in which the server sent a packet,  *)
(* whatever packet: it may be late, a repeated one, or name any loop.  The *)
(* operator may change the frame rate, which bounds what is measured and   *)
(* what is waited: estimates and time-outs of a higher rate stay until     *)
(* new ones replace them, so top remembers the highest rate there was.     *)
(***************************************************************************)
EXTENDS Integers

MAX_SERVER_FPS == 255

VARIABLES
    FPS,
    top,                \* history: the highest FPS so far
    rtt_smoothed,       \* eight times the round trip time in loops, or 0
    rtt_dev,            \* four times its deviation
    rtt_retransmit,     \* the next time-out
    timer               \* loops until retransmit_at_loop; 0 when that has passed
                        \* or is not set

vars == <<FPS, top, rtt_smoothed, rtt_dev, rtt_retransmit, timer>>

MAX_RTT == FPS + 1
MIN_RETRANSMIT == FPS \div 8 + 1
MAX_RETRANSMIT == FPS + 1
DEFAULT_RETRANSMIT == FPS \div 2

\* Setup_connection()
Init ==
    /\ FPS \in 1 .. MAX_SERVER_FPS /\ top = FPS
    /\ rtt_smoothed = 0 /\ rtt_dev = 0 /\ rtt_retransmit = DEFAULT_RETRANSMIT
    /\ timer = 0

Main_loop ==
    /\ timer' = IF timer > 0 THEN timer - 1 ELSE 0
    /\ UNCHANGED <<FPS, top, rtt_smoothed, rtt_dev, rtt_retransmit>>

\* Something is sent, for the first time or again.
Send_reliable ==
    LET wait == IF rtt_retransmit > MAX_RETRANSMIT THEN MAX_RETRANSMIT ELSE rtt_retransmit
    IN  /\ timer' = wait
        /\ rtt_retransmit' = IF timer = 0 THEN 2 * wait ELSE wait
        /\ UNCHANGED <<FPS, top, rtt_smoothed, rtt_dev>>

\* All that was sent is acknowledged, or not all.
StopTimer == timer' \in {0, timer}

Receive_ack(rtt) ==
    LET before == IF rtt_smoothed = 0 THEN 8 * rtt ELSE rtt_smoothed
        delta == rtt - before \div 8
        error == IF delta < 0 THEN -delta ELSE delta
        timeout == (rtt_smoothed' \div 4 + rtt_dev') \div 2
    IN  /\ rtt > 0 /\ rtt <= MAX_RTT
        /\ rtt_smoothed' = before + delta
        /\ rtt_dev' = rtt_dev + error - rtt_dev \div 4
        /\ rtt_retransmit' = IF timeout < MIN_RETRANSMIT THEN MIN_RETRANSMIT ELSE timeout
        /\ StopTimer
        /\ UNCHANGED <<FPS, top>>

\* A round trip that long, or one from the future, is not measured.
Receive_odd_ack ==
    StopTimer /\ UNCHANGED <<FPS, top, rtt_smoothed, rtt_dev, rtt_retransmit>>

Timing_setup(rate) ==
    /\ FPS' = rate /\ top' = IF rate > top THEN rate ELSE top
    /\ UNCHANGED <<rtt_smoothed, rtt_dev, rtt_retransmit, timer>>

Next ==
    \/ Main_loop \/ Send_reliable \/ Receive_odd_ack
    \/ \E rtt \in 1 .. MAX_SERVER_FPS + 1 : Receive_ack(rtt)
    \/ \E rate \in 1 .. MAX_SERVER_FPS : Timing_setup(rate)

Spec == Init /\ [][Next]_vars

-----------------------------------------------------------------------------

\* The longest round trip that was ever measured: MAX_RTT at the highest rate.
LongestRtt == top + 1

\* Whatever is measured, the scaled estimates stay in the range that one
\* measurement can have at the rates there were (netserver.c:2366): the smoothed
\* time between the shortest and the longest round trip, the deviation below
\* their difference.
EstimateInRange ==
    /\ rtt_smoothed = 0 \/ rtt_smoothed \in 8 .. 8 * LongestRtt
    /\ rtt_dev \in 0 .. 4 * (LongestRtt - 1)

\* Doubled or measured, the next time-out is at most thrice the longest round
\* trip, and it never gets stuck at zero once there was a measurement.  A timer
\* that runs expires within top + 1 loops (netserver.c:2333): where the frame
\* rate is what it always was, within a second and a loop.
BackoffInRange ==
    /\ rtt_retransmit \in 0 .. 3 * LongestRtt
    /\ rtt_smoothed # 0 => rtt_retransmit > 0
    /\ timer \in 0 .. LongestRtt
=============================================================================
