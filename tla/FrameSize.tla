----------------------------- MODULE FrameSize -----------------------------
(***************************************************************************)
(* The data transport's receive frame size, as the constructor of          *)
(* b200_impl.cpp derives it from the recv_frame_size device argument:      *)
(* inside limits, whole eight-byte words, and meant never to be a multiple *)
(* of the largest USB transfer, which the FX3 does not handle.  The        *)
(* argument has any integer value; the number of frames is not modelled    *)
(* (the constructor sets it to 48 whatever the argument says).             *)
(***************************************************************************)
EXTENDS Integers

CONSTANTS
    MinSize,    \* B200_USB_DATA_MIN_RECV_FRAME_SIZE, of a header not in the tree
    MaxSize,    \* B200_USB_DATA_MAX_RECV_FRAME_SIZE, of the same header
    Requests    \* values of the recv_frame_size argument, its default included

Speeds == {2, 3}            \* usb_speed
MaxTransfer(s) == IF s = 3 THEN 1024 ELSE 512

ASSUME LimitsAssumption ==
    /\ MinSize \in 1..488 /\ MaxSize \in Nat /\ 512 < MaxSize
    /\ MinSize % 8 = 0 /\ MaxSize % 8 = 0 /\ MaxSize % 512 # 0
ASSUME RequestsAssumption == Requests \subseteq Int

VARIABLES
    usb_speed,
    request,            \* the argument's value
    recv_frame_size,    \* the local variable; what the transport is given
    made                \* the transport has been made

vars == <<usb_speed, request, recv_frame_size, made>>

Init ==
    /\ usb_speed \in Speeds
    /\ request \in Requests
    /\ recv_frame_size = request
    /\ made = FALSE

\* Mutant: a word is added instead of completed.
ToNextWord_Adds(r) == r + 8

\* recv_frame_size += 8 - recv_frame_size % 8: a whole word more when r is one.
ToNextWord(r) == r + (8 - (r % 8))

\* Mutant: the header is not added back.
Below_NoHeader(r) == ((r - 16) \div 24) * 24

\* The largest size not above r that is a 16-byte header and whole 24-byte groups.
Below(r) == ((r - 16) \div 24) * 24 + 16

\* Mutant: the size after rounding is not looked at.
Coerced_Once(r, m) == ToNextWord(r)

Coerced(r, m) ==
    IF ToNextWord(r) % m = 0 THEN Below(ToNextWord(r)) ELSE ToNextWord(r)

TooSmall ==
    /\ request < MinSize
    /\ recv_frame_size' = MinSize

TooLarge ==
    /\ request > MaxSize
    /\ recv_frame_size' = MaxSize

Coerce ==
    /\ request \in MinSize..MaxSize
    /\ request % MaxTransfer(usb_speed) = 0 \/ request % 8 # 0
    /\ recv_frame_size' = Coerced(request, MaxTransfer(usb_speed))

Keep ==
    /\ request \in MinSize..MaxSize
    /\ request % MaxTransfer(usb_speed) # 0 /\ request % 8 = 0
    /\ UNCHANGED recv_frame_size

MakeTransport ==
    /\ ~made
    /\ made' = TRUE
    /\ TooSmall \/ TooLarge \/ Coerce \/ Keep
    /\ UNCHANGED <<usb_speed, request>>

Next == MakeTransport

Spec == Init /\ [][Next]_vars

-----------------------------------------------------------------------------
\* The FPGA is given whole words, and never a size beyond the limits: rounding
\* up does not pass the maximum, rounding down does not pass the minimum.
WholeWordsWithinLimits ==
    made => recv_frame_size \in MinSize..MaxSize /\ recv_frame_size % 8 = 0

\* Of the multiples of the largest transfer, only those survive that are already
\* a header and whole groups: one multiple in three (1024, 4096, 7168...).
OnlyAlignedMultiplesSurvive ==
    made /\ recv_frame_size % MaxTransfer(usb_speed) = 0
        => recv_frame_size % 24 = 16

\* A size within the limits is moved by at most one word up and two down, so the
\* throughput asked for is the throughput configured.
CloseToRequest ==
    made /\ request \in MinSize..MaxSize
        => recv_frame_size \in (request - 15)..(request + 8)

\* "a value that is a multiple of 8 bytes, not a multiple of the maximum transfer
\* size" (the comment over the coercion).  It does not hold: a request of 1017
\* becomes 1024, and Below(1024) is 1024 again.
NotMultipleOfMaxTransfer ==
    made => recv_frame_size % MaxTransfer(usb_speed) # 0
=============================================================================
