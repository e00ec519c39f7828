-------------------------- MODULE FrameSizeProofs --------------------------
(***************************************************************************)
(* For every limit and every argument: the frame size is a whole number of *)
(* words within the limits, close to the argument, and a multiple of the   *)
(* largest transfer only in the way the comment of the code overlooks.     *)
(***************************************************************************)
EXTENDS FrameSize, TLAPS

\* Rounding to the next word passes at most eight bytes.
LEMMA NextWord ==
    \A r \in Nat : /\ ToNextWord(r) \in Nat
                   /\ ToNextWord(r) % 8 = 0
                   /\ r < ToNextWord(r) /\ ToNextWord(r) <= r + 8
                   /\ r % 8 # 0 => ToNextWord(r) < r + 8
  BY DEF ToNextWord

\* A multiple of the largest transfer goes down by at most sixteen bytes, to a
\* header and whole groups.
LEMMA BelowMultiple ==
    \A s \in Speeds : \A w \in Nat :
        w > 0 /\ w % MaxTransfer(s) = 0 =>
            /\ w >= 512
            /\ Below(w) % 8 = 0 /\ Below(w) % 24 = 16
            /\ Below(w) \in (w - 16)..w
  <1> TAKE s \in Speeds
  <1> TAKE w \in Nat
  <1> HAVE w > 0 /\ w % MaxTransfer(s) = 0
  <1> DEFINE q == (w - 16) \div 24
             e == (w - 16) % 24
  <1>1. w % 512 = 0 BY DEF MaxTransfer, Speeds
  <1>2. w % 8 = 0 /\ w >= 512 BY <1>1
  <1>3. q \in Nat /\ e \in 0..23 /\ w - 16 = q * 24 + e BY <1>2
  <1>4. e % 8 = 0 BY <1>2, <1>3
  <1>5. Below(w) = q * 24 + 16 BY DEF Below
  <1> HIDE DEF q, e
  <1>6. e \in {0, 8, 16} BY <1>3, <1>4
  <1>7. Below(w) = w - e /\ Below(w) \in Nat BY <1>3, <1>5
  <1>8. Below(w) % 24 = 16 /\ Below(w) % 8 = 0 BY <1>3, <1>5
  <1>9. QED BY <1>2, <1>6, <1>7, <1>8

\* What every reachable state satisfies: the arguments keep their types, and a
\* transport that was made got the size the three properties describe.
IInv ==
    /\ usb_speed \in Speeds
    /\ request \in Int
    /\ ~made => recv_frame_size = request
    /\ WholeWordsWithinLimits
    /\ OnlyAlignedMultiplesSurvive
    /\ CloseToRequest

\* The coercion of an argument within the limits gives what is claimed of it.
LEMMA CoercedSize ==
    \A s \in Speeds : \A r \in MinSize..MaxSize :
        r % MaxTransfer(s) = 0 \/ r % 8 # 0 =>
            /\ Coerced(r, MaxTransfer(s)) \in MinSize..MaxSize
            /\ Coerced(r, MaxTransfer(s)) % 8 = 0
            /\ Coerced(r, MaxTransfer(s)) % MaxTransfer(s) = 0
                 => Coerced(r, MaxTransfer(s)) % 24 = 16
            /\ Coerced(r, MaxTransfer(s)) \in (r - 15)..(r + 8)
  <1> TAKE s \in Speeds
  <1> TAKE r \in MinSize..MaxSize
  <1> HAVE r % MaxTransfer(s) = 0 \/ r % 8 # 0
  <1> DEFINE w == ToNextWord(r)
  <1>1. /\ r \in Nat /\ r >= MinSize /\ r <= MaxSize
        /\ MinSize \in 1..488 /\ MaxSize \in Nat
    BY LimitsAssumption
  <1>2. w \in Nat /\ w > 0 /\ w % 8 = 0 /\ r < w /\ w <= r + 8 /\ (r % 8 # 0 => w < r + 8)
    BY <1>1, NextWord
  <1>3. w <= MaxSize
    <2>1. CASE r % 8 # 0
      BY <1>1, <1>2, <2>1, LimitsAssumption
    <2>2. CASE r % MaxTransfer(s) = 0 /\ r % 8 = 0
      <3>1. r % 512 = 0 BY <1>1, <2>2 DEF MaxTransfer, Speeds
      <3>2. r # MaxSize BY <3>1, LimitsAssumption
      <3>3. QED BY <1>1, <1>2, <2>2, <3>2, LimitsAssumption
    <2>3. QED BY <2>1, <2>2
  <1>4. CASE w % MaxTransfer(s) = 0
    <2>1. Coerced(r, MaxTransfer(s)) = Below(w) BY <1>4 DEF Coerced
    <2>2. r # w - 8
      <3>1. SUFFICES ASSUME r = w - 8 PROVE FALSE OBVIOUS
      <3>2. r % 8 = 0 BY <1>1, <1>2, <3>1
      <3>3. r % 512 = 0 BY <1>1, <3>2 DEF MaxTransfer, Speeds
      <3>4. w % 512 = 0 BY <1>2, <1>4 DEF MaxTransfer, Speeds
      <3>5. QED BY <1>1, <1>2, <3>1, <3>3, <3>4
    <2> HIDE DEF w
    <2>3. /\ w >= 512 /\ Below(w) % 8 = 0 /\ Below(w) % 24 = 16
          /\ Below(w) \in (w - 16)..w
      BY <1>2, <1>4, BelowMultiple
    <2>4. Below(w) \in MinSize..MaxSize /\ Below(w) \in (r - 15)..(r + 8)
      BY <1>1, <1>2, <1>3, <2>2, <2>3
    <2>5. QED BY <2>1, <2>3, <2>4
  <1>5. CASE w % MaxTransfer(s) # 0
    <2>1. Coerced(r, MaxTransfer(s)) = w BY <1>5 DEF Coerced
    <2> HIDE DEF w
    <2>2. w \in MinSize..MaxSize /\ w \in (r - 15)..(r + 8)
      BY <1>1, <1>2, <1>3
    <2>3. QED BY <1>2, <1>5, <2>1, <2>2
  <1>6. QED BY <1>4, <1>5

\* Making the transport establishes the properties, whichever branch is taken.
LEMMA NextIInv == IInv /\ [Next]_vars => IInv'
  <1> SUFFICES ASSUME IInv, [Next]_vars PROVE IInv'
    OBVIOUS
  <1> USE DEF IInv
  <1>1. CASE UNCHANGED vars
    BY <1>1 DEF vars, WholeWordsWithinLimits, OnlyAlignedMultiplesSurvive, CloseToRequest
  <1>2. CASE MakeTransport
    <2> DEFINE c == recv_frame_size'
    <2>1. /\ usb_speed' = usb_speed /\ request' = request /\ usb_speed \in Speeds
          /\ request \in Int
      BY <1>2 DEF MakeTransport
    <2>. /\ made' = TRUE BY <1>2 DEF MakeTransport
    <2>2. SUFFICES /\ c \in MinSize..MaxSize /\ c % 8 = 0
                   /\ c % MaxTransfer(usb_speed) = 0 => c % 24 = 16
                   /\ request \in MinSize..MaxSize => c \in (request - 15)..(request + 8)
      BY <2>1 DEF WholeWordsWithinLimits, OnlyAlignedMultiplesSurvive, CloseToRequest
    <2>3. CASE TooSmall
      <3>1. c = MinSize /\ request \notin MinSize..MaxSize
        BY <2>1, <2>3, LimitsAssumption DEF TooSmall
      <3>2. MinSize % MaxTransfer(usb_speed) # 0
        BY <2>1, LimitsAssumption DEF MaxTransfer, Speeds
      <3>3. QED BY <3>1, <3>2, LimitsAssumption
    <2>4. CASE TooLarge
      <3>1. c = MaxSize /\ request \notin MinSize..MaxSize
        BY <2>1, <2>4, LimitsAssumption DEF TooLarge
      <3>2. MaxSize % MaxTransfer(usb_speed) # 0
        BY <2>1, LimitsAssumption DEF MaxTransfer, Speeds
      <3>3. QED BY <3>1, <3>2, LimitsAssumption
    <2>5. CASE Coerce
      BY <2>1, <2>5, CoercedSize DEF Coerce
    <2>6. CASE Keep
      <3>1. /\ request % MaxTransfer(usb_speed) # 0 /\ request % 8 = 0
            /\ request \in MinSize..MaxSize
        BY <2>6 DEF Keep
      <3>2. c = request
        BY <1>2, <2>6 DEF Keep, MakeTransport
      <3>3. QED BY <2>1, <3>1, <3>2, LimitsAssumption
    <2>7. QED BY <1>2, <2>3, <2>4, <2>5, <2>6 DEF MakeTransport
  <1>3. QED BY <1>1, <1>2 DEF Next

\* The inductive invariant holds in every reachable state.
THEOREM Inductive == Spec => []IInv
  <1>1. Init => IInv
    BY RequestsAssumption
       DEF Init, IInv, WholeWordsWithinLimits, OnlyAlignedMultiplesSurvive, CloseToRequest
  <1>2. QED BY <1>1, NextIInv, PTL DEF Spec

\* The frame size is a whole number of words within the limits.
THEOREM WholeWords == Spec => []WholeWordsWithinLimits
  <1>1. IInv => WholeWordsWithinLimits BY DEF IInv
  <1>2. QED BY <1>1, Inductive, PTL

\* A multiple of the largest transfer is a header and whole 24-byte groups.
THEOREM AlignedMultiples == Spec => []OnlyAlignedMultiplesSurvive
  <1>1. IInv => OnlyAlignedMultiplesSurvive BY DEF IInv
  <1>2. QED BY <1>1, Inductive, PTL

\* The frame size is within fifteen bytes of an argument within the limits.
THEOREM Close == Spec => []CloseToRequest
  <1>1. IInv => CloseToRequest BY DEF IInv
  <1>2. QED BY <1>1, Inductive, PTL
=============================================================================
