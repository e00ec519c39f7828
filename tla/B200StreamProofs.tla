-------------------------- MODULE B200StreamProofs --------------------------
(***************************************************************************)
(* B200Control: types, and what it promises of its streamers.  Their chains *)
(* run, their switches are set, the FPGA interleaves as many channels as   *)
(* there are, and the clock rate is one they allow, whatever calls fail.   *)
(***************************************************************************)
EXTENDS B200ControlProofs, FiniteSetTheorems

\* What the writes of a call do to the bookkeeping of the model.
LEMMA WriteTypes ==
    \A ws, n, taken :
        Write(ws, n, taken) /\ faults \in Nat
        => faults' \in Nat /\ DOMAIN reg' = Registers
  BY DEF Write

\* A call that owes only registers in addition keeps them all registers.
LEMMA OwedTypes ==
    \A S : Only(S) /\ S \subseteq Registers /\ owed \subseteq Registers => owed' \subseteq Registers
  BY DEF Only

\* A streamer, or none, is stored for the radios of S.
LEMMA StoredTypes ==
    \A d \in Directions, S, T \in SUBSET Radios :
        stream \in [Directions -> [Radios -> SUBSET Radios]] =>
            Stored(d, S, T) \in [Directions -> [Radios -> SUBSET Radios]]
  BY DEF Stored

\* Where it is found afterwards.
LEMMA StoredAt ==
    ASSUME stream \in [Directions -> [Radios -> SUBSET Radios]],
           NEW d \in Directions, NEW S, NEW T, NEW e \in Directions, NEW r \in Radios
    PROVE  Stored(d, S, T)[e][r] = IF e = d /\ r \in S THEN T ELSE stream[e][r]
  BY DEF Stored

\* A streamer that is let go is gone for all its radios, and no other is.
LEMMA Closed ==
    \A d, S : stream \in [Directions -> [Radios -> SUBSET Radios]] /\ CloseStream(d, S) =>
        \A e \in Directions, r \in Radios : stream'[e][r] \in {stream[e][r], {}}
<1> TAKE d, S
<1> HAVE stream \in [Directions -> [Radios -> SUBSET Radios]] /\ CloseStream(d, S)
<1> DEFINE rest == [r \in Radios |-> IF stream[d][r] = S THEN {} ELSE stream[d][r]]
<1>1. stream' = [stream EXCEPT ![d] = rest]
  BY DEF CloseStream
<1>2. \A r \in Radios : rest[r] \in {stream[d][r], {}}
  OBVIOUS
<1> HIDE DEF rest
<1> QED BY <1>1, <1>2

\* The state the constructor leaves has the types.
LEMMA InitTypes == Init => TypeOK
<1> SUFFICES ASSUME Init PROVE TypeOK
  OBVIOUS
<1>1. gpio \in [ref : 0..1, mimo : 0..1, rx : RxFilters, tx : TxFilters]
  BY ValuesAssumption DEF Init
<1>2. time \in TimeSources /\ tick \in Rates
  BY ValuesAssumption DEF Init
<1>3. ant \in [Radios -> {"TX/RX", "RX2"}]
  BY DEF Init
<1>4. stream \in [Directions -> [Radios -> SUBSET Radios]]
  BY DEF Init
<1>5. owed \subseteq Registers /\ DOMAIN reg = Registers
  BY DEF Init
<1>6. faults \in Nat
  BY ValuesAssumption DEF Init
<1> QED BY <1>1, <1>2, <1>3, <1>4, <1>5, <1>6 DEF TypeOK

\* Every call keeps the types, also one that fails half way.
LEMMA TypeStep == TypeOK /\ RegistersFollowState /\ [Next]_vars => TypeOK'
<1> SUFFICES ASSUME TypeOK, RegistersFollowState, [Next]_vars PROVE TypeOK'
  OBVIOUS
<1> DEFINE Word == [ref : 0..1, mimo : 0..1, rx : RxFilters, tx : TxFilters]
           Books == owed' \subseteq Registers /\ DOMAIN reg' = Registers /\ faults' \in Nat
<1>0. /\ {Misc, Lock} \subseteq Registers /\ {Sync} \subseteq Registers /\ {Misc} \subseteq Registers
      /\ AtrRegisters \subseteq Registers /\ {Rate, Sync} \cup CoreRegisters \subseteq Registers
      /\ {Chains, Misc} \cup AtrRegisters \subseteq Registers
  BY Keys DEF AtrRegisters, CoreRegisters
<1>1. ASSUME NEW source \in {"internal", "external", "gpsdo"}, SetClockSource(source) PROVE TypeOK'
  <2>1. Books
    BY <1>0, <1>1, ClockStep, OwedTypes, WriteTypes DEF SetClockSource, TypeOK
  <2>2. RefSel(source) \in 0..1
    BY DEF RefSel, TypeOK
  <2>3. gpio' \in Word
    BY <1>1, <2>2 DEF SetClockSource, TypeOK
  <2> QED BY <1>1, <2>1, <2>3 DEF SetClockSource, TypeOK
<1>2. ASSUME NEW source \in TimeSources, SetTimeSource(source) PROVE TypeOK'
  <2>1. Books
    BY <1>0, <1>2, TimeStep, OwedTypes, WriteTypes DEF SetTimeSource, TypeOK
  <2>2. time' \in TimeSources
    BY <1>2 DEF SetTimeSource, TypeOK
  <2> QED BY <1>2, <2>1, <2>2 DEF SetTimeSource, TypeOK
<1>3. CASE SetTime
  <2>1. Books
    BY <1>0, <1>3, PulseStep, OwedTypes, WriteTypes DEF SetTime, TypeOK
  <2> QED BY <1>3, <2>1 DEF SetTime, host, TypeOK
<1>4. ASSUME NEW rate \in Rates, SetTickRate(rate) PROVE TypeOK'
  <2>1. Books
    BY <1>0, <1>4, RateStep, OwedTypes, WriteTypes DEF SetTickRate, TypeOK
  <2>2. tick' \in Rates
    BY <1>4 DEF SetTickRate, TypeOK
  <2> QED BY <1>4, <2>1, <2>2 DEF SetTickRate, TypeOK
<1>5. CASE SetFilter
  <2>1. Books
    BY <1>0, <1>5, FilterStep, OwedTypes, WriteTypes DEF SetFilter, TypeOK
  <2>2. gpio' \in Word
    <3>1. \/ \E f \in RxFilters : gpio' = [gpio EXCEPT !.rx = f]
          \/ \E f \in TxFilters : gpio' = [gpio EXCEPT !.tx = f]
      BY <1>5 DEF SetFilter
    <3> QED BY <3>1 DEF TypeOK
  <2> QED BY <1>5, <2>1, <2>2 DEF SetFilter, TypeOK
<1>6. ASSUME NEW r \in Radios, NEW a \in {"TX/RX", "RX2"}, SetAntenna(r, a) PROVE TypeOK'
  <2>1. Books
    BY <1>0, <1>6, AntennaStep, OwedTypes, WriteTypes DEF SetAntenna, TypeOK
  <2>2. ant' = [ant EXCEPT ![r] = a] /\ UNCHANGED <<gpio, time, tick, stream>>
    BY <1>6 DEF SetAntenna
  <2> QED BY <2>1, <2>2 DEF TypeOK
<1>7. ASSUME NEW d \in Directions, NEW S \in Streams, OpenStream(d, S) PROVE TypeOK'
  <2>1. Books
    BY <1>0, <1>7, OpenStep, OwedTypes, WriteTypes DEF OpenStream, TypeOK
  <2>2. S \in SUBSET Radios /\ {} \in SUBSET Radios
    BY RadiosAssumption
  <2>3. stream' \in [Directions -> [Radios -> SUBSET Radios]]
    <3>1. stream' = Stored(d, S, S) \/ stream' = Stored(d, S, {})
      BY <1>7 DEF OpenStream
    <3>2. \A T \in SUBSET Radios : Stored(d, S, T) \in [Directions -> [Radios -> SUBSET Radios]]
      BY <2>2, StoredTypes DEF TypeOK
    <3> QED BY <2>2, <3>1, <3>2
  <2>4. gpio' \in Word
    <3>1. Mimo(Stored(d, S, S)) \in 0..1
      BY DEF Mimo
    <3>2. gpio' = gpio \/ gpio' = [gpio EXCEPT !.mimo = Mimo(Stored(d, S, S))]
      BY <1>7 DEF OpenStream
    <3> QED BY <3>1, <3>2 DEF TypeOK
  <2> QED BY <1>7, <2>1, <2>3, <2>4 DEF OpenStream, TypeOK
<1>8. ASSUME NEW d \in Directions, NEW S \in Streams, RefuseThreeChains(d, S) PROVE TypeOK'
  <2>1. S \in SUBSET Radios /\ {} \in SUBSET Radios
    BY RadiosAssumption
  <2>2. stream' \in [Directions -> [Radios -> SUBSET Radios]]
    BY <1>8, <2>1, StoredTypes DEF RefuseThreeChains, TypeOK
  <2> QED BY <1>8, <2>2 DEF RefuseThreeChains, TypeOK
<1>9. ASSUME NEW d \in Directions, NEW S \in Streams, CloseStream(d, S) PROVE TypeOK'
  BY <1>9 DEF CloseStream, TypeOK
<1>10. CASE UNCHANGED vars
  BY <1>10 DEF vars, TypeOK
<1> QED BY <1>1, <1>2, <1>3, <1>4, <1>5, <1>6, <1>7, <1>8, <1>9, <1>10 DEF Next

\* The fields of the word fit their bits, and no failure leaves a value nobody
\* asked for.
THEOREM TypeCorrect == Spec => []TypeOK
  BY InitTypes, TypeStep, FollowState, PTL DEF Spec

-----------------------------------------------------------------------------
\* There are at most two radios, so sizes are counted by hand.
LEMMA Sizes ==
    \A L \in SUBSET Radios :
        /\ IsFiniteSet(L)
        /\ Cardinality(L) = (IF 0 \in L THEN 1 ELSE 0) + (IF 1 \in L THEN 1 ELSE 0)
<1> TAKE L \in SUBSET Radios
<1>1. L = {} \/ L = {0} \/ L = {1} \/ L = {0} \cup {1}
  BY RadiosAssumption
<1>2. IsFiniteSet({0}) /\ Cardinality({0}) = 1 /\ Cardinality({1}) = 1 /\ IsFiniteSet({1})
  BY FS_Singleton
<1>3. IsFiniteSet({0} \cup {1}) /\ Cardinality({0} \cup {1}) = 2
  BY <1>2, FS_AddElement
<1>4. CASE L = {}
  BY <1>4, FS_EmptySet
<1>5. CASE L = {0}
  BY <1>2, <1>5
<1>6. CASE L = {1}
  BY <1>2, <1>6
<1>7. CASE L = {0} \cup {1}
  BY <1>3, <1>7
<1> QED BY <1>1, <1>4, <1>5, <1>6, <1>7

\* The widest streamer is as wide as any.
LEMMA WidestBounds ==
    ASSUME TypeOK
    PROVE  \A d \in Directions : /\ Widest(d) \in Nat
                                 /\ \A r \in Radios : Cardinality(stream[d][r]) <= Widest(d)
<1> TAKE d \in Directions
<1> DEFINE card(r) == Cardinality(stream[d][r])
           C == {card(r) : r \in Radios}
<1>1. \A r \in Radios : card(r) \in Nat
  <2> TAKE r \in Radios
  <2>1. stream[d][r] \in SUBSET Radios
    BY DEF TypeOK
  <2> QED BY <2>1, Sizes, FS_CardinalityType
<1> HIDE DEF card
<1>2. Widest(d) = Max(C)
  BY DEF Widest, card
<1>3. \E m \in C : \A c \in C : c <= m
  <2>1. CASE Radios = {0}
    BY <1>1, <2>1
  <2>2. CASE Radios = {0, 1}
    <3>1. C = {card(0), card(1)} /\ card(0) \in Nat /\ card(1) \in Nat
      BY <1>1, <2>2
    <3>2. card(0) <= card(1) \/ card(1) <= card(0)
      BY <3>1
    <3>3. card(0) <= card(0) /\ card(1) <= card(1)
      BY <3>1
    <3> QED BY <3>1, <3>2, <3>3
  <2> QED BY <2>1, <2>2, RadiosAssumption
<1>4. Max(C) \in C /\ \A c \in C : c <= Max(C)
  BY <1>1, <1>3 DEF Max
<1> QED BY <1>1, <1>2, <1>4 DEF card

\* Whoever comes first, the streamer or the rate, the other is checked against it.
LEMMA RateKept == TypeOK /\ RateWithinLimits /\ [Next]_vars => RateWithinLimits'
<1> SUFFICES ASSUME TypeOK, RateWithinLimits, [Next]_vars,
                    NEW e \in Directions, NEW q \in Radios, Cardinality(stream'[e][q]) = 2
             PROVE  2 * tick' <= MaxRate
  BY DEF RateWithinLimits
<1>1. stream'[e][q] # {}
  <2>1. Cardinality({}) = 0
    BY FS_EmptySet
  <2> QED BY <2>1
<1>2. stream'[e][q] = stream[e][q] => 2 * tick <= MaxRate
  BY DEF RateWithinLimits
<1>3. ASSUME NEW rate \in Rates, SetTickRate(rate) PROVE 2 * tick' <= MaxRate
  <2>1. stream' = stream /\ (tick' = rate \/ tick' = tick) /\ RateAllowed(Widest(e), rate)
    BY <1>3 DEF SetTickRate
  <2>2. Widest(e) \in Nat /\ 2 <= Widest(e)
    BY <2>1, WidestBounds
  <2>3. 2 * rate <= MaxRate
    BY <2>1, <2>2 DEF RateAllowed
  <2> QED BY <1>2, <2>1, <2>3
<1>4. ASSUME NEW d \in Directions, NEW S \in Streams, OpenStream(d, S) PROVE 2 * tick' <= MaxRate
  <2>1. tick' = tick /\ RateAllowed(Cardinality(S), tick)
        /\ (stream' = Stored(d, S, S) \/ stream' = Stored(d, S, {}))
    BY <1>4 DEF OpenStream
  <2>3. stream'[e][q] = stream[e][q] \/ stream'[e][q] = S
    <3>1. \A T : Stored(d, S, T)[e][q] = IF e = d /\ q \in S THEN T ELSE stream[e][q]
      BY StoredAt DEF TypeOK
    <3> QED BY <1>1, <2>1, <3>1
  <2>4. ASSUME stream'[e][q] = S PROVE 2 * tick <= MaxRate
    <3>1. Cardinality(S) = 2 /\ RateAllowed(Cardinality(S), tick)
      BY <2>1, <2>4
    <3>2. RateAllowed(2, tick)
      BY <3>1
    <3> QED BY <3>2 DEF RateAllowed
  <2> QED BY <1>2, <2>1, <2>3, <2>4
<1>5. ASSUME NEW d \in Directions, NEW S \in Streams, RefuseThreeChains(d, S)
      PROVE  2 * tick' <= MaxRate
  <2>1. tick' = tick /\ stream' = Stored(d, S, {})
    BY <1>5 DEF RefuseThreeChains
  <2>2. Stored(d, S, {})[e][q] = IF e = d /\ q \in S THEN {} ELSE stream[e][q]
    BY StoredAt DEF TypeOK
  <2>3. stream'[e][q] = stream[e][q]
    BY <1>1, <2>1, <2>2
  <2> QED BY <1>2, <2>1, <2>3
<1>6. ASSUME NEW d \in Directions, NEW S \in Streams, CloseStream(d, S)
      PROVE  2 * tick' <= MaxRate
  <2>1. tick' = tick /\ stream'[e][q] = stream[e][q]
    BY <1>1, <1>6, Closed DEF TypeOK, CloseStream
  <2> QED BY <1>2, <2>1
<1>7. ASSUME UNCHANGED <<tick, stream>> PROVE 2 * tick' <= MaxRate
  BY <1>2, <1>7
<1> QED BY <1>3, <1>4, <1>5, <1>6, <1>7
        DEF Next, vars, host, SetClockSource, SetTimeSource, SetTime, SetFilter, SetAntenna

\* No streamer lives above the rate its channels allow.
THEOREM RateLimits == Spec => []RateWithinLimits
<1>1. Init => RateWithinLimits
  <2> SUFFICES ASSUME Init PROVE RateWithinLimits
    OBVIOUS
  <2>1. \A d \in Directions, r \in Radios : stream[d][r] = {}
    BY DEF Init
  <2>2. Cardinality({}) = 0
    BY FS_EmptySet
  <2> QED BY <2>1, <2>2 DEF RateWithinLimits
<1> QED BY <1>1, RateKept, TypeCorrect, PTL DEF Spec

-----------------------------------------------------------------------------
StreamTable == [Directions -> [Radios -> SUBSET Radios]]

\* Every streamer that lives now lived when the table was s.
Since(s) == \A d \in Directions, r \in Radios : stream[d][r] # {} => s[d][r] # {}

\* The chains are those of the streamers there were when update_enables last
\* wrote them, the remembered mode counts the same ones, and those that live now
\* are among them.
ChainsInv ==
    Chains \notin owed =>
        \E s \in StreamTable :
            /\ reg[Chains] = ChainWrite(s)[2] /\ gpio.mimo = Mimo(s)
            /\ ~ThreeChains(s) /\ Since(s)

\* The switches of a live streamer are on its path.
SwitchesInv ==
    \A r \in Radios : Atr(r) \notin owed =>
        /\ stream["rx"][r] # {} => reg[Atr(r)].rx_only = <<"RX", Frontend(r), ant[r]>>
        /\ stream["tx"][r] # {} => reg[Atr(r)].tx_only = <<"TX", Frontend(r)>>

\* A call that neither writes the chains nor adds a streamer keeps ChainsInv.
LEMMA ChainsKept ==
    /\ ChainsInv /\ (\E S : Chains \notin S /\ Only(S)) /\ gpio'.mimo = gpio.mimo
    /\ \A d \in Directions, r \in Radios : stream'[d][r] # {} => stream[d][r] # {}
    => ChainsInv'
<1> HAVE /\ ChainsInv /\ (\E S : Chains \notin S /\ Only(S)) /\ gpio'.mimo = gpio.mimo
         /\ \A d \in Directions, r \in Radios : stream'[d][r] # {} => stream[d][r] # {}
<1>1. reg'[Chains] = reg[Chains] /\ (Chains \in owed' <=> Chains \in owed)
  BY Keys DEF Only
<1>2. SUFFICES ASSUME Chains \notin owed'
               PROVE  \E s \in StreamTable :
                         /\ reg'[Chains] = ChainWrite(s)[2] /\ gpio'.mimo = Mimo(s)
                         /\ ~ThreeChains(s) /\ Since(s)'
  BY DEF ChainsInv, StreamTable, ChainWrite, Mimo, ThreeChains, Since, Chains, Live
<1>3. PICK s \in StreamTable :
         reg[Chains] = ChainWrite(s)[2] /\ gpio.mimo = Mimo(s) /\ ~ThreeChains(s) /\ Since(s)
  BY <1>1, <1>2 DEF ChainsInv
<1>4. Since(s)'
  BY <1>3 DEF Since
<1> QED BY <1>1, <1>3, <1>4

\* The same for the switches, if the antennas stay.
LEMMA SwitchesKept ==
    /\ SwitchesInv /\ (\E S : AtrRegisters \cap S = {} /\ Only(S)) /\ ant' = ant
    /\ \A d \in Directions, r \in Radios : stream'[d][r] # {} => stream[d][r] # {}
    => SwitchesInv'
<1> HAVE /\ SwitchesInv /\ (\E S : AtrRegisters \cap S = {} /\ Only(S)) /\ ant' = ant
         /\ \A d \in Directions, r \in Radios : stream'[d][r] # {} => stream[d][r] # {}
<1>1. \A r \in Radios : reg'[Atr(r)] = reg[Atr(r)] /\ (Atr(r) \in owed' <=> Atr(r) \in owed)
  <2> TAKE r \in Radios
  <2>1. Atr(r) \in AtrRegisters /\ Atr(r) \in Registers
    BY Keys DEF AtrRegisters
  <2> QED BY <2>1 DEF Only
<1>2. \A r \in Radios : /\ stream'["rx"][r] # {} => stream["rx"][r] # {}
                        /\ stream'["tx"][r] # {} => stream["tx"][r] # {}
  BY DEF Directions
<1> SUFFICES ASSUME NEW r \in Radios, Atr(r) \notin owed'
             PROVE  /\ stream'["rx"][r] # {} => reg'[Atr(r)].rx_only = <<"RX", Frontend(r), ant'[r]>>
                    /\ stream'["tx"][r] # {} => reg'[Atr(r)].tx_only = <<"TX", Frontend(r)>>
  BY DEF SwitchesInv, Atr, Frontend
<1> QED BY <1>1, <1>2 DEF SwitchesInv

\* What update_atrs writes is what SwitchesInv asks for.
LEMMA AtrWordPaths ==
    \A s, a : \A r \in Radios :
        /\ s["rx"][r] # {} => AtrWord(s, a, r).rx_only = <<"RX", Frontend(r), a[r]>>
        /\ s["tx"][r] # {} => AtrWord(s, a, r).tx_only = <<"TX", Frontend(r)>>
  BY DEF AtrWord, Switches, RxPath, TxPath, Live

\* An antenna sets the switches of both radios again.
LEMMA AntennaCall ==
    ASSUME NEW r \in Radios, NEW a, SetAntenna(r, a)
    PROVE  SwitchesInv'
<1> DEFINE ws == AtrWrites(stream, ant')
<1>1. stream' = stream /\ \E n \in 0..Len(ws), taken \in BOOLEAN : Write(ws, n, taken)
  BY DEF SetAntenna
<1>2. Len(ws) \in Nat /\ \A q \in Radios : Ends(ws, Atr(q), AtrWord(stream, ant', q))
  BY OnlyAtr, AtrLast
<1> HIDE DEF ws
<1>3. PICK n \in 0..Len(ws), taken \in BOOLEAN : Write(ws, n, taken)
  BY <1>1
<1>4. ASSUME NEW q \in Radios, Atr(q) \notin owed'
      PROVE  reg'[Atr(q)] = AtrWord(stream, ant', q)
  BY <1>2, <1>3, <1>4, EndsOutcome, Keys
<1> SUFFICES ASSUME NEW q \in Radios, Atr(q) \notin owed'
             PROVE  /\ stream'["rx"][q] # {} => reg'[Atr(q)].rx_only = <<"RX", Frontend(q), ant'[q]>>
                    /\ stream'["tx"][q] # {} => reg'[Atr(q)].tx_only = <<"TX", Frontend(q)>>
  BY DEF SwitchesInv, Atr, Frontend
<1> QED BY <1>1, <1>4, AtrWordPaths

\* A streamer that fails before all is written is forgotten, and with it those it
\* replaced: what lives afterwards is in the table that was written.
LEMMA OpenCall ==
    ASSUME TypeOK, NEW d \in Directions, NEW S \in Streams, OpenStream(d, S)
    PROVE  ChainsInv' /\ SwitchesInv'
<1>0. PICK s \in StreamTable : s = Stored(d, S, S)
  BY RadiosAssumption, StoredTypes DEF TypeOK, StreamTable
<1> DEFINE g == [gpio EXCEPT !.mimo = Mimo(s)]
           ws == EnableWrites(s, g)
<1>1. /\ ant' = ant /\ ~ThreeChains(s)
      /\ stream' = s \/ stream' = Stored(d, S, {})
      /\ \E n \in 0..Len(ws), taken \in BOOLEAN :
            Write(ws, n, taken) /\ gpio' = IF n >= 1 THEN g ELSE gpio
  BY <1>0 DEF OpenStream
<1>2. /\ Len(ws) \in Nat /\ Ends(ws, Chains, ChainWrite(s)[2])
      /\ \A r \in Radios : Ends(ws, Atr(r), AtrWord(s, ant, r))
  BY EnableList
<1>3. g.mimo = Mimo(s)
  BY DEF TypeOK
<1>5. \A e \in Directions, r \in Radios : stream'[e][r] # {} => s[e][r] # {}
  <2> TAKE e \in Directions, r \in Radios
  <2>1. \A T : Stored(d, S, T)[e][r] = IF e = d /\ r \in S THEN T ELSE stream[e][r]
    BY StoredAt DEF TypeOK
  <2>2. S # {}
    BY RadiosAssumption
  <2> QED BY <1>0, <1>1, <2>1, <2>2
<1> HIDE DEF ws, g
<1>6. PICK n \in 0..Len(ws), taken \in BOOLEAN :
         Write(ws, n, taken) /\ gpio' = IF n >= 1 THEN g ELSE gpio
  BY <1>1
<1>7. ChainsInv'
  <2> SUFFICES ASSUME Chains \notin owed'
               PROVE  \E t \in StreamTable :
                         /\ reg'[Chains] = ChainWrite(t)[2] /\ gpio'.mimo = Mimo(t)
                         /\ ~ThreeChains(t) /\ Since(t)'
    BY DEF ChainsInv, StreamTable, ChainWrite, Mimo, ThreeChains, Since, Chains, Live
  <2>1. n >= 1 /\ reg'[Chains] = ChainWrite(s)[2]
    BY <1>2, <1>6, EndsOutcome, Keys
  <2>2. Since(s)'
    BY <1>5 DEF Since
  <2> QED BY <1>1, <1>3, <1>6, <2>1, <2>2
<1>8. SwitchesInv'
  <2>1. ASSUME NEW q \in Radios, Atr(q) \notin owed'
        PROVE  reg'[Atr(q)] = AtrWord(s, ant, q)
    BY <1>2, <1>6, <2>1, EndsOutcome, Keys
  <2>2. \A q \in Radios : /\ stream'["rx"][q] # {} => s["rx"][q] # {}
                          /\ stream'["tx"][q] # {} => s["tx"][q] # {}
    BY <1>5 DEF Directions
  <2> SUFFICES ASSUME NEW q \in Radios, Atr(q) \notin owed'
               PROVE  /\ stream'["rx"][q] # {} => reg'[Atr(q)].rx_only = <<"RX", Frontend(q), ant'[q]>>
                      /\ stream'["tx"][q] # {} => reg'[Atr(q)].tx_only = <<"TX", Frontend(q)>>
    BY DEF SwitchesInv, Atr, Frontend
  <2> QED BY <1>1, <2>1, <2>2, AtrWordPaths
<1> QED BY <1>7, <1>8

\* The constructor finds no streamer and runs no chain.
LEMMA InitStreams == Init => ChainsInv /\ SwitchesInv
<1> SUFFICES ASSUME Init PROVE ChainsInv /\ SwitchesInv
  OBVIOUS
<1>1. \A d \in Directions, r \in Radios : stream[d][r] = {}
  BY DEF Init
<1>2. SwitchesInv
  BY <1>1 DEF SwitchesInv, Directions
<1>3. \A d \in Directions : Live(stream, d) = {}
  BY <1>1 DEF Live
<1>4. Cardinality({}) = 0
  BY FS_EmptySet
<1>5. Mimo(stream) = 0 /\ ~ThreeChains(stream)
  BY <1>3, <1>4 DEF Mimo, ThreeChains, Directions
<1>6. ChainWrite(stream)[2] = {}
  BY <1>1 DEF ChainWrite
<1>7. reg[Chains] = {} /\ gpio.mimo = 0 /\ stream \in StreamTable
  BY InitValues, InitTypes DEF Init, TypeOK, StreamTable
<1> QED BY <1>2, <1>5, <1>6, <1>7 DEF ChainsInv, Since

\* Every call keeps both.
LEMMA StreamStep ==
    TypeOK /\ RegistersFollowState /\ ChainsInv /\ SwitchesInv /\ [Next]_vars
    => ChainsInv' /\ SwitchesInv'
<1> SUFFICES ASSUME TypeOK, RegistersFollowState, ChainsInv, SwitchesInv, [Next]_vars
             PROVE  ChainsInv' /\ SwitchesInv'
  OBVIOUS
<1>1. ASSUME NEW K, Only(K), Chains \notin K, AtrRegisters \cap K = {}, ant' = ant,
             gpio'.mimo = gpio.mimo,
             \A d \in Directions, r \in Radios : stream'[d][r] # {} => stream[d][r] # {}
      PROVE  ChainsInv' /\ SwitchesInv'
  BY <1>1, ChainsKept, SwitchesKept
<1>2. ASSUME NEW source \in {"internal", "external", "gpsdo"}, SetClockSource(source)
      PROVE  ChainsInv' /\ SwitchesInv'
  <2>1. Only({Misc, Lock})
    BY <1>2, ClockStep
  <2>2. ant' = ant /\ stream' = stream /\ gpio'.mimo = gpio.mimo
    BY <1>2 DEF SetClockSource, TypeOK
  <2>3. Chains \notin {Misc, Lock} /\ AtrRegisters \cap {Misc, Lock} = {}
    BY Keys DEF AtrRegisters
  <2> QED BY <1>1, <2>1, <2>2, <2>3
<1>3. ASSUME NEW source \in TimeSources, SetTimeSource(source) PROVE ChainsInv' /\ SwitchesInv'
  <2>1. Only({Sync})
    BY <1>3, TimeStep
  <2>2. ant' = ant /\ stream' = stream /\ gpio' = gpio
    BY <1>3 DEF SetTimeSource
  <2>3. Chains \notin {Sync} /\ AtrRegisters \cap {Sync} = {}
    BY Keys DEF AtrRegisters
  <2> QED BY <1>1, <2>1, <2>2, <2>3
<1>4. CASE SetTime
  <2>1. Only({Sync})
    BY <1>4, PulseStep
  <2>2. ant' = ant /\ stream' = stream /\ gpio' = gpio
    BY <1>4 DEF SetTime, host
  <2>3. Chains \notin {Sync} /\ AtrRegisters \cap {Sync} = {}
    BY Keys DEF AtrRegisters
  <2> QED BY <1>1, <2>1, <2>2, <2>3
<1>5. ASSUME NEW rate \in Rates, SetTickRate(rate) PROVE ChainsInv' /\ SwitchesInv'
  <2> DEFINE K == {Rate, Sync} \cup CoreRegisters
  <2>1. Only(K)
    BY <1>5, RateStep
  <2>2. ant' = ant /\ stream' = stream /\ gpio' = gpio
    BY <1>5 DEF SetTickRate
  <2>3. Chains \notin K /\ AtrRegisters \cap K = {}
    BY Keys DEF AtrRegisters, CoreRegisters
  <2> HIDE DEF K
  <2> QED BY <1>1, <2>1, <2>2, <2>3
<1>6. CASE SetFilter
  <2>1. Only({Misc})
    BY <1>6, FilterStep
  <2>2. ant' = ant /\ stream' = stream /\ gpio'.mimo = gpio.mimo
    BY <1>6 DEF SetFilter, TypeOK
  <2>3. Chains \notin {Misc} /\ AtrRegisters \cap {Misc} = {}
    BY Keys DEF AtrRegisters
  <2> QED BY <1>1, <2>1, <2>2, <2>3
<1>7. ASSUME NEW r \in Radios, NEW a \in {"TX/RX", "RX2"}, SetAntenna(r, a)
      PROVE  ChainsInv' /\ SwitchesInv'
  <2>1. Only(AtrRegisters)
    BY <1>7, AntennaStep
  <2>2. gpio' = gpio /\ stream' = stream
    BY <1>7 DEF SetAntenna
  <2>3. Chains \notin AtrRegisters
    BY Keys DEF AtrRegisters
  <2> QED BY <1>7, <2>1, <2>2, <2>3, ChainsKept, AntennaCall
<1>8. ASSUME NEW d \in Directions, NEW S \in Streams, OpenStream(d, S)
      PROVE  ChainsInv' /\ SwitchesInv'
  BY <1>8, OpenCall
<1>9. ASSUME NEW d \in Directions, NEW S \in Streams, RefuseThreeChains(d, S)
      PROVE  ChainsInv' /\ SwitchesInv'
  <2>1. Only({})
    BY <1>9 DEF RefuseThreeChains, Only
  <2>2. ant' = ant /\ gpio' = gpio /\ stream' = Stored(d, S, {})
    BY <1>9 DEF RefuseThreeChains
  <2>3. ASSUME NEW e \in Directions, NEW r \in Radios PROVE stream'[e][r] # {} => stream[e][r] # {}
    BY <2>2, StoredAt DEF TypeOK
  <2> QED BY <1>1, <2>1, <2>2, <2>3
<1>10. ASSUME NEW d \in Directions, NEW S \in Streams, CloseStream(d, S)
       PROVE  ChainsInv' /\ SwitchesInv'
  <2>1. Only({})
    BY <1>10 DEF CloseStream, Only
  <2>2. ant' = ant /\ gpio' = gpio
    BY <1>10 DEF CloseStream
  <2>3. \A e \in Directions, r \in Radios : stream'[e][r] # {} => stream[e][r] # {}
    BY <1>10, Closed DEF TypeOK
  <2> QED BY <1>1, <2>1, <2>2, <2>3
<1>11. CASE UNCHANGED vars
  <2>1. Only({}) /\ ant' = ant /\ gpio' = gpio /\ stream' = stream
    BY <1>11 DEF vars, Only
  <2> QED BY <1>1, <2>1
<1> QED BY <1>2, <1>3, <1>4, <1>5, <1>6, <1>7, <1>8, <1>9, <1>10, <1>11 DEF Next

\* Both invariants hold of every behaviour.
LEMMA StreamInvariants == Spec => [](ChainsInv /\ SwitchesInv)
  BY InitStreams, StreamStep, TypeCorrect, FollowState, PTL DEF Spec

\* A streamer the device knows has its chain running and its switches set, also
\* after calls of others that failed or were refused.
THEOREM LiveConnected == Spec => []LiveStreamIsConnected
<1>1. ChainsInv /\ SwitchesInv => LiveStreamIsConnected
  <2> SUFFICES ASSUME ChainsInv, SwitchesInv, NEW r \in Radios, owed \cap {Chains, Atr(r)} = {}
               PROVE  /\ stream["rx"][r] # {} =>
                            /\ <<"rx", Frontend(r)>> \in reg[Chains]
                            /\ reg[Atr(r)].rx_only = <<"RX", Frontend(r), ant[r]>>
                      /\ stream["tx"][r] # {} =>
                            /\ <<"tx", Frontend(r)>> \in reg[Chains]
                            /\ reg[Atr(r)].tx_only = <<"TX", Frontend(r)>>
    BY DEF LiveStreamIsConnected
  <2>1. Chains \notin owed /\ Atr(r) \notin owed
    OBVIOUS
  <2>2. PICK s \in StreamTable : reg[Chains] = ChainWrite(s)[2] /\ Since(s)
    BY <2>1 DEF ChainsInv
  <2>3. ASSUME NEW d \in Directions, stream[d][r] # {} PROVE <<d, Frontend(r)>> \in reg[Chains]
    <3>1. <<d, r>> \in {p \in Directions \X Radios : s[p[1]][p[2]] # {}}
      BY <2>2, <2>3 DEF Since
    <3> QED BY <2>2, <3>1 DEF ChainWrite
  <2>4. "rx" \in Directions /\ "tx" \in Directions
    BY DEF Directions
  <2> QED BY <2>1, <2>3, <2>4 DEF SwitchesInv
<1> QED BY <1>1, StreamInvariants, PTL

-----------------------------------------------------------------------------
\* The chains of the radios L in direction d.
ChainsOf(d, L) == {<<d, Frontend(r)>> : r \in L}

\* Each radio has a frontend of its own: there are as many chains as radios.
LEMMA ChainCount ==
    \A d : \A L \in SUBSET Radios :
        IsFiniteSet(ChainsOf(d, L)) /\ Cardinality(ChainsOf(d, L)) = Cardinality(L)
<1> TAKE d
<1> TAKE L \in SUBSET Radios
<1> DEFINE c0 == <<d, Frontend(0)>>
           c1 == <<d, Frontend(1)>>
<1>1. c0 # c1
  BY DEF Frontend
<1>2. L = {} \/ L = {0} \/ L = {1} \/ L = {0, 1}
  BY RadiosAssumption
<1>3. /\ L = {} => ChainsOf(d, L) = {}
      /\ L = {0} => ChainsOf(d, L) = {c0}
      /\ L = {1} => ChainsOf(d, L) = {c1}
      /\ L = {0, 1} => ChainsOf(d, L) = {c0} \cup {c1}
  BY DEF ChainsOf
<1> HIDE DEF c0, c1
<1>4. /\ IsFiniteSet({}) /\ Cardinality({}) = 0
      /\ \A x : IsFiniteSet({x}) /\ Cardinality({x}) = 1
  BY FS_EmptySet, FS_Singleton
<1>5. IsFiniteSet({c0} \cup {c1}) /\ Cardinality({c0} \cup {c1}) = 2
  <2>1. IsFiniteSet({c0}) /\ Cardinality({c0}) = 1 /\ c1 \notin {c0}
    BY <1>1, <1>4
  <2>2. /\ IsFiniteSet({c0} \cup {c1})
        /\ Cardinality({c0} \cup {c1}) = IF c1 \in {c0} THEN Cardinality({c0}) ELSE Cardinality({c0}) + 1
    BY <2>1, FS_AddElement
  <2> QED BY <2>1, <2>2
<1>6. Cardinality(L) = (IF 0 \in L THEN 1 ELSE 0) + (IF 1 \in L THEN 1 ELSE 0)
  BY Sizes
<1>7. CASE L = {}
  BY <1>3, <1>4, <1>7
<1>8. CASE L = {0}
  BY <1>3, <1>4, <1>6, <1>8
<1>9. CASE L = {1}
  BY <1>3, <1>4, <1>6, <1>9
<1>10. CASE L = {0, 1}
  BY <1>3, <1>5, <1>6, <1>10
<1> QED BY <1>2, <1>7, <1>8, <1>9, <1>10

\* What set_active_chains is given, counted in each direction and in all.
LEMMA ActiveCount ==
    \A s \in StreamTable :
        /\ \A d \in Directions :
              Cardinality({c \in ChainWrite(s)[2] : c[1] = d}) = Cardinality(Live(s, d))
        /\ Cardinality(ChainWrite(s)[2]) = Cardinality(Live(s, "rx")) + Cardinality(Live(s, "tx"))
<1> TAKE s \in StreamTable
<1> DEFINE P == {p \in Directions \X Radios : s[p[1]][p[2]] # {}}
           all == ChainWrite(s)[2]
           rx == ChainsOf("rx", Live(s, "rx"))
           tx == ChainsOf("tx", Live(s, "tx"))
<1>1. all = {<<p[1], Frontend(p[2])>> : p \in P}
  BY DEF ChainWrite
<1>2. \A d : Live(s, d) \in SUBSET Radios
  BY DEF Live
<1>3. ASSUME NEW d \in Directions PROVE {c \in all : c[1] = d} = ChainsOf(d, Live(s, d))
  <2>1. ASSUME NEW c \in all, c[1] = d PROVE c \in ChainsOf(d, Live(s, d))
    <3>1. PICK p \in P : c = <<p[1], Frontend(p[2])>>
      BY <1>1, <2>1
    <3>2. p[1] = d /\ p[2] \in Live(s, d)
      BY <2>1, <3>1 DEF Live
    <3> QED BY <3>1, <3>2 DEF ChainsOf
  <2>2. ASSUME NEW r \in Live(s, d) PROVE <<d, Frontend(r)>> \in all
    <3>1. <<d, r>> \in P
      BY DEF Live
    <3> QED BY <1>1, <3>1
  <2> HIDE DEF all
  <2>3. \A c \in ChainsOf(d, Live(s, d)) : c \in all /\ c[1] = d
    BY <2>2 DEF ChainsOf
  <2> QED BY <2>1, <2>3
<1>4. \A c \in all : c[1] \in Directions
  BY <1>1
<1> HIDE DEF all
<1>5. all = rx \cup tx /\ rx \cap tx = {}
  <2>1. {c \in all : c[1] = "rx"} = rx /\ {c \in all : c[1] = "tx"} = tx
    BY <1>3 DEF Directions
  <2>2. \A c \in all : c[1] = "rx" \/ c[1] = "tx"
    BY <1>4 DEF Directions
  <2> HIDE DEF rx, tx
  <2> QED BY <2>1, <2>2
<1>6. /\ IsFiniteSet(rx) /\ Cardinality(rx) = Cardinality(Live(s, "rx"))
      /\ IsFiniteSet(tx) /\ Cardinality(tx) = Cardinality(Live(s, "tx"))
  BY <1>2, ChainCount
<1> HIDE DEF rx, tx
<1>7. Cardinality(all) = Cardinality(rx) + Cardinality(tx)
  <2>1. Cardinality(rx \cup tx) = Cardinality(rx) + Cardinality(tx) - Cardinality(rx \cap tx)
    BY <1>6, FS_Union
  <2>2. Cardinality(rx) \in Nat /\ Cardinality(tx) \in Nat /\ Cardinality(rx \cap tx) = 0
    BY <1>5, <1>6, FS_CardinalityType, FS_EmptySet
  <2>3. Cardinality(all) = Cardinality(rx \cup tx)
    BY <1>5
  <2> QED BY <2>1, <2>2, <2>3
<1>8. ASSUME NEW d \in Directions
      PROVE  Cardinality({c \in all : c[1] = d}) = Cardinality(Live(s, d))
  <2>1. Cardinality(ChainsOf(d, Live(s, d))) = Cardinality(Live(s, d))
    BY <1>2, ChainCount
  <2> QED BY <1>3, <2>1
<1> QED BY <1>6, <1>7, <1>8 DEF all

\* The FPGA interleaves two channels exactly when the AD9361 runs two of one
\* direction, and it never runs three.
THEOREM MimoMatches == Spec => []MimoMatchesChains
<1>1. ChainsInv /\ RegistersFollowState => MimoMatchesChains
  <2> SUFFICES ASSUME ChainsInv, RegistersFollowState, owed \cap {Misc, Chains} = {}
               PROVE  /\ reg[Misc].mimo = 1 <=>
                            \E d \in Directions : Cardinality({c \in reg[Chains] : c[1] = d}) = 2
                      /\ Cardinality(reg[Chains]) # 3
    BY DEF MimoMatchesChains
  <2>1. Misc \notin owed /\ Chains \notin owed
    OBVIOUS
  <2>2. reg[Misc] = gpio
    BY <2>1 DEF RegistersFollowState, Agrees
  <2>3. PICK s \in StreamTable :
           reg[Chains] = ChainWrite(s)[2] /\ gpio.mimo = Mimo(s) /\ ~ThreeChains(s)
    BY <2>1 DEF ChainsInv
  <2>4. /\ \A d \in Directions :
             Cardinality({c \in reg[Chains] : c[1] = d}) = Cardinality(Live(s, d))
        /\ Cardinality(reg[Chains]) = Cardinality(Live(s, "rx")) + Cardinality(Live(s, "tx"))
    BY <2>3, ActiveCount
  <2>5. Mimo(s) = 1 <=> \E d \in Directions : Cardinality(Live(s, d)) = 2
    BY DEF Mimo
  <2> QED BY <2>2, <2>3, <2>4, <2>5 DEF ThreeChains
<1> QED BY <1>1, StreamInvariants, FollowState, PTL

-----------------------------------------------------------------------------
\* A call that counts no failure has made all its writes.
LEMMA AllWritten ==
    ASSUME NEW ws, NEW n, NEW taken, NEW k, NEW val,
           Len(ws) \in Nat, n \in 0..Len(ws), Write(ws, n, taken), Ends(ws, k, val),
           faults \in Nat, faults' = faults
    PROVE  k \notin owed'
<1>1. n = Len(ws)
  <2>1. n < Len(ws) => faults > 0 /\ faults' = faults - 1
    BY DEF Write
  <2> QED BY <2>1
<1>2. PICK i \in 1..Len(ws) : ws[i][1] = k
  BY DEF Ends, LastIs
<1>3. owed' = (owed \ {ws[j][1] : j \in 1..n}) \cup {ws[j][1] : j \in n + 1 .. Len(ws)}
  BY DEF Write
<1>4. n + 1 .. Len(ws) = {}
  BY <1>1
<1> QED BY <1>1, <1>2, <1>3, <1>4

\* A filter or a streamer that was set leaves the right word, whatever failed
\* before.
THEOREM WordHeals == Spec => WholeWordHeals
<1>1. ASSUME TypeOK, RegistersFollowState, [Next]_vars, faults' = faults, SetFilter
      PROVE  reg'[Misc] = gpio'
  <2>1. PICK g : \E n \in 0..1, taken \in BOOLEAN : Write(<<Poke(g)>>, n, taken)
    BY <1>1 DEF SetFilter
  <2>2. PICK n \in 0..1, taken \in BOOLEAN : Write(<<Poke(g)>>, n, taken)
    BY <2>1
  <2>3. Poke(g)[1] = Misc
    BY DEF Poke
  <2>4. Len(<<Poke(g)>>) = 1 /\ Ends(<<Poke(g)>>, Misc, Poke(g)[2])
    BY <2>3, EndsShort, Short
  <2>5. Misc \notin owed'
    BY <1>1, <2>2, <2>4, AllWritten DEF TypeOK
  <2> QED BY <1>1, <2>5, FilterStep DEF RegistersFollowState, Agrees
<1>2. ASSUME TypeOK, RegistersFollowState, faults' = faults,
             NEW d \in Directions, NEW S \in Streams, OpenStream(d, S)
      PROVE  reg'[Misc] = gpio'
  <2> DEFINE g == [gpio EXCEPT !.mimo = Mimo(Stored(d, S, S))]
             ws == EnableWrites(Stored(d, S, S), g)
  <2>1. PICK n \in 0..Len(ws), taken \in BOOLEAN : Write(ws, n, taken)
    BY <1>2 DEF OpenStream
  <2>2. Len(ws) \in Nat /\ Ends(ws, Misc, g)
    BY EnableList
  <2> HIDE DEF ws, g
  <2>3. Misc \notin owed'
    BY <1>2, <2>1, <2>2, AllWritten DEF TypeOK
  <2> QED BY <1>2, <2>3, OpenStep DEF RegistersFollowState, Agrees
<1>3. TypeOK /\ RegistersFollowState /\ [Next]_vars
      => [reg'[Misc] # gpio' /\ faults' = faults
          => ~SetFilter /\ \A d \in Directions, S \in Streams : ~OpenStream(d, S)]_vars
  BY <1>1, <1>2
<1> QED BY <1>3, TypeCorrect, FollowState, PTL DEF Spec, WholeWordHeals
=============================================================================
