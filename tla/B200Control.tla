---------------------------- MODULE B200Control ----------------------------
(***************************************************************************)
(* The control side of b200_impl (uhd-overlay/.../b200/b200_impl.cpp) once  *)
(* the constructor has returned: what the host remembers (_gpio_state,      *)
(* _time_source, _tick_rate, the antennas, the streamers it holds weakly)   *)
(* against what it wrote to the card, when any write may fail.             *)
(*                                                                         *)
(* One action is one call into the property tree or the streamer interface, *)
(* a sequence of register writes among them.  A write that throws (the docs *)
(* know "fifo ctrl timed out", applications.md:60) may have reached the     *)
(* card or not; the rest of the call does not happen.  The board is a B210: *)
(* the constructor says so whatever it found (314).  The branches for the   *)
(* B200mini and the B205mini cannot be reached and are left out.            *)
(***************************************************************************)
EXTENDS Naturals, Sequences, FiniteSets, FiniteSetsExt

CONSTANTS
    Radios,         \* radio chains the FPGA reports: {0} or {0, 1}
    Streams,        \* sets of radios an application opens a streamer on
    RxFilters, TxFilters,   \* filters in front of the AD9361
    TimeSources,    \* those an application asks for
    Rates,          \* master clock rates an application asks for
    Situations,     \* an application's kinds of calls, what _gps is, and a
                    \* bound: how many calls fail in a write
    MinRate, MaxRate,   \* limits of the AD9361 for one channel
    InitialRate     \* master_clock_rate, or the default

ASSUME RadiosAssumption == Radios \in {{0}, {0, 1}} /\ Streams \subseteq (SUBSET Radios) \ {{}}
ASSUME ValuesAssumption ==
    /\ "c" \in RxFilters /\ "b" \in TxFilters /\ "internal" \in TimeSources
    /\ InitialRate \in Rates /\ Rates \subseteq Nat
    /\ \A s \in Situations : s[3] \in Nat

VARIABLES
    app,        \* the application
    gps,        \* "absent": no object; "silent": it heard nothing; "present"
    gpio,       \* _gpio_state; swap_atr stays 1 and codec_arst 0
    time,       \* _time_source
    tick,       \* _tick_rate
    ant,        \* ant_rx2 of each radio
    stream,     \* stream[d][r]: radios of the live streamer radio r holds, or {}
    clock,      \* history: source of the last update_clock_source, "none" if a
                \* write of that call threw
    reg,        \* registers of the FPGA, the ADF4001 and the AD9361
    owed,       \* registers whose last write threw or was never reached
    faults      \* calls that may still fail

vars == <<app, gps, gpio, time, tick, ant, stream, clock, reg, owed, faults>>
host == <<app, gps, gpio, time, tick, ant, stream, clock>>

Directions == {"rx", "tx"}

Misc == <<"SR_CORE_MISC", 0>>
Sync == <<"SR_CORE_SYNC", 0>>
Lock == <<"ADF4001", 0>>
Rate == <<"AD9361 clock", 0>>
Chains == <<"AD9361 chains", 0>>
Core(r) == <<"time core", r>>
Atr(r) == <<"SR_ATR", r>>

Registers == {Misc, Sync, Lock, Rate, Chains}
             \cup {Core(r) : r \in Radios} \cup {Atr(r) : r \in Radios}

-----------------------------------------------------------------------------
\* A call makes the writes ws, n of them without an exception.  When the next
\* one throws, the card may have taken it all the same.
Write(ws, n, taken) ==
    LET done == {ws[i][1] : i \in 1..n}
        seen == IF taken THEN n + 1 ELSE n
        Last(k) == Max({0} \cup {i \in 1..seen : ws[i][1] = k})
    IN  /\ n < Len(ws) \/ ~taken
        /\ n < Len(ws) => faults > 0
        /\ faults' = IF n < Len(ws) THEN faults - 1 ELSE faults
        /\ reg' = [k \in Registers |-> LET i == Last(k) IN IF i = 0 THEN reg[k] ELSE ws[i][2]]
        /\ owed' = (owed \ done) \cup {ws[i][1] : i \in n + 1 .. Len(ws)}

\* update_gpio_state: the word packs the whole of _gpio_state, one bit per field
\* and filter.
Poke(g) == <<Misc, g>>

\* Radios with a live streamer.
Live(s, d) == {r \in Radios : s[d][r] # {}}

\* _fe1 = 1 and _fe2 = 0: radio 1 is the first frontend of the AD9361.
Frontend(r) == IF r = 1 THEN 1 ELSE 2

Off == <<"OFF">>

\* The switch settings of radio r for receiving, sending and both at a time.
Switches(r, rx, tx) ==
    [rx_only |-> rx, tx_only |-> tx,
     full_duplex |-> IF rx = Off THEN tx ELSE IF tx = Off THEN rx ELSE <<"FDX", Frontend(r)>>]

RxPath(s, r, antenna) == IF r \in Live(s, "rx") THEN <<"RX", Frontend(r), antenna>> ELSE Off
TxPath(s, r) == IF r \in Live(s, "tx") THEN <<"TX", Frontend(r)>> ELSE Off

\* Mutant: the receiver stays on its own connector.
AtrWord_OneAntenna(s, a, r) == Switches(r, RxPath(s, r, "RX2"), TxPath(s, r))

\* With both directions the code ignores the antenna.  Idle is always off.
AtrWord(s, a, r) == Switches(r, RxPath(s, r, a[r]), TxPath(s, r))

\* update_atrs: _fe1 first, then _fe2.
AtrWrites(s, a) ==
    LET To(r) == <<Atr(r), AtrWord(s, a, r)>>
    IN  IF 1 \in Radios THEN <<To(1), To(0)>> ELSE <<To(0)>>

-----------------------------------------------------------------------------
Init ==
    /\ \E s \in Situations : app = s[1] /\ gps = s[2] /\ faults = s[3]
    /\ gpio = [ref |-> 0, mimo |-> 0, rx |-> "c", tx |-> "b"]
    /\ time = "internal"
    /\ tick = InitialRate
    /\ ant = [r \in Radios |-> "RX2"]
    /\ stream = [d \in Directions |-> [r \in Radios |-> {}]]
    /\ clock = "internal"
    /\ reg = [k \in Registers |->
                CASE k = Misc -> gpio
                  [] k = Sync -> [pulse |-> FALSE, src |-> "internal"]
                  [] k = Lock -> FALSE
                  [] k = Chains -> {}
                  [] k \in {Rate} \cup {Core(r) : r \in Radios} -> tick
                  [] OTHER -> AtrWord(stream, ant, k[2])]
    /\ owed = {}

-----------------------------------------------------------------------------
\* Mutant: coming back from the GPSDO does not move the switch.
RefSel_OneWay(source) == IF source = "gpsdo" THEN 1 ELSE gpio.ref

\* Position of the reference switch that a clock source wants; the internal
\* one leaves it where it is.
RefSel(source) ==
    CASE source = "gpsdo" -> 1
      [] source = "external" -> 0
      [] OTHER -> gpio.ref

\* update_clock_source.  The GPSDO needs one detected; else nothing happens.
\* The state changes before the word is written, the word only if it changed.
SetClockSource(source) ==
    LET g == [gpio EXCEPT !.ref = RefSel(source)]
        ws == (IF g # gpio THEN <<Poke(g)>> ELSE <<>>) \o << <<Lock, source # "internal">> >>
    IN  /\ source = "gpsdo" => gps = "present"
        /\ gpio' = g
        /\ \E n \in 0..Len(ws), taken \in BOOLEAN :
              /\ Write(ws, n, taken)
              /\ clock' = IF n = Len(ws) THEN source ELSE "none"
        /\ UNCHANGED <<app, gps, time, tick, ant, stream>>

\* update_time_source: a GPSDO object is enough here.  Only a change is written,
\* and remembered when the write has returned.
SetTimeSource(source) ==
    LET ws == IF time = source THEN <<>>
              ELSE << <<Sync, [pulse |-> FALSE, src |-> source]>> >>
    IN  /\ source = "gpsdo" => gps # "absent"
        /\ \E n \in 0..Len(ws), taken \in BOOLEAN :
              /\ Write(ws, n, taken)
              /\ time' = IF n = Len(ws) THEN source ELSE time
        /\ UNCHANGED <<app, gps, gpio, tick, ant, stream, clock>>

\* set_time: the times to load (left out), then a pulse for all radios.
SyncWrites(src) ==
    << <<Sync, [pulse |-> TRUE, src |-> src]>>, <<Sync, [pulse |-> FALSE, src |-> src]>> >>

SetTime ==
    /\ \E n \in 0..2, taken \in BOOLEAN : Write(SyncWrites(time), n, taken)
    /\ UNCHANGED host

-----------------------------------------------------------------------------
\* Mutant: the limit for two channels is forgotten.
RateAllowed_OneLimit(chans, rate) == chans <= 2 /\ MinRate <= rate /\ rate <= MaxRate

\* enforce_tick_rate_limits: two channels halve both limits.
RateAllowed(chans, rate) ==
    LET share == IF chans <= 1 THEN 1 ELSE 2
    IN  chans <= 2 /\ MinRate <= share * rate /\ share * rate <= MaxRate

\* check_tick_rate_with_current_streamers: the widest streamer of a direction.
Widest(d) == Max({Cardinality(stream[d][r]) : r \in Radios})

\* Mutant: only the first radio hears of the new rate.
CoreWrites_First(rate) == << <<Core(0), rate>> >>

\* Every radio's time core is set and tested.
CoreWrites(rate) ==
    IF 1 \in Radios THEN << <<Core(0), rate>>, <<Core(1), rate>> >> ELSE << <<Core(0), rate>> >>

\* The property tick_rate: set_tick_rate, then its subscriber sync_times.  The
\* rate is remembered before the time cores have it.
SetTickRate(rate) ==
    LET new == rate # tick
        ws == (IF new THEN << <<Rate, rate>> >> \o CoreWrites(rate) ELSE <<>>)
              \o SyncWrites(time)
    IN  /\ \A d \in Directions : RateAllowed(Widest(d), rate)
        /\ \E n \in 0..Len(ws), taken \in BOOLEAN :
              /\ Write(ws, n, taken)
              /\ tick' = IF new /\ n >= 1 THEN rate ELSE tick
        /\ UNCHANGED <<app, gps, gpio, time, ant, stream, clock>>

-----------------------------------------------------------------------------
\* update_bandsel, from a subscriber of either direction's frequency.
SetFilter ==
    \E g \in {[gpio EXCEPT !.rx = f] : f \in RxFilters} \cup {[gpio EXCEPT !.tx = f] : f \in TxFilters} :
        /\ gpio' = g
        /\ \E n \in 0..1, taken \in BOOLEAN : Write(<<Poke(g)>>, n, taken)
        /\ UNCHANGED <<app, gps, time, tick, ant, stream, clock>>

\* update_antenna_sel
SetAntenna(r, a) ==
    LET ws == AtrWrites(stream, ant')
    IN  /\ ant' = [ant EXCEPT ![r] = a]
        /\ \E n \in 0..Len(ws), taken \in BOOLEAN : Write(ws, n, taken)
        /\ UNCHANGED <<app, gps, gpio, time, tick, stream, clock>>

\* The streamer of direction d on the radios S is stored, or gone again.
Stored(d, S, held) ==
    [stream EXCEPT ![d] = [r \in Radios |-> IF r \in S THEN held ELSE stream[d][r]]]

ThreeChains(s) == Cardinality(Live(s, "rx")) + Cardinality(Live(s, "tx")) = 3

\* Mutant: only the receivers are looked at.
Mimo_RxOnly(s) == IF Cardinality(Live(s, "rx")) = 2 THEN 1 ELSE 0

\* Mutant: the field of one bit gets the number of channels.
Mimo_Counts(s) == Max({Cardinality(Live(s, d)) : d \in Directions})

Mimo(s) == IF \E d \in Directions : Cardinality(Live(s, d)) = 2 THEN 1 ELSE 0

\* set_active_chains
ChainWrite(s) ==
    <<Chains, {<<p[1], Frontend(p[2])>> :
                 p \in {p \in Directions \X Radios : s[p[1]][p[2]] # {}}}>>

\* Mutant: the word is written only if mimo changed.
EnableWrites_Cached(s, g) ==
    <<ChainWrite(s)>> \o (IF g = gpio THEN <<>> ELSE <<Poke(g)>>) \o AtrWrites(s, ant)

\* What update_enables writes.  Its branch for no streamer at all is not reached
\* from here: there is one, the new one.
EnableWrites(s, g) == <<ChainWrite(s), Poke(g)>> \o AtrWrites(s, ant)

\* get_rx_stream and get_tx_stream check the rate, store the streamer and call
\* update_enables.  An exception on the way destroys the new streamer.
OpenStream(d, S) ==
    LET s == Stored(d, S, S)
        g == [gpio EXCEPT !.mimo = Mimo(s)]
        ws == EnableWrites(s, g)
    IN  /\ RateAllowed(Cardinality(S), tick)
        /\ ~ThreeChains(s)
        /\ \E n \in 0..Len(ws), taken \in BOOLEAN :
              /\ Write(ws, n, taken)
              /\ gpio' = IF n >= 1 THEN g ELSE gpio
              /\ stream' = IF n = Len(ws) THEN s ELSE Stored(d, S, {})
        /\ UNCHANGED <<app, gps, time, tick, ant, clock>>

\* update_enables refuses three chains before it has written anything.
RefuseThreeChains(d, S) ==
    /\ RateAllowed(Cardinality(S), tick)
    /\ ThreeChains(Stored(d, S, S))
    /\ stream' = Stored(d, S, {})
    /\ UNCHANGED <<app, gps, gpio, time, tick, ant, clock, reg, owed, faults>>

\* The application lets go of a streamer; the card is not told.
CloseStream(d, S) ==
    /\ S # {} /\ \E r \in Radios : stream[d][r] = S
    /\ stream' = [stream EXCEPT ![d] = [r \in Radios |-> IF @[r] = S THEN {} ELSE @[r]]]
    /\ UNCHANGED <<app, gps, gpio, time, tick, ant, clock, reg, owed, faults>>

Next ==
    \/ /\ "clock" \in app
       /\ \E source \in {"internal", "external", "gpsdo"} : SetClockSource(source)
    \/ /\ "time" \in app
       /\ SetTime \/ \E source \in TimeSources : SetTimeSource(source)
    \/ /\ "rate" \in app
       /\ \E rate \in Rates : SetTickRate(rate)
    \/ /\ "filter" \in app
       /\ SetFilter
    \/ /\ "antenna" \in app
       /\ \E r \in Radios, a \in {"TX/RX", "RX2"} : SetAntenna(r, a)
    \/ /\ "stream" \in app
       /\ \E d \in Directions, S \in Streams :
             OpenStream(d, S) \/ RefuseThreeChains(d, S) \/ CloseStream(d, S)

Spec == Init /\ [][Next]_vars

-----------------------------------------------------------------------------
Agrees(k, val) == k \in owed \/ reg[k] = val

\* Whatever calls succeeded or failed, in whatever order: a register differs
\* from what the host remembers only while a write of it is owed, that is from
\* a call that threw to the next write of the same register.
RegistersFollowState ==
    /\ Agrees(Misc, gpio)
    /\ Agrees(Sync, [pulse |-> FALSE, src |-> time])
    /\ Agrees(Rate, tick)
    /\ \A r \in Radios : Agrees(Core(r), tick)

\* While the last clock source asked for was accepted, the ADF4001 locks or not as that
\* source wants, and the host remembers the switch on its input, although the internal
\* source leaves the switch alone.  The switch itself is there too, unless a write of its
\* word is owed: then a call may have been accepted that found its position remembered and
\* wrote nothing, and the AD9361 runs from the other input until the word is written again.
AcceptedClockIsSet ==
    clock # "none" =>
        /\ reg[Lock] = (clock # "internal")
        /\ clock = "external" => gpio.ref = 0
        /\ clock = "gpsdo" => gpio.ref = 1 /\ gps = "present"
        /\ Misc \in owed \/ reg[Misc].ref = gpio.ref

\* Unless a write of the word or of the chains is owed, the FPGA interleaves two channels
\* exactly when the AD9361 runs two of one direction, and never is it asked for three.
MimoMatchesChains ==
    owed \cap {Misc, Chains} = {} =>
        LET Running(d) == {c \in reg[Chains] : c[1] = d}
        IN  /\ reg[Misc].mimo = 1 <=> \E d \in Directions : Cardinality(Running(d)) = 2
            /\ Cardinality(reg[Chains]) # 3

\* A streamer the device knows has its chain running and its switches on the antenna
\* asked for, whatever became of the other streamers: refused calls included, and failed
\* ones but for the radio's registers a write is still owed to.
LiveStreamIsConnected ==
    \A r \in Radios : owed \cap {Chains, Atr(r)} = {} =>
        /\ stream["rx"][r] # {} =>
              /\ <<"rx", Frontend(r)>> \in reg[Chains]
              /\ reg[Atr(r)].rx_only = <<"RX", Frontend(r), ant[r]>>
        /\ stream["tx"][r] # {} =>
              /\ <<"tx", Frontend(r)>> \in reg[Chains]
              /\ reg[Atr(r)].tx_only = <<"TX", Frontend(r)>>

\* Streamers and clock rate are checked against each other whichever comes
\* first: no streamer lives above the rate its channels allow.  (Below it may:
\* the lower limit is checked for the widest streamer only, which may go first.)
RateWithinLimits ==
    \A d \in Directions, r \in Radios :
        Cardinality(stream[d][r]) = 2 => 2 * tick <= MaxRate

\* Calls that rewrite the whole word repair what an earlier failure left: after
\* a filter or a streamer was set the word is right.  (A clock source that finds
\* its switch already remembered, a time source and a rate that are not new do
\* not write, so repeating them repairs nothing.)
WholeWordHeals ==
    [][reg'[Misc] # gpio' /\ faults' = faults
        => ~SetFilter /\ \A d \in Directions, S \in Streams : ~OpenStream(d, S)]_vars

\* Every field of the word fits its bits and every value is one that was asked for.
TypeOK ==
    /\ gpio \in [ref : 0..1, mimo : 0..1, rx : RxFilters, tx : TxFilters]
    /\ time \in TimeSources /\ tick \in Rates
    /\ ant \in [Radios -> {"TX/RX", "RX2"}]
    /\ stream \in [Directions -> [Radios -> SUBSET Radios]]
    /\ owed \subseteq Registers /\ DOMAIN reg = Registers
    /\ faults \in Nat
=============================================================================
