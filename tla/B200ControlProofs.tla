-------------------------- MODULE B200ControlProofs --------------------------
(***************************************************************************)
(* B200Control: whatever calls fail wherever, a register differs from what  *)
(* the host remembers only while a write of it is owed.                    *)
(***************************************************************************)
EXTENDS B200Control, SequenceTheorems, TLAPS

\* The registers the host remembers, and the others, are different ones.
LEMMA Keys ==
    /\ Misc \in Registers /\ Sync \in Registers /\ Rate \in Registers /\ Lock \in Registers
    /\ Chains \in Registers /\ \A r \in Radios : Core(r) \in Registers /\ Atr(r) \in Registers
    /\ Misc # Sync /\ Misc # Rate /\ Misc # Lock /\ Misc # Chains
    /\ Sync # Rate /\ Sync # Lock /\ Sync # Chains /\ Rate # Lock /\ Rate # Chains
    /\ Lock # Chains
    /\ \A r, s \in Radios :
          /\ Core(r) \notin {Misc, Sync, Rate, Lock, Chains}
          /\ Atr(r) \notin {Misc, Sync, Rate, Lock, Chains}
          /\ Core(r) # Atr(s) /\ (Core(r) = Core(s) => r = s) /\ (Atr(r) = Atr(s) => r = s)
  BY DEF Registers, Misc, Sync, Rate, Lock, Chains, Core, Atr

\* The last write of register k in the list ws is the i-th; none is.
LastIs(ws, k, i) ==
    i \in 1..Len(ws) /\ ws[i][1] = k /\ \A j \in i + 1 .. Len(ws) : ws[j][1] # k

Absent(ws, k) == \A i \in 1..Len(ws) : ws[i][1] # k

\* Two lists after each other, index by index.
LEMMA Cat ==
    ASSUME NEW S, NEW s \in Seq(S), NEW t \in Seq(S)
    PROVE  /\ s \o t \in Seq(S) /\ Len(s \o t) = Len(s) + Len(t)
           /\ Len(s) \in Nat /\ Len(t) \in Nat
           /\ \A i \in 1 .. Len(s) + Len(t) : (s \o t)[i] = IF i <= Len(s) THEN s[i] ELSE t[i - Len(s)]
  BY ConcatProperties, LenProperties

\* A register neither list writes.
LEMMA CatAbsent ==
    ASSUME NEW S, NEW s \in Seq(S), NEW t \in Seq(S), NEW k, Absent(s, k), Absent(t, k)
    PROVE  Absent(s \o t, k)
<1> DEFINE st == s \o t
           m == Len(s)
           n == Len(t)
<1>1. Len(st) = m + n /\ m \in Nat /\ n \in Nat
      /\ \A i \in 1 .. m + n : st[i] = IF i <= m THEN s[i] ELSE t[i - m]
  BY Cat
<1> HIDE DEF st
<1> SUFFICES ASSUME NEW i \in 1 .. m + n PROVE st[i][1] # k
  BY <1>1 DEF Absent, st
<1>2. CASE i <= m
  BY <1>1, <1>2 DEF Absent
<1>3. CASE ~(i <= m)
  <2>1. i - m \in 1..n BY <1>1, <1>3
  <2> QED BY <1>1, <1>3, <2>1 DEF Absent
<1> QED BY <1>2, <1>3

\* A register only the first list writes.
LEMMA CatFirst ==
    ASSUME NEW S, NEW s \in Seq(S), NEW t \in Seq(S), NEW k, NEW i \in Nat,
           LastIs(s, k, i), Absent(t, k)
    PROVE  LastIs(s \o t, k, i) /\ (s \o t)[i] = s[i]
<1> DEFINE st == s \o t
           m == Len(s)
           n == Len(t)
<1>1. Len(st) = m + n /\ m \in Nat /\ n \in Nat
      /\ \A j \in 1 .. m + n : st[j] = IF j <= m THEN s[j] ELSE t[j - m]
  BY Cat
<1> HIDE DEF st
<1>2. i \in 1..m /\ i \in 1 .. m + n /\ st[i] = s[i]
  BY <1>1 DEF LastIs
<1>3. ASSUME NEW j \in i + 1 .. m + n PROVE st[j][1] # k
  <2>1. j \in 1 .. m + n BY <1>1
  <2>2. CASE j <= m
    BY <1>1, <2>1, <2>2 DEF LastIs
  <2>3. CASE ~(j <= m)
    <3>1. j - m \in 1..n BY <1>1, <2>3
    <3> QED BY <1>1, <2>1, <2>3, <3>1 DEF Absent
  <2> QED BY <2>2, <2>3
<1>4. LastIs(st, k, i)
  BY <1>1, <1>2, <1>3 DEF LastIs
<1> QED BY <1>2, <1>4 DEF st

\* A register whose last write is in the second list.
LEMMA CatSecond ==
    ASSUME NEW S, NEW s \in Seq(S), NEW t \in Seq(S), NEW k, NEW i \in Nat,
           LastIs(t, k, i)
    PROVE  LastIs(s \o t, k, Len(s) + i) /\ (s \o t)[Len(s) + i] = t[i]
<1> DEFINE st == s \o t
           m == Len(s)
           n == Len(t)
<1>1. Len(st) = m + n /\ m \in Nat /\ n \in Nat
      /\ \A j \in 1 .. m + n : st[j] = IF j <= m THEN s[j] ELSE t[j - m]
  BY Cat
<1> HIDE DEF st
<1>2. i \in 1..n /\ m + i \in 1 .. m + n /\ ~(m + i <= m) /\ m + i - m = i
  BY <1>1 DEF LastIs
<1>3. st[m + i] = t[i]
  BY <1>1, <1>2
<1>4. ASSUME NEW j \in m + i + 1 .. m + n PROVE st[j][1] # k
  <2>1. j \in 1 .. m + n /\ ~(j <= m) /\ j - m \in i + 1 .. n BY <1>1
  <2>2. st[j] = t[j - m] BY <1>1, <2>1
  <2> QED BY <2>1, <2>2 DEF LastIs
<1>5. LastIs(st, k, m + i)
  BY <1>1, <1>2, <1>3, <1>4 DEF LastIs
<1> QED BY <1>3, <1>5 DEF st

\* A call leaves a register it does not write as it was, owed or not.
LEMMA NotWritten ==
    \A ws, n, taken, k :
        /\ Len(ws) \in Nat /\ n \in 0..Len(ws)
        /\ Absent(ws, k) /\ Write(ws, n, taken)
        => (k \in Registers => reg'[k] = reg[k]) /\ (k \in owed' <=> k \in owed)
<1> TAKE ws, n, taken, k
<1> HAVE /\ Len(ws) \in Nat /\ n \in 0..Len(ws)
         /\ Absent(ws, k) /\ Write(ws, n, taken)
<1> DEFINE seen == IF taken THEN n + 1 ELSE n
           Last == Max({0} \cup {i \in 1..seen : ws[i][1] = k})
<1>1. seen <= Len(ws)
  BY DEF Write
<1>2. {0} \cup {i \in 1..seen : ws[i][1] = k} = {0}
  BY <1>1 DEF Absent
<1>3. Last = 0
  BY <1>2 DEF Max
<1>4. k \in Registers => reg'[k] = IF Last = 0 THEN reg[k] ELSE ws[Last][2]
  BY DEF Write
<1>5. k \in owed' <=> k \in owed
  BY DEF Write, Absent
<1> QED BY <1>3, <1>4, <1>5

\* A call that writes no registers but those of S, and owes no others.
Only(S) ==
    /\ \A k \in Registers \ S : reg'[k] = reg[k]
    /\ \A k : k \notin S => (k \in owed' <=> k \in owed)

\* A list that writes only registers of S.
LEMMA OnlyThese ==
    \A ws, n, taken, S :
        /\ Len(ws) \in Nat /\ n \in 0..Len(ws)
        /\ \A k : k \notin S => Absent(ws, k)
        /\ Write(ws, n, taken)
        => Only(S)
<1> TAKE ws, n, taken, S
<1> HAVE /\ Len(ws) \in Nat /\ n \in 0..Len(ws)
         /\ \A k : k \notin S => Absent(ws, k)
         /\ Write(ws, n, taken)
<1>1. ASSUME NEW k, k \notin S
      PROVE  (k \in Registers => reg'[k] = reg[k]) /\ (k \in owed' <=> k \in owed)
  BY <1>1, NotWritten
<1> QED BY <1>1 DEF Only

\* A register whose last write is the i-th has that value, unless it is owed;
\* then the call came past its i-th write.
LEMMA Written ==
    \A ws, n, taken, k, i :
        /\ Len(ws) \in Nat /\ n \in 0..Len(ws) /\ k \in Registers
        /\ LastIs(ws, k, i) /\ Write(ws, n, taken) /\ k \notin owed'
        => i <= n /\ reg'[k] = ws[i][2]
<1> TAKE ws, n, taken, k, i
<1> HAVE /\ Len(ws) \in Nat /\ n \in 0..Len(ws) /\ k \in Registers
         /\ LastIs(ws, k, i) /\ Write(ws, n, taken) /\ k \notin owed'
<1> DEFINE seen == IF taken THEN n + 1 ELSE n
           S == {0} \cup {j \in 1..seen : ws[j][1] = k}
<1>1. seen \in Nat /\ n <= seen /\ seen <= Len(ws)
  BY DEF Write
<1>2. i <= n
  BY DEF Write, LastIs
<1>3. i \in S
  BY <1>1, <1>2 DEF LastIs
<1>4. \A j \in S : j \in Nat /\ j <= i
  BY <1>1 DEF LastIs
<1>5. Max(S) = i
  BY <1>3, <1>4 DEF Max
<1>6. reg'[k] = IF Max(S) = 0 THEN reg[k] ELSE ws[Max(S)][2]
  BY DEF Write
<1> QED BY <1>2, <1>5, <1>6 DEF LastIs

-----------------------------------------------------------------------------
\* The lists of one and of two writes.
LEMMA Short ==
    /\ \A x : /\ <<x>> \in Seq({x}) /\ Len(<<x>>) = 1 /\ <<x>>[1] = x
              /\ LastIs(<<x>>, x[1], 1) /\ \A k : k # x[1] => Absent(<<x>>, k)
    /\ \A x, y :
          /\ <<x, y>> \in Seq({x, y}) /\ Len(<<x, y>>) = 2
          /\ <<x, y>>[1] = x /\ <<x, y>>[2] = y
          /\ LastIs(<<x, y>>, y[1], 2) /\ (x[1] # y[1] => LastIs(<<x, y>>, x[1], 1))
          /\ \A k : k # x[1] /\ k # y[1] => Absent(<<x, y>>, k)
<1>1. \A x : <<x>> \in Seq({x}) /\ Len(<<x>>) = 1 /\ <<x>>[1] = x
  OBVIOUS
<1>2. \A x, y : <<x, y>> \in Seq({x, y}) /\ Len(<<x, y>>) = 2
                /\ <<x, y>>[1] = x /\ <<x, y>>[2] = y
  OBVIOUS
<1>3. \A x : LastIs(<<x>>, x[1], 1) /\ \A k : k # x[1] => Absent(<<x>>, k)
  BY <1>1 DEF LastIs, Absent
<1>4. ASSUME NEW x, NEW y
      PROVE  /\ LastIs(<<x, y>>, y[1], 2) /\ (x[1] # y[1] => LastIs(<<x, y>>, x[1], 1))
             /\ \A k : k # x[1] /\ k # y[1] => Absent(<<x, y>>, k)
  <2>1. \A i \in 1..2 : i = 1 \/ i = 2
    OBVIOUS
  <2> QED BY <1>2, <2>1 DEF LastIs, Absent
<1> QED BY <1>1, <1>2, <1>3, <1>4

\* What a call with the writes ws means for a register k: not written, it agrees
\* with what it agreed with; written, it has the last value unless owed.
LEMMA Outcome ==
    \A ws, n, taken, k :
        Len(ws) \in Nat /\ n \in 0..Len(ws) /\ k \in Registers /\ Write(ws, n, taken) =>
            /\ \A v : Absent(ws, k) /\ Agrees(k, v) => k \in owed' \/ reg'[k] = v
            /\ \A i : LastIs(ws, k, i) => k \in owed' \/ (i <= n /\ reg'[k] = ws[i][2])
  BY NotWritten, Written DEF Agrees

\* The ATR registers are the only ones update_atrs writes.
LEMMA OnlyAtr ==
    \A s, a :
        /\ AtrWrites(s, a) \in Seq({<<Atr(0), AtrWord(s, a, 0)>>, <<Atr(1), AtrWord(s, a, 1)>>})
        /\ Len(AtrWrites(s, a)) \in Nat
        /\ \A k : (\A r \in Radios : k # Atr(r)) => Absent(AtrWrites(s, a), k)
<1> TAKE s, a
<1> DEFINE To(r) == <<Atr(r), AtrWord(s, a, r)>>
<1>1. 0 \in Radios
  BY RadiosAssumption
<1>2. AtrWrites(s, a) = IF 1 \in Radios THEN <<To(1), To(0)>> ELSE <<To(0)>>
  BY DEF AtrWrites
<1>3. To(0)[1] = Atr(0) /\ To(1)[1] = Atr(1)
  OBVIOUS
<1> HIDE DEF To
<1>4. CASE 1 \in Radios
  <2>1. <<To(1), To(0)>> \in Seq({To(0), To(1)})
    OBVIOUS
  <2> QED BY <1>1, <1>2, <1>3, <1>4, <2>1, Short DEF To
<1>5. CASE 1 \notin Radios
  <2>1. <<To(0)>> \in Seq({To(0), To(1)})
    OBVIOUS
  <2> QED BY <1>1, <1>2, <1>3, <1>5, <2>1, Short DEF To
<1> QED BY <1>4, <1>5

-----------------------------------------------------------------------------
\* The registers of the radios.
AtrRegisters == {Atr(r) : r \in Radios}
CoreRegisters == {Core(r) : r \in Radios}

\* The clock source writes the word if it changes it, and then always the
\* ADF4001: a call that was accepted has told it.
LEMMA ClockStep ==
    \A source : RegistersFollowState /\ SetClockSource(source) =>
        /\ RegistersFollowState' /\ Only({Misc, Lock})
        /\ clock' # "none" =>
              clock' = source /\ Lock \notin owed' /\ reg'[Lock] = (source # "internal")
<1> TAKE source
<1> HAVE RegistersFollowState /\ SetClockSource(source)
<1> DEFINE g == [gpio EXCEPT !.ref = RefSel(source)]
           lock == <<Lock, source # "internal">>
           first == IF g # gpio THEN <<Poke(g)>> ELSE <<>>
           ws == first \o <<lock>>
<1>1. /\ gpio' = g /\ time' = time /\ tick' = tick
      /\ \E n \in 0..Len(ws), taken \in BOOLEAN :
            Write(ws, n, taken) /\ clock' = IF n = Len(ws) THEN source ELSE "none"
  BY DEF SetClockSource
<1>2. Poke(g)[1] = Misc /\ Poke(g)[2] = g /\ lock[1] = Lock /\ lock[2] = (source # "internal")
  BY DEF Poke
<1> HIDE DEF g, lock
<1>3. first \in Seq({Poke(g), lock}) /\ <<lock>> \in Seq({Poke(g), lock})
  <2>1. <<Poke(g)>> \in Seq({Poke(g), lock}) /\ <<>> \in Seq({Poke(g), lock})
    OBVIOUS
  <2>2. <<lock>> \in Seq({Poke(g), lock})
    OBVIOUS
  <2> QED BY <2>1, <2>2
<1>4. /\ \A k : k # Misc => Absent(first, k)
      /\ g = gpio => Absent(first, Misc)
      /\ g # gpio => LastIs(first, Misc, 1) /\ first[1][2] = g
      /\ \A k : k # Lock => Absent(<<lock>>, k)
  <2>1. \A k : Absent(<<>>, k)
    BY DEF Absent
  <2> QED BY <1>2, <2>1, Short
<1> HIDE DEF first
<1>5. /\ Len(ws) \in Nat
      /\ \A k : k # Misc /\ k # Lock => Absent(ws, k)
      /\ g = gpio => Absent(ws, Misc)
      /\ g # gpio => LastIs(ws, Misc, 1) /\ ws[1][2] = g
  <2>1. Len(ws) \in Nat
    BY <1>3, Cat, Short
  <2>2. \A k : k # Misc /\ k # Lock => Absent(ws, k)
    BY <1>3, <1>4, CatAbsent
  <2>3. g = gpio => Absent(ws, Misc)
    BY <1>3, <1>4, CatAbsent, Keys
  <2>4. ASSUME g # gpio PROVE LastIs(ws, Misc, 1) /\ ws[1][2] = g
    <3>1. LastIs(first, Misc, 1) /\ first[1][2] = g /\ Absent(<<lock>>, Misc) /\ 1 \in Nat
      BY <1>4, <2>4, Keys
    <3>3. PICK i \in Nat : i = 1
      OBVIOUS
    <3>4. first \o <<lock>> = ws /\ LastIs(first, Misc, i)
      BY <3>1, <3>3
    <3>5. LastIs(ws, Misc, i) /\ ws[i] = first[i]
      BY <1>3, <3>1, <3>4, CatFirst
    <3> QED BY <3>1, <3>3, <3>5
  <2> QED BY <2>1, <2>2, <2>3, <2>4
<1>9. LastIs(ws, Lock, Len(ws)) /\ ws[Len(ws)][2] = (source # "internal")
  <2>1. PICK i \in Nat : i = 1
    OBVIOUS
  <2>2. LastIs(<<lock>>, Lock, i) /\ <<lock>>[i] = lock /\ Len(<<lock>>) = i
    BY <1>2, <2>1, Short
  <2>3. first \o <<lock>> = ws
    OBVIOUS
  <2>4. LastIs(ws, Lock, Len(first) + i) /\ ws[Len(first) + i] = lock
    BY <1>3, <2>2, <2>3, CatSecond
  <2>5. Len(ws) = Len(first) + i
    BY <1>3, <2>2, <2>3, Cat
  <2> QED BY <1>2, <2>4, <2>5
<1> HIDE DEF ws
<1>6. PICK n \in 0..Len(ws), taken \in BOOLEAN :
         Write(ws, n, taken) /\ clock' = IF n = Len(ws) THEN source ELSE "none"
  BY <1>1
<1>10. ASSUME clock' # "none"
       PROVE  clock' = source /\ Lock \notin owed' /\ reg'[Lock] = (source # "internal")
  <2>1. n = Len(ws) /\ clock' = source
    BY <1>6, <1>10
  <2>2. Len(ws) \in 1..n /\ ws[Len(ws)][1] = Lock /\ n + 1 .. Len(ws) = {}
    BY <1>5, <1>9, <2>1 DEF LastIs
  <2>3. Lock \notin owed'
    BY <1>6, <2>2 DEF Write
  <2>4. reg'[Lock] = ws[Len(ws)][2]
    BY <1>5, <1>6, <1>9, <2>3, Outcome, Keys
  <2> QED BY <1>9, <2>1, <2>3, <2>4
<1>7. Misc \in owed' \/ reg'[Misc] = gpio'
  BY <1>1, <1>5, <1>6, Outcome, Keys DEF RegistersFollowState
<1>8. \A v : \A k \in Registers : k # Misc /\ k # Lock /\ Agrees(k, v) => k \in owed' \/ reg'[k] = v
  BY <1>5, <1>6, Outcome
<1>11. RegistersFollowState'
  BY <1>1, <1>7, <1>8, Keys DEF RegistersFollowState, Agrees
<1>12. Only({Misc, Lock})
  BY <1>5, <1>6, OnlyThese
<1> QED BY <1>10, <1>11, <1>12

\* The time source is written and remembered, in that order.
LEMMA TimeStep ==
    \A source : RegistersFollowState /\ SetTimeSource(source) => RegistersFollowState' /\ Only({Sync})
<1> TAKE source
<1> HAVE RegistersFollowState /\ SetTimeSource(source)
<1> DEFINE w == <<Sync, [pulse |-> FALSE, src |-> source]>>
           ws == IF time = source THEN <<>> ELSE <<w>>
<1>1. gpio' = gpio /\ tick' = tick
  BY DEF SetTimeSource
<1>2. PICK n \in 0..Len(ws), taken \in BOOLEAN :
         Write(ws, n, taken) /\ time' = IF n = Len(ws) THEN source ELSE time
  BY DEF SetTimeSource
<1>3. w[1] = Sync /\ w[2] = [pulse |-> FALSE, src |-> source]
  OBVIOUS
<1> HIDE DEF w
<1>4. /\ Len(ws) \in Nat /\ \A k : k # Sync => Absent(ws, k)
      /\ time = source => Absent(ws, Sync)
      /\ time # source => LastIs(ws, Sync, 1) /\ ws[1] = w /\ Len(ws) = 1
  <2>1. Len(<<>>) = 0 /\ \A k : Absent(<<>>, k)
    BY DEF Absent
  <2> QED BY <1>3, <2>1, Short
<1> HIDE DEF ws
<1>5. Sync \in owed' \/ reg'[Sync] = [pulse |-> FALSE, src |-> time']
  <2>1. CASE time = source
    <3>1. time' = time BY <1>2, <2>1
    <3>2. Agrees(Sync, [pulse |-> FALSE, src |-> time]) BY DEF RegistersFollowState
    <3> QED BY <1>2, <1>4, <2>1, <3>1, <3>2, Outcome, Keys
  <2>2. CASE time # source
    <3>0. /\ Len(ws) \in Nat /\ n \in 0..Len(ws) /\ Sync \in Registers /\ Write(ws, n, taken)
          /\ LastIs(ws, Sync, 1) /\ ws[1] = w /\ Len(ws) = 1
      BY <1>2, <1>4, <2>2, Keys
    <3>a. \A i : LastIs(ws, Sync, i) => Sync \in owed' \/ (i <= n /\ reg'[Sync] = ws[i][2])
      BY <3>0, Outcome
    <3>1. Sync \in owed' \/ (1 <= n /\ reg'[Sync] = w[2])
      BY <3>0, <3>a
    <3>2. Sync \notin owed' => n = Len(ws)
      <4>1. n \in 0..1 BY <3>0
      <4> QED BY <3>0, <3>1, <4>1
    <3>3. Sync \notin owed' => time' = source
      BY <1>2, <3>2
    <3> QED BY <1>3, <3>1, <3>3
  <2> QED BY <2>1, <2>2
<1>6. \A v : \A k \in Registers : k # Sync /\ Agrees(k, v) => k \in owed' \/ reg'[k] = v
  BY <1>2, <1>4, Outcome
<1>9. Only({Sync})
  BY <1>2, <1>4, OnlyThese
<1>90. RegistersFollowState'
  BY <1>1, <1>5, <1>6, Keys DEF RegistersFollowState, Agrees
<1> QED BY <1>9, <1>90

\* A pulse ends with the word the host remembers.
LEMMA Pulse ==
    \A src :
        /\ SyncWrites(src) \in Seq({<<Sync, [pulse |-> TRUE, src |-> src]>>,
                                    <<Sync, [pulse |-> FALSE, src |-> src]>>})
        /\ Len(SyncWrites(src)) = 2 /\ LastIs(SyncWrites(src), Sync, 2)
        /\ SyncWrites(src)[2][2] = [pulse |-> FALSE, src |-> src]
        /\ \A k : k # Sync => Absent(SyncWrites(src), k)
<1> TAKE src
<1> DEFINE x == <<Sync, [pulse |-> TRUE, src |-> src]>>
           y == <<Sync, [pulse |-> FALSE, src |-> src]>>
<1>1. SyncWrites(src) = <<x, y>>
  BY DEF SyncWrites
<1>2. x[1] = Sync /\ y[1] = Sync /\ y[2] = [pulse |-> FALSE, src |-> src]
  OBVIOUS
<1> HIDE DEF x, y
<1>3. <<x, y>> \in Seq({x, y}) /\ Len(<<x, y>>) = 2 /\ <<x, y>>[2] = y
      /\ LastIs(<<x, y>>, Sync, 2) /\ \A k : k # Sync => Absent(<<x, y>>, k)
  BY <1>2, Short
<1> QED BY <1>1, <1>2, <1>3 DEF x, y

\* set_time touches only the pulse.
LEMMA PulseStep == RegistersFollowState /\ SetTime => RegistersFollowState' /\ Only({Sync})
<1> HAVE RegistersFollowState /\ SetTime
<1> DEFINE ws == SyncWrites(time)
<1>1. gpio' = gpio /\ tick' = tick /\ time' = time
  BY DEF SetTime, host
<1>2. PICK n \in 0..2, taken \in BOOLEAN : Write(ws, n, taken)
  BY DEF SetTime
<1>3. Len(ws) = 2 /\ LastIs(ws, Sync, 2) /\ ws[2][2] = [pulse |-> FALSE, src |-> time]
      /\ \A k : k # Sync => Absent(ws, k)
  BY Pulse
<1> HIDE DEF ws
<1>a. Len(ws) \in Nat /\ n \in 0..Len(ws) /\ Write(ws, n, taken)
  BY <1>2, <1>3
<1>4. \A v : \A k \in Registers : k # Sync /\ Agrees(k, v) => k \in owed' \/ reg'[k] = v
  BY <1>3, <1>a, Outcome
<1>b. \A i : LastIs(ws, Sync, i) => Sync \in owed' \/ reg'[Sync] = ws[i][2]
  BY <1>a, Outcome, Keys
<1>5. Sync \in owed' \/ reg'[Sync] = [pulse |-> FALSE, src |-> time]
  BY <1>3, <1>b
<1>9. Only({Sync})
  BY <1>3, <1>a, OnlyThese
<1>90. RegistersFollowState'
  BY <1>1, <1>4, <1>5, Keys DEF RegistersFollowState, Agrees
<1> QED BY <1>9, <1>90

-----------------------------------------------------------------------------
\* The last write of register k in ws is of the value val.
Ends(ws, k, val) == \E i \in Nat : LastIs(ws, k, i) /\ ws[i][2] = val

\* The last write of a concatenation is found in the second list, or in the
\* first if the second does not write the register.
LEMMA EndsCat ==
    ASSUME NEW S, NEW s \in Seq(S), NEW t \in Seq(S), NEW k, NEW val,
           Ends(t, k, val) \/ (Ends(s, k, val) /\ Absent(t, k))
    PROVE  Ends(s \o t, k, val)
<1>1. CASE Ends(t, k, val)
  <2>1. PICK i \in Nat : LastIs(t, k, i) /\ t[i][2] = val
    BY <1>1 DEF Ends
  <2>2. LastIs(s \o t, k, Len(s) + i) /\ (s \o t)[Len(s) + i] = t[i]
    BY <2>1, CatSecond
  <2>3. Len(s) + i \in Nat
    BY Cat
  <2> QED BY <2>1, <2>2, <2>3 DEF Ends
<1>2. CASE Ends(s, k, val) /\ Absent(t, k)
  <2>1. PICK i \in Nat : LastIs(s, k, i) /\ s[i][2] = val
    BY <1>2 DEF Ends
  <2>2. LastIs(s \o t, k, i) /\ (s \o t)[i] = s[i]
    BY <1>2, <2>1, CatFirst
  <2> QED BY <2>1, <2>2 DEF Ends
<1> QED BY <1>1, <1>2

\* The lists of one and of two writes again.
LEMMA EndsShort ==
    /\ \A S : \A x, y \in S : <<>> \in Seq(S) /\ <<x>> \in Seq(S) /\ <<x, y>> \in Seq(S)
    /\ \A k : Absent(<<>>, k)
    /\ \A x : Ends(<<x>>, x[1], x[2])
    /\ \A x, y : Ends(<<x, y>>, y[1], y[2]) /\ (x[1] # y[1] => Ends(<<x, y>>, x[1], x[2]))
<1>1. \A S : \A x, y \in S : <<>> \in Seq(S) /\ <<x>> \in Seq(S) /\ <<x, y>> \in Seq(S)
  OBVIOUS
<1>2. \A k : Absent(<<>>, k)
  BY DEF Absent
<1>3. 1 \in Nat /\ 2 \in Nat
  OBVIOUS
<1>4. ASSUME NEW x PROVE Ends(<<x>>, x[1], x[2])
  <2>1. LastIs(<<x>>, x[1], 1) /\ <<x>>[1] = x
    BY Short
  <2> QED BY <1>3, <2>1 DEF Ends
<1>5. ASSUME NEW x, NEW y PROVE Ends(<<x, y>>, y[1], y[2])
  <2>1. LastIs(<<x, y>>, y[1], 2) /\ <<x, y>>[2] = y
    BY Short
  <2> QED BY <1>3, <2>1 DEF Ends
<1>6. ASSUME NEW x, NEW y, x[1] # y[1] PROVE Ends(<<x, y>>, x[1], x[2])
  <2>1. LastIs(<<x, y>>, x[1], 1) /\ <<x, y>>[1] = x
    BY <1>6, Short
  <2> QED BY <1>3, <2>1 DEF Ends
<1> QED BY <1>1, <1>2, <1>4, <1>5, <1>6

\* A register whose last write is of val has it or is owed; then the call came
\* past its first write.
LEMMA EndsOutcome ==
    ASSUME NEW ws, NEW n, NEW taken, NEW k, NEW val,
           Len(ws) \in Nat, n \in 0..Len(ws), k \in Registers, Write(ws, n, taken),
           Ends(ws, k, val)
    PROVE  k \in owed' \/ (n >= 1 /\ reg'[k] = val)
<1>1. PICK i \in Nat : LastIs(ws, k, i) /\ ws[i][2] = val
  BY DEF Ends
<1>2. k \in owed' \/ (i <= n /\ reg'[k] = ws[i][2])
  BY <1>1, Outcome
<1>3. i >= 1
  BY <1>1 DEF LastIs
<1> QED BY <1>1, <1>2, <1>3

\* A filter writes the whole word.
LEMMA FilterStep == RegistersFollowState /\ SetFilter => RegistersFollowState' /\ Only({Misc})
<1> HAVE RegistersFollowState /\ SetFilter
<1>1. PICK g : /\ gpio' = g /\ time' = time /\ tick' = tick
               /\ \E n \in 0..1, taken \in BOOLEAN : Write(<<Poke(g)>>, n, taken)
  BY DEF SetFilter
<1>2. PICK n \in 0..1, taken \in BOOLEAN : Write(<<Poke(g)>>, n, taken)
  BY <1>1
<1>3. Poke(g)[1] = Misc /\ Poke(g)[2] = g
  BY DEF Poke
<1> DEFINE ws == <<Poke(g)>>
<1>4. /\ Len(ws) \in Nat /\ n \in 0..Len(ws) /\ Write(ws, n, taken)
      /\ Ends(ws, Misc, g) /\ \A k : k # Misc => Absent(ws, k)
  BY <1>2, <1>3, EndsShort, Short
<1> HIDE DEF ws
<1>5. Misc \in owed' \/ reg'[Misc] = g
  BY <1>4, EndsOutcome, Keys
<1>6. \A v : \A k \in Registers : k # Misc /\ Agrees(k, v) => k \in owed' \/ reg'[k] = v
  BY <1>4, Outcome
<1>9. Only({Misc})
  BY <1>4, OnlyThese
<1>90. RegistersFollowState'
  BY <1>1, <1>5, <1>6, Keys DEF RegistersFollowState, Agrees
<1> QED BY <1>9, <1>90

\* An antenna writes none of the remembered registers.
LEMMA AntennaStep ==
    \A r, a : RegistersFollowState /\ SetAntenna(r, a) => RegistersFollowState' /\ Only(AtrRegisters)
<1> TAKE r, a
<1> HAVE RegistersFollowState /\ SetAntenna(r, a)
<1> DEFINE ws == AtrWrites(stream, ant')
<1>1. /\ gpio' = gpio /\ time' = time /\ tick' = tick
      /\ \E n \in 0..Len(ws), taken \in BOOLEAN : Write(ws, n, taken)
  BY DEF SetAntenna
<1>2. Len(ws) \in Nat /\ \A k : (\A q \in Radios : k # Atr(q)) => Absent(ws, k)
  BY OnlyAtr
<1> HIDE DEF ws
<1>3. PICK n \in 0..Len(ws), taken \in BOOLEAN : Write(ws, n, taken)
  BY <1>1
<1>4. \A v : \A k \in Registers : (\A q \in Radios : k # Atr(q)) /\ Agrees(k, v)
                                 => k \in owed' \/ reg'[k] = v
  BY <1>2, <1>3, Outcome
<1>9. Only(AtrRegisters)
  BY <1>2, <1>3, OnlyThese DEF AtrRegisters
<1>90. RegistersFollowState'
  BY <1>1, <1>4, Keys DEF RegistersFollowState, Agrees
<1> QED BY <1>9, <1>90

\* update_atrs leaves the word of each radio in its register.
LEMMA AtrLast ==
    \A s, a : \A r \in Radios : Ends(AtrWrites(s, a), Atr(r), AtrWord(s, a, r))
<1> TAKE s, a
<1> DEFINE To(r) == <<Atr(r), AtrWord(s, a, r)>>
<1>1. 0 \in Radios /\ \A r \in Radios : r = 0 \/ r = 1
  BY RadiosAssumption
<1>2. AtrWrites(s, a) = IF 1 \in Radios THEN <<To(1), To(0)>> ELSE <<To(0)>>
  BY DEF AtrWrites
<1>3. \A r : To(r)[1] = Atr(r) /\ To(r)[2] = AtrWord(s, a, r)
  OBVIOUS
<1>4. 1 \in Radios => Atr(0) # Atr(1)
  BY <1>1, Keys
<1> HIDE DEF To
<1> QED BY <1>1, <1>2, <1>3, <1>4, EndsShort

\* What update_enables writes: the chains, the word, the switches, no more.
LEMMA EnableList ==
    \A s, g :
        /\ Len(EnableWrites(s, g)) \in Nat
        /\ Ends(EnableWrites(s, g), Chains, ChainWrite(s)[2])
        /\ Ends(EnableWrites(s, g), Misc, g)
        /\ \A r \in Radios : Ends(EnableWrites(s, g), Atr(r), AtrWord(s, ant, r))
        /\ \A k : k \notin {Chains, Misc} \cup AtrRegisters => Absent(EnableWrites(s, g), k)
<1> TAKE s, g
<1> DEFINE two == <<ChainWrite(s), Poke(g)>>
           atr == AtrWrites(s, ant)
           ws == two \o atr
           W == {ChainWrite(s), Poke(g), <<Atr(0), AtrWord(s, ant, 0)>>, <<Atr(1), AtrWord(s, ant, 1)>>}
<1>1. EnableWrites(s, g) = ws
  BY DEF EnableWrites
<1>2. ChainWrite(s)[1] = Chains /\ Poke(g)[1] = Misc /\ Poke(g)[2] = g
  BY DEF ChainWrite, Poke
<1>3. /\ atr \in Seq(W) /\ \A k : k \notin AtrRegisters => Absent(atr, k)
      /\ \A r \in Radios : Ends(atr, Atr(r), AtrWord(s, ant, r))
  <2>1. atr \in Seq({<<Atr(0), AtrWord(s, ant, 0)>>, <<Atr(1), AtrWord(s, ant, 1)>>})
    BY OnlyAtr
  <2>2. \A A, B : A \subseteq B => Seq(A) \subseteq Seq(B)
    OBVIOUS
  <2>3. \A k : k \notin AtrRegisters => Absent(atr, k)
    BY OnlyAtr DEF AtrRegisters
  <2> QED BY <2>1, <2>2, <2>3, AtrLast
<1>4. /\ two \in Seq(W) /\ Ends(two, Misc, g) /\ Ends(two, Chains, ChainWrite(s)[2])
      /\ \A k : k # Chains /\ k # Misc => Absent(two, k)
  <2>1. ChainWrite(s) \in W /\ Poke(g) \in W
    OBVIOUS
  <2> HIDE DEF W
  <2> QED BY <1>2, <2>1, EndsShort, Short, Keys
<1>5. Chains \notin AtrRegisters /\ Misc \notin AtrRegisters
  BY Keys DEF AtrRegisters
<1> HIDE DEF two, atr, W
<1>6. Len(ws) \in Nat
  BY <1>3, <1>4, Cat
<1>7. Ends(ws, Chains, ChainWrite(s)[2]) /\ Ends(ws, Misc, g)
  BY <1>3, <1>4, <1>5, EndsCat
<1>8. \A r \in Radios : Ends(ws, Atr(r), AtrWord(s, ant, r))
  BY <1>3, <1>4, EndsCat
<1>9. \A k : k \notin {Chains, Misc} \cup AtrRegisters => Absent(ws, k)
  BY <1>3, <1>4, CatAbsent
<1> QED BY <1>1, <1>6, <1>7, <1>8, <1>9

\* A streamer writes the whole word after the chains.
LEMMA OpenStep ==
    \A d, S : RegistersFollowState /\ OpenStream(d, S) =>
        RegistersFollowState' /\ Only({Chains, Misc} \cup AtrRegisters)
<1> TAKE d, S
<1> HAVE RegistersFollowState /\ OpenStream(d, S)
<1> DEFINE s == Stored(d, S, S)
           g == [gpio EXCEPT !.mimo = Mimo(s)]
           ws == EnableWrites(s, g)
<1>1. /\ time' = time /\ tick' = tick
      /\ \E n \in 0..Len(ws), taken \in BOOLEAN :
            Write(ws, n, taken) /\ gpio' = IF n >= 1 THEN g ELSE gpio
  BY DEF OpenStream
<1>2. /\ Len(ws) \in Nat /\ Ends(ws, Misc, g)
      /\ \A k : k \notin {Chains, Misc} \cup AtrRegisters => Absent(ws, k)
  BY EnableList
<1> HIDE DEF ws, g, s
<1>3. PICK n \in 0..Len(ws), taken \in BOOLEAN :
         Write(ws, n, taken) /\ gpio' = IF n >= 1 THEN g ELSE gpio
  BY <1>1
<1>4. Misc \in owed' \/ (n >= 1 /\ reg'[Misc] = g)
  BY <1>2, <1>3, EndsOutcome, Keys
<1>5. \A v : \A k \in Registers :
         k \notin {Chains, Misc} \cup AtrRegisters /\ Agrees(k, v) => k \in owed' \/ reg'[k] = v
  BY <1>2, <1>3, Outcome
<1>6. Only({Chains, Misc} \cup AtrRegisters)
  BY <1>2, <1>3, OnlyThese
<1>7. \A v : \A k \in {Sync, Rate} \cup {Core(r) : r \in Radios} :
         Agrees(k, v) => k \in owed' \/ reg'[k] = v
  BY <1>5, Keys DEF AtrRegisters
<1>8. RegistersFollowState'
  BY <1>1, <1>3, <1>4, <1>7 DEF RegistersFollowState, Agrees
<1> QED BY <1>6, <1>8

\* The time cores of all radios are written, and no other register.
LEMMA CoresWritten ==
    \A rate :
        /\ CoreWrites(rate) \in Seq({<<Core(0), rate>>, <<Core(1), rate>>})
        /\ \A r \in Radios : Ends(CoreWrites(rate), Core(r), rate)
        /\ \A k : (\A r \in Radios : k # Core(r)) => Absent(CoreWrites(rate), k)
<1> TAKE rate
<1> DEFINE To(r) == <<Core(r), rate>>
<1>1. 0 \in Radios /\ \A r \in Radios : r = 0 \/ r = 1
  BY RadiosAssumption
<1>2. CoreWrites(rate) = IF 1 \in Radios THEN <<To(0), To(1)>> ELSE <<To(0)>>
  BY DEF CoreWrites
<1>3. \A r : To(r)[1] = Core(r) /\ To(r)[2] = rate
  OBVIOUS
<1>4. 1 \in Radios => Core(0) # Core(1)
  BY <1>1, Keys
<1>5. To(0) \in {To(0), To(1)} /\ To(1) \in {To(0), To(1)}
  OBVIOUS
<1>6. CoreWrites(rate) \in Seq({To(0), To(1)})
  <2> HIDE DEF To
  <2> QED BY <1>2, <1>5, EndsShort
<1>7. \A r \in Radios : Ends(CoreWrites(rate), Core(r), rate)
  <2> HIDE DEF To
  <2> QED BY <1>1, <1>2, <1>3, <1>4, EndsShort
<1>8. \A k : (\A r \in Radios : k # Core(r)) => Absent(CoreWrites(rate), k)
  <2> HIDE DEF To
  <2> QED BY <1>1, <1>2, <1>3, Short
<1> QED BY <1>6, <1>7, <1>8

\* A new rate goes to the AD9361 first, and is remembered from then on.
LEMMA RateStep ==
    \A rate : RegistersFollowState /\ SetTickRate(rate) =>
        RegistersFollowState' /\ Only({Rate, Sync} \cup CoreRegisters)
<1> TAKE rate
<1> HAVE RegistersFollowState /\ SetTickRate(rate)
<1> DEFINE R == <<Rate, rate>>
           cores == CoreWrites(rate)
           sync == SyncWrites(time)
           new == rate # tick
           set == <<R>> \o cores
           first == IF new THEN set ELSE <<>>
           ws == first \o sync
           W == {R, <<Core(0), rate>>, <<Core(1), rate>>}
                \cup {<<Sync, [pulse |-> TRUE, src |-> time]>>, <<Sync, [pulse |-> FALSE, src |-> time]>>}
           here == [pulse |-> FALSE, src |-> time]
<1>1. /\ gpio' = gpio /\ time' = time
      /\ \E n \in 0..Len(ws), taken \in BOOLEAN :
            Write(ws, n, taken) /\ tick' = IF new /\ n >= 1 THEN rate ELSE tick
  BY DEF SetTickRate
<1>2. R[1] = Rate /\ R[2] = rate
  OBVIOUS
<1>3. <<R>> \in Seq(W) /\ <<>> \in Seq(W) /\ cores \in Seq(W) /\ sync \in Seq(W)
  <2>1. \A A, B : A \subseteq B => Seq(A) \subseteq Seq(B)
    OBVIOUS
  <2>2. cores \in Seq({<<Core(0), rate>>, <<Core(1), rate>>})
    BY CoresWritten
  <2>3. sync \in Seq({<<Sync, [pulse |-> TRUE, src |-> time]>>, <<Sync, [pulse |-> FALSE, src |-> time]>>})
    BY Pulse
  <2>4. R \in W
    OBVIOUS
  <2> HIDE DEF R
  <2> QED BY <2>1, <2>2, <2>3, <2>4, EndsShort
<1>4. Ends(sync, Sync, here) /\ \A k : k # Sync => Absent(sync, k)
  <2>1. 2 \in Nat
    OBVIOUS
  <2> QED BY <2>1, Pulse DEF Ends
<1>5. /\ \A r \in Radios : Ends(cores, Core(r), rate)
      /\ \A k : (\A r \in Radios : k # Core(r)) => Absent(cores, k)
  BY CoresWritten
<1> HIDE DEF R, cores, sync, W, here
<1>6. Ends(<<R>>, Rate, rate) /\ \A k : k # Rate => Absent(<<R>>, k)
  BY <1>2, EndsShort, Short
<1>7. /\ set \in Seq(W) /\ Ends(set, Rate, rate)
      /\ \A r \in Radios : Ends(set, Core(r), rate)
      /\ \A k : k # Rate /\ (\A r \in Radios : k # Core(r)) => Absent(set, k)
  <2>1. set \in Seq(W)
    BY <1>3, Cat
  <2>2. Absent(cores, Rate)
    BY <1>5, Keys
  <2>3. Ends(set, Rate, rate)
    BY <1>3, <1>6, <2>2, EndsCat
  <2>4. ASSUME NEW r \in Radios PROVE Ends(set, Core(r), rate)
    BY <1>3, <1>5, EndsCat
  <2>5. ASSUME NEW k, k # Rate /\ \A r \in Radios : k # Core(r) PROVE Absent(set, k)
    BY <1>3, <1>5, <1>6, <2>5, CatAbsent
  <2> QED BY <2>1, <2>3, <2>4, <2>5
<1> HIDE DEF set
<1>8. /\ first \in Seq(W)
      /\ new => Ends(first, Rate, rate) /\ \A r \in Radios : Ends(first, Core(r), rate)
      /\ \A k : k # Rate /\ (\A r \in Radios : k # Core(r)) => Absent(first, k)
      /\ ~new => \A k : Absent(first, k)
  BY <1>3, <1>7, EndsShort
<1> HIDE DEF first
<1>9. /\ Len(ws) \in Nat /\ Ends(ws, Sync, here)
      /\ new => Ends(ws, Rate, rate) /\ \A r \in Radios : Ends(ws, Core(r), rate)
      /\ \A k : k \notin {Rate, Sync} /\ (\A r \in Radios : k # Core(r)) => Absent(ws, k)
      /\ ~new => \A k : k # Sync => Absent(ws, k)
  <2>1. Len(ws) \in Nat
    BY <1>3, <1>8, Cat
  <2>2. Ends(ws, Sync, here)
    BY <1>3, <1>4, <1>8, EndsCat
  <2>3. ASSUME new PROVE Ends(ws, Rate, rate)
    <3>1. Absent(sync, Rate)
      BY <1>4, Keys
    <3> QED BY <1>3, <1>8, <2>3, <3>1, EndsCat
  <2>4. ASSUME new, NEW r \in Radios PROVE Ends(ws, Core(r), rate)
    <3>1. Absent(sync, Core(r))
      BY <1>4, Keys
    <3> QED BY <1>3, <1>8, <2>4, <3>1, EndsCat
  <2>5. ASSUME NEW k, k \notin {Rate, Sync} /\ \A r \in Radios : k # Core(r) PROVE Absent(ws, k)
    BY <1>3, <1>4, <1>8, <2>5, CatAbsent
  <2>6. ASSUME ~new, NEW k, k # Sync PROVE Absent(ws, k)
    BY <1>3, <1>4, <1>8, <2>6, CatAbsent
  <2> QED BY <2>1, <2>2, <2>3, <2>4, <2>5, <2>6
<1> HIDE DEF ws
<1>10. PICK n \in 0..Len(ws), taken \in BOOLEAN :
          Write(ws, n, taken) /\ tick' = IF new /\ n >= 1 THEN rate ELSE tick
  BY <1>1
<1>11. Misc \in owed' \/ reg'[Misc] = gpio'
  <2>1. Absent(ws, Misc) /\ Agrees(Misc, gpio)
    BY <1>9, Keys DEF RegistersFollowState
  <2> QED BY <1>1, <1>9, <1>10, <2>1, Outcome, Keys
<1>12. Sync \in owed' \/ reg'[Sync] = [pulse |-> FALSE, src |-> time']
  <2>1. Sync \in owed' \/ reg'[Sync] = here
    BY <1>9, <1>10, EndsOutcome, Keys
  <2> QED BY <1>1, <2>1 DEF here
<1>13. ASSUME NEW k \in Registers, k = Rate \/ \E r \in Radios : k = Core(r)
       PROVE  k \in owed' \/ reg'[k] = tick'
  <2>1. Agrees(k, tick) /\ k # Sync
    BY <1>13, Keys DEF RegistersFollowState
  <2>2. CASE new
    <3>1. Ends(ws, k, rate)
      BY <1>9, <1>13, <2>2
    <3>2. k \in owed' \/ (n >= 1 /\ reg'[k] = rate)
      BY <1>9, <1>10, <3>1, EndsOutcome
    <3> QED BY <1>10, <2>2, <3>2
  <2>3. CASE ~new
    <3>1. Absent(ws, k)
      BY <1>9, <2>1, <2>3
    <3>2. tick' = tick
      BY <1>10, <2>3
    <3> QED BY <1>9, <1>10, <2>1, <3>1, <3>2, Outcome
  <2> QED BY <2>2, <2>3
<1>14. Only({Rate, Sync} \cup CoreRegisters)
  BY <1>9, <1>10, OnlyThese DEF CoreRegisters
<1>140. RegistersFollowState'
  BY <1>11, <1>12, <1>13, Keys DEF RegistersFollowState, Agrees
<1> QED BY <1>14, <1>140

-----------------------------------------------------------------------------
\* What the constructor leaves in the registers.
LEMMA InitValues ==
    ASSUME Init
    PROVE  /\ reg[Misc] = gpio /\ reg[Sync] = [pulse |-> FALSE, src |-> time]
           /\ reg[Rate] = tick /\ reg[Lock] = FALSE /\ \A r \in Radios : reg[Core(r)] = tick
           /\ reg[Chains] = {} /\ \A r \in Radios : reg[Atr(r)] = AtrWord(stream, ant, r)
<1> DEFINE val(k) == CASE k = Misc -> gpio
                       [] k = Sync -> [pulse |-> FALSE, src |-> "internal"]
                       [] k = Lock -> FALSE
                       [] k = Chains -> {}
                       [] k \in {Rate} \cup {Core(r) : r \in Radios} -> tick
                       [] OTHER -> AtrWord(stream, ant, k[2])
<1>1. time = "internal" /\ reg = [k \in Registers |-> val(k)]
  BY DEF Init
<1>2. val(Misc) = gpio
  BY Keys
<1>3. val(Sync) = [pulse |-> FALSE, src |-> "internal"]
  BY Keys
<1>4. val(Rate) = tick
  BY Keys
<1>5. val(Lock) = FALSE
  BY Keys
<1>6. ASSUME NEW r \in Radios PROVE val(Core(r)) = tick
  <2>1. Core(r) \notin {Misc, Sync, Lock, Chains}
        /\ Core(r) \in {Rate} \cup {Core(q) : q \in Radios}
    BY Keys
  <2> QED BY <2>1
<1>7. val(Chains) = {}
  BY Keys
<1>8. ASSUME NEW r \in Radios PROVE val(Atr(r)) = AtrWord(stream, ant, r)
  <2>1. Atr(r) \notin {Misc, Sync, Lock, Chains}
        /\ Atr(r) \notin {Rate} \cup {Core(q) : q \in Radios}
    BY Keys
  <2>2. Atr(r)[2] = r
    BY DEF Atr
  <2> QED BY <2>1, <2>2
<1> HIDE DEF val
<1> QED BY <1>1, <1>2, <1>3, <1>4, <1>5, <1>6, <1>7, <1>8, Keys

\* Whatever calls an application makes and whichever of their writes fail, a
\* register of the card differs from what the host remembers only while a write
\* of it is owed.  The invariant is inductive as it stands.
THEOREM FollowState == Spec => []RegistersFollowState
<1>1. Init => RegistersFollowState
  BY InitValues, Keys DEF RegistersFollowState, Agrees
<1>2. RegistersFollowState /\ [Next]_vars => RegistersFollowState'
  <2> SUFFICES ASSUME RegistersFollowState, [Next]_vars PROVE RegistersFollowState'
    OBVIOUS
  <2>1. ASSUME NEW source, SetClockSource(source) PROVE RegistersFollowState'
    BY <2>1, ClockStep
  <2>2. ASSUME NEW source, SetTimeSource(source) PROVE RegistersFollowState'
    BY <2>2, TimeStep
  <2>3. CASE SetTime
    BY <2>3, PulseStep
  <2>4. ASSUME NEW rate, SetTickRate(rate) PROVE RegistersFollowState'
    BY <2>4, RateStep
  <2>5. CASE SetFilter
    BY <2>5, FilterStep
  <2>6. ASSUME NEW r, NEW a, SetAntenna(r, a) PROVE RegistersFollowState'
    BY <2>6, AntennaStep
  <2>7. ASSUME NEW d, NEW S, OpenStream(d, S) PROVE RegistersFollowState'
    BY <2>7, OpenStep
  <2>8. ASSUME NEW d, NEW S, RefuseThreeChains(d, S) \/ CloseStream(d, S)
        PROVE  RegistersFollowState'
    BY <2>8 DEF RefuseThreeChains, CloseStream, RegistersFollowState, Agrees
  <2>9. CASE UNCHANGED vars
    BY <2>9 DEF vars, RegistersFollowState, Agrees
  <2> QED BY <2>1, <2>2, <2>3, <2>4, <2>5, <2>6, <2>7, <2>8, <2>9 DEF Next
<1> QED BY <1>1, <1>2, PTL DEF Spec

-----------------------------------------------------------------------------
\* A clock source that was accepted has been told to the ADF4001, and nothing else
\* moves the remembered switch: neither the calls that rewrite the word nor those that
\* fail.
ClockInv ==
    /\ DOMAIN gpio = {"ref", "mimo", "rx", "tx"}
    /\ clock # "none" =>
          /\ Lock \notin owed /\ reg[Lock] = (clock # "internal")
          /\ clock = "external" => gpio.ref = 0
          /\ clock = "gpsdo" => gpio.ref = 1 /\ gps = "present"

\* A call that writes neither the switch nor the ADF4001 keeps ClockInv.
LEMMA OtherCall ==
    /\ ClockInv /\ (\E S : Lock \notin S /\ Only(S)) /\ clock' = clock /\ gps' = gps
    /\ DOMAIN gpio' = DOMAIN gpio /\ gpio'.ref = gpio.ref
    => ClockInv'
  BY Keys DEF ClockInv, Only

\* The clock source call establishes ClockInv when it is accepted.
LEMMA ClockCall ==
    \A source : /\ ClockInv /\ RegistersFollowState /\ SetClockSource(source)
                /\ source \in {"internal", "external", "gpsdo"}
                => ClockInv'
<1> TAKE source
<1> HAVE /\ ClockInv /\ RegistersFollowState /\ SetClockSource(source)
         /\ source \in {"internal", "external", "gpsdo"}
<1>1. clock' # "none" =>
         clock' = source /\ Lock \notin owed' /\ reg'[Lock] = (source # "internal")
  BY ClockStep
<1>2. /\ gpio' = [gpio EXCEPT !.ref = RefSel(source)] /\ gps' = gps
      /\ source = "gpsdo" => gps = "present"
  BY DEF SetClockSource
<1>3. DOMAIN gpio' = DOMAIN gpio /\ gpio'.ref = RefSel(source)
  BY <1>2 DEF ClockInv
<1>4. (source = "external" => RefSel(source) = 0) /\ (source = "gpsdo" => RefSel(source) = 1)
  BY DEF RefSel
<1> QED BY <1>1, <1>2, <1>3, <1>4 DEF ClockInv

\* An accepted clock source is what the ADF4001 locks by and what the host remembers of
\* the switch; the switch itself is there unless a write of its word is owed.
THEOREM AcceptedClock == Spec => []AcceptedClockIsSet
<1>1. Init => ClockInv
  <2> SUFFICES ASSUME Init PROVE ClockInv
    OBVIOUS
  <2>1. reg[Lock] = FALSE
    BY InitValues
  <2> QED BY <2>1 DEF Init, ClockInv
<1>2. ClockInv /\ RegistersFollowState /\ [Next]_vars => ClockInv'
  <2> SUFFICES ASSUME ClockInv, RegistersFollowState, [Next]_vars PROVE ClockInv'
    OBVIOUS
  <2>1. ASSUME NEW source \in {"internal", "external", "gpsdo"}, SetClockSource(source)
        PROVE  ClockInv'
    BY <2>1, ClockCall
  <2>2. ASSUME NEW source, SetTimeSource(source) PROVE ClockInv'
    BY <2>2, TimeStep, OtherCall, Keys DEF SetTimeSource
  <2>3. CASE SetTime
    BY <2>3, PulseStep, OtherCall, Keys DEF SetTime, host
  <2>4. ASSUME NEW rate, SetTickRate(rate) PROVE ClockInv'
    BY <2>4, RateStep, OtherCall, Keys DEF SetTickRate, CoreRegisters
  <2>5. CASE SetFilter
    <3>1. clock' = clock /\ gps' = gps /\ DOMAIN gpio' = DOMAIN gpio /\ gpio'.ref = gpio.ref
      BY <2>5 DEF SetFilter, ClockInv
    <3> QED BY <2>5, <3>1, FilterStep, OtherCall, Keys
  <2>6. ASSUME NEW r, NEW a, SetAntenna(r, a) PROVE ClockInv'
    BY <2>6, AntennaStep, OtherCall, Keys DEF SetAntenna, AtrRegisters
  <2>7. ASSUME NEW d, NEW S, OpenStream(d, S) PROVE ClockInv'
    <3>1. clock' = clock /\ gps' = gps
      BY <2>7 DEF OpenStream
    <3>2. gpio' = [gpio EXCEPT !.mimo = Mimo(Stored(d, S, S))] \/ gpio' = gpio
      BY <2>7 DEF OpenStream
    <3>3. DOMAIN gpio' = DOMAIN gpio /\ gpio'.ref = gpio.ref
      BY <3>2 DEF ClockInv
    <3> QED BY <2>7, <3>1, <3>3, OpenStep, OtherCall, Keys DEF AtrRegisters
  <2>8. ASSUME NEW d, NEW S, RefuseThreeChains(d, S) \/ CloseStream(d, S) PROVE ClockInv'
    BY <2>8 DEF RefuseThreeChains, CloseStream, ClockInv
  <2>9. CASE UNCHANGED vars
    BY <2>9 DEF vars, ClockInv
  <2> QED BY <2>1, <2>2, <2>3, <2>4, <2>5, <2>6, <2>7, <2>8, <2>9 DEF Next
<1>3. ClockInv /\ RegistersFollowState => AcceptedClockIsSet
  <2> SUFFICES ASSUME ClockInv, RegistersFollowState PROVE AcceptedClockIsSet
    OBVIOUS
  <2>1. Misc \in owed \/ reg[Misc].ref = gpio.ref
    BY DEF RegistersFollowState, Agrees
  <2> QED BY <2>1 DEF ClockInv, AcceptedClockIsSet
<1> QED BY <1>1, <1>2, <1>3, FollowState, PTL DEF Spec
=============================================================================
