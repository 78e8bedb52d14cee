-------------------------- MODULE ModbusDecodeProofs --------------------------
(***************************************************************************)
(* Proofs about ModbusDecode, for registers and ints of any even number of *)
(* values, arrays of any size and any counts.  LoopInv says what the       *)
(* arrays and the loop variables hold; each property adds what it needs.   *)
(***************************************************************************)
EXTENDS ModbusDecode, SequenceTheorems, TLAPS

-----------------------------------------------------------------------------
(* Numbers that have the same low bits *)

\* a and b differ by a multiple of m.
Cong(a, b, m) == \E q \in Int : a = b + q * m

\* Adding keeps low bits the same.
LEMMA CongSum ==
    ASSUME NEW a \in Int, NEW b \in Int, NEW c \in Int, NEW m \in Nat, Cong(a, b, m)
    PROVE  Cong(a + c, b + c, m)
  <1>1. PICK q \in Int : a = b + q * m
    BY DEF Cong
  <1>2. q * m \in Int
    OBVIOUS
  <1>3. a + c = (b + c) + q * m
    BY <1>1, <1>2
  <1> QED BY <1>3 DEF Cong

\* Same low bits, from one number to the next.
LEMMA CongTrans ==
    ASSUME NEW a \in Int, NEW b \in Int, NEW c \in Int, NEW m \in Nat,
           Cong(a, b, m), Cong(b, c, m)
    PROVE  Cong(a, c, m)
  <1>1. PICK q \in Int : a = b + q * m
    BY DEF Cong
  <1>2. PICK r \in Int : b = c + r * m
    BY DEF Cong
  <1>3. q + r \in Int /\ (q + r) * m = q * m + r * m /\ q * m \in Int /\ r * m \in Int
    OBVIOUS
  <1>4. a = c + (q + r) * m
    BY <1>1, <1>2, <1>3
  <1> QED BY <1>3, <1>4 DEF Cong

\* A number has its own low bits.
LEMMA CongSelf ==
    ASSUME NEW a \in Int, NEW m \in Nat
    PROVE  Cong(a, a, m)
  <1>1. 0 \in Int /\ a = a + 0 * m
    OBVIOUS
  <1> QED BY <1>1 DEF Cong

\* A product smaller than its factor is zero.
LEMMA SmallMultiple ==
    ASSUME NEW q \in Int, NEW m \in Nat \ {0}, q * m < m, -m < q * m
    PROVE  q = 0
  <1>1. ASSUME q >= 1 PROVE FALSE
    <2>1. q * m >= m
      BY <1>1
    <2> QED BY <2>1
  <1>2. ASSUME q <= -1 PROVE FALSE
    <2>1. q * m <= -m
      BY <1>2
    <2> QED BY <2>1
  <1> QED BY <1>1, <1>2

\* A remainder has the low bits of its number.
LEMMA Remainder ==
    ASSUME NEW n \in Int, NEW m \in Nat \ {0}
    PROVE  n % m \in 0 .. m - 1 /\ Cong(n % m, n, m)
  <1>1. n % m \in 0 .. m - 1 /\ n \div m \in Int /\ n = m * (n \div m) + (n % m)
    OBVIOUS
  <1> DEFINE q == -(n \div m)
  <1>2. q \in Int /\ q * m = -(m * (n \div m)) /\ m * (n \div m) \in Int
    BY <1>1
  <1>3. n % m = n + q * m
    BY <1>1, <1>2
  <1> QED BY <1>1, <1>2, <1>3 DEF Cong

\* What the lemmas above call the same low bits is what BitsExact does.
LEMMA CongSameBits ==
    ASSUME NEW a \in Int, NEW b \in Int, NEW m \in Nat \ {0}, Cong(a, b, m)
    PROVE  SameBits(a, b, m)
  <1>1. PICK x \in 0 .. m - 1 : x = a % m
    BY Remainder
  <1>2. PICK y \in 0 .. m - 1 : y = b % m
    BY Remainder
  <1>3. Cong(x, a, m) /\ Cong(b % m, b, m)
    BY <1>1, Remainder
  <1>4. PICK q \in Int : y = b + q * m
    BY <1>2, <1>3 DEF Cong
  <1>5. PICK r \in Int : x = b + r * m
    <2>1. x \in Int
      OBVIOUS
    <2>2. Cong(x, b, m)
      BY <1>3, <2>1, CongTrans
    <2> QED BY <2>2 DEF Cong
  <1>6. r - q \in Int /\ (r - q) * m = r * m - q * m /\ r * m \in Int /\ q * m \in Int
    OBVIOUS
  <1>7. x - y = (r - q) * m
    BY <1>4, <1>5, <1>6
  <1>8. r - q = 0
    <2> DEFINE d == r - q
    <2>1. d \in Int /\ d * m = x - y
      BY <1>6, <1>7
    <2>2. d * m < m /\ -m < d * m
      BY <2>1
    <2> HIDE DEF d
    <2>3. d = 0
      BY <2>1, <2>2, SmallMultiple
    <2> QED BY <2>3 DEF d
  <1>9. x = y
    BY <1>7, <1>8
  <1> QED BY <1>1, <1>2, <1>9 DEF SameBits

\* An even number of values is twice its half.
Even(m) == m \in Nat \ {0} /\ m = 2 * (m \div 2) /\ m \div 2 \in Nat \ {0}

\* A signed integer has the range of its width, the low bits of what is stored in it,
\* and is that number when it fits.
LEMMA SignedFacts ==
    ASSUME NEW n \in Int, NEW m, Even(m)
    PROVE  /\ Signed(n, m) \in -(m \div 2) .. m \div 2 - 1
           /\ Cong(Signed(n, m), n, m)
           /\ n \in -(m \div 2) .. m \div 2 - 1 => Signed(n, m) = n
  <1>0. m \in Nat \ {0}
    BY DEF Even
  <1>1. PICK h \in Nat \ {0} : h = m \div 2 /\ m = 2 * h
    BY DEF Even
  <1>2. PICK x \in Int : x = (n + h) % m /\ x \in 0 .. m - 1 /\ Cong(x, n + h, m)
    <2>1. n + h \in Int
      OBVIOUS
    <2>2. (n + h) % m \in 0 .. m - 1 /\ Cong((n + h) % m, n + h, m)
      BY <1>0, <2>1, Remainder
    <2>3. (n + h) % m \in Int
      BY <1>0, <2>2
    <2> QED BY <2>2, <2>3
  <1>3. Signed(n, m) = x - h
    BY <1>1, <1>2 DEF Signed
  <1>4. Signed(n, m) \in -h .. h - 1
    BY <1>1, <1>2, <1>3
  <1>5. Cong(x + (-h), (n + h) + (-h), m)
    <2>1. -h \in Int /\ n + h \in Int /\ x \in Int /\ m \in Nat
      BY <1>0
    <2> QED BY <1>2, <2>1, CongSum
  <1>6. x + (-h) = x - h /\ (n + h) + (-h) = n
    OBVIOUS
  <1>7. ASSUME n \in -h .. h - 1 PROVE Signed(n, m) = n
    <2>1. n + h \in 0 .. m - 1
      BY <1>1, <1>7
    <2>2. \A y \in Int, z \in Nat \ {0} : y \in 0 .. z - 1 => y % z = y
      OBVIOUS
    <2>3. (n + h) % m = n + h
      BY <1>0, <2>1, <2>2
    <2> QED BY <1>2, <1>3, <2>3
  <1> QED BY <1>1, <1>3, <1>4, <1>5, <1>6, <1>7

-----------------------------------------------------------------------------
(* Widths of types *)

\* The number of registers of each type.
LEMMA TypeWidths ==
    ASSUME NEW t \in Types
    PROVE  /\ Words(t) \in {1, 2, 4}
           /\ Words(t) = 1 <=> t \in {"U16", "S16", "B08"}
           /\ t = "U32" => Words(t) = 2
           /\ t = "S32" => Words(t) = 2
  BY DEF Types, Words

\* Twice a half is even.
LEMMA EvenHalf ==
    ASSUME NEW m \in Nat \ {0}, NEW g \in Nat \ {0}, m = 2 * g
    PROVE  Even(m)
  BY DEF Even

\* The values of one to four registers together are even in number.
LEMMA Powers ==
    /\ \A k \in 0 .. 4 : Power(k) \in Nat \ {0}
    /\ Even(Power(1)) /\ Even(Power(2)) /\ Even(Power(4))
    /\ Power(0) = 1 /\ Power(1) = R /\ Even(R)
  <1>1. PICK g \in Nat \ {0} : R = 2 * g /\ R \in Nat \ {0}
    <2>1. R \in Nat \ {0} /\ R % 2 = 0
      BY WidthsAssumption
    <2>2. R \div 2 \in Nat \ {0} /\ R = 2 * (R \div 2)
      BY <2>1
    <2> QED BY <2>1, <2>2
  <1>2. PICK q \in Nat \ {0} : q = R * R
    BY <1>1
  <1>3. q * R \in Nat \ {0}
    BY <1>1, <1>2
  <1>4. PICK c \in Nat \ {0} : c = q * R
    BY <1>3
  <1>5. c * R \in Nat \ {0}
    BY <1>1, <1>4
  <1>6. /\ Power(0) = 1 /\ Power(1) = R /\ Power(2) = q /\ Power(3) = c
        /\ Power(4) = c * R
    BY <1>2, <1>4 DEF Power
  <1>7. R * g \in Nat \ {0} /\ q = 2 * (R * g)
    BY <1>1, <1>2
  <1>8. c * g \in Nat \ {0} /\ c * R = 2 * (c * g)
    BY <1>1, <1>4
  <1>9. Even(R)
    BY <1>1, EvenHalf
  <1>10. Even(q)
    BY <1>2, <1>7, EvenHalf
  <1>11. Even(c * R)
    BY <1>5, <1>8, EvenHalf
  <1>12. \A k \in 0 .. 4 : k = 0 \/ k = 1 \/ k = 2 \/ k = 3 \/ k = 4
    OBVIOUS
  <1> QED BY <1>1, <1>2, <1>4, <1>5, <1>6, <1>9, <1>10, <1>11, <1>12

\* So are those of an item.
LEMMA EvenPower ==
    ASSUME NEW t \in Types
    PROVE  Even(Power(Words(t))) /\ Power(Words(t)) \in Nat \ {0}
  BY TypeWidths, Powers DEF Even

\* So are those of an int.
LEMMA EvenInt == Even(IntVals)
  <1>1. IntVals \in Nat \ {0} /\ IntVals % 2 = 0
    BY WidthsAssumption
  <1>2. IntVals \div 2 \in Nat \ {0} /\ IntVals = 2 * (IntVals \div 2)
    BY <1>1
  <1> QED BY <1>1, <1>2 DEF Even

\* The range of the integer of each type.
Span(t) == IF t = "U32" THEN 0 .. Power(2) - 1
            ELSE -(Power(Words(t)) \div 2) .. Power(Words(t)) \div 2 - 1

\* ieee has the range of its C type and the low bits of the sum stored in it.
LEMMA AccumulatorFacts ==
    ASSUME NEW t \in Types, NEW n \in Int
    PROVE  /\ Accumulator(t, n) \in Span(t)
           /\ Cong(Accumulator(t, n), n, Power(Words(t)))
           /\ 0 \in Span(t)
           /\ n = 0 => Accumulator(t, n) = 0
  <1> DEFINE m == Power(Words(t))
  <1>1. Even(m) /\ m \in Nat \ {0}
    BY EvenPower
  <1>2. CASE t = "U32"
    <2>1. m = Power(2)
      BY <1>2, TypeWidths
    <2>2. Accumulator(t, n) = n % m
      BY <1>2, <2>1 DEF Accumulator
    <2> HIDE DEF m
    <2>3. n % m \in 0 .. m - 1 /\ Cong(n % m, n, m)
      BY <1>1, Remainder
    <2>4. 0 \in 0 .. m - 1 /\ 0 % m = 0
      BY <1>1
    <2>5. Span(t) = 0 .. m - 1
      BY <1>2, <2>1 DEF Span
    <2> QED BY <2>2, <2>3, <2>4, <2>5 DEF m
  <1>3. CASE t # "U32"
    <2>1. Accumulator(t, n) = Signed(n, m)
      BY <1>3 DEF Accumulator
    <2>2. Span(t) = -(m \div 2) .. m \div 2 - 1
      BY <1>3 DEF Span
    <2> HIDE DEF m
    <2>3. 0 \in -(m \div 2) .. m \div 2 - 1
      BY <1>1 DEF Even
    <2>4. /\ Signed(n, m) \in -(m \div 2) .. m \div 2 - 1
          /\ Cong(Signed(n, m), n, m)
          /\ n \in -(m \div 2) .. m \div 2 - 1 => Signed(n, m) = n
      BY <1>1, SignedFacts
    <2> QED BY <2>1, <2>2, <2>3, <2>4 DEF m
  <1> QED BY <1>2, <1>3

-----------------------------------------------------------------------------
(* The arrays, the loop variables and the list *)

Zeros == [x \in Index |-> 0]

Arguments == code \in 1 .. 4 /\ type \in Types /\ pynb \in Counts /\ device \in [Index -> Register]

\* Nothing has been read and nothing counted yet.
Fresh == pc = "ask" =>
           u16_dest = Zeros /\ u08_dest = Zeros /\ i = 0 /\ j = 0 /\ ieee = 0 /\ list = <<>>

\* Only the array of the function called has been filled.
Filled == pc \in {"decode", "done"} =>
            /\ nb <= MaxRegs /\ pynb >= 0
            /\ code \in {1, 2} => u16_dest = Zeros /\ u08_dest = BitsOf(device, nb)
            /\ code \in {3, 4} => u08_dest = Zeros /\ u16_dest = Received(device, Quantity)

LoopInv == Arguments /\ TypeOK /\ Fresh /\ Filled

\* TypeOK gives the range of ieee.
LEMMA SpanOfType ==
    ASSUME TypeOK
    PROVE  ieee \in Span(type)
  BY DEF TypeOK, Span

\* nb is the product, or the product does not fit in an int.
LEMMA Ints ==
    ASSUME Arguments
    PROVE  /\ pynb \in Int /\ nb \in Int /\ Words(type) \in {1, 2, 4} /\ MaxRegs \in Nat \ {0}
           /\ Words(type) * pynb \in Int
           /\ \/ nb = Words(type) * pynb
              \/ Words(type) * pynb \notin -(IntVals \div 2) .. IntVals \div 2 - 1
  <1>1. Words(type) \in {1, 2, 4}
    BY TypeWidths DEF Arguments
  <1>2. pynb \in Int /\ MaxRegs \in Nat \ {0}
    <2>1. /\ Counts \subseteq -(IntVals \div 2) .. IntVals \div 2 - 1
          /\ MaxRegs \in Nat \ {0}
      BY WidthsAssumption
    <2> QED BY <2>1 DEF Arguments
  <1> DEFINE n == Words(type) * pynb
  <1>3. n \in Int
    BY <1>1, <1>2
  <1>4. nb = Signed(n, IntVals)
    BY DEF nb
  <1> HIDE DEF n
  <1>5. /\ Signed(n, IntVals) \in -(IntVals \div 2) .. IntVals \div 2 - 1
        /\ n \in -(IntVals \div 2) .. IntVals \div 2 - 1 => Signed(n, IntVals) = n
    BY <1>3, EvenInt, SignedFacts
  <1>6. nb \in Int
    BY <1>4, <1>5, EvenInt DEF Even
  <1> QED BY <1>1, <1>2, <1>3, <1>4, <1>5, <1>6 DEF n

\* What libmodbus stores keeps the types of the arrays.
LEMMA Arrays ==
    ASSUME Arguments, NEW n \in Int
    PROVE  /\ Zeros \in [Index -> Register] /\ Zeros \in [Index -> 0 .. 1]
           /\ Received(device, n) \in [Index -> Register]
           /\ BitsOf(device, n) \in [Index -> 0 .. 1]
  <1>1. R \in Nat \ {0} /\ MaxRegs \in Nat \ {0} /\ device \in [Index -> Register]
    BY WidthsAssumption DEF Arguments
  <1>2. 0 \in Register /\ 0 \in 0 .. 1
    BY <1>1 DEF Register
  <1>3. \A x \in Index : device[x] \in Register /\ device[x] \in Nat
    BY <1>1 DEF Register
  <1>4. \A d \in Nat : d % 2 \in 0 .. 1
    OBVIOUS
  <1>5. \A x \in Index : device[x] % 2 \in 0 .. 1
    BY <1>3, <1>4
  <1>6. Zeros \in [Index -> Register] /\ Zeros \in [Index -> 0 .. 1]
    BY <1>2 DEF Zeros
  <1>7. Received(device, n) \in [Index -> Register]
    BY <1>2, <1>3 DEF Received
  <1>8. BitsOf(device, n) \in [Index -> 0 .. 1]
    BY <1>2, <1>5 DEF BitsOf
  <1> QED BY <1>6, <1>7, <1>8

\* A call begins with nothing read.
LEMMA InitLoop == Init => LoopInv
  <1> SUFFICES ASSUME Init PROVE LoopInv
    OBVIOUS
  <1>1. Arguments
    BY DEF Init, Arguments
  <1>2. u16_dest = Zeros /\ u08_dest = Zeros /\ pc = "ask" /\ i = 0 /\ j = 0 /\ ieee = 0 /\ list = <<>>
    BY DEF Init, Zeros
  <1>3. Fresh /\ Filled
    BY <1>2 DEF Fresh, Filled
  <1>4. u16_dest \in [Index -> Register] /\ u08_dest \in [Index -> 0 .. 1]
    BY <1>1, <1>2, Arrays
  <1>5. j \in 0 .. Words(type)
    BY <1>1, <1>2, Ints
  <1>6. 0 \in Span(type)
    BY <1>1, AccumulatorFacts DEF Arguments
  <1>7. list \in Seq(Int) /\ Len(list) = i
    BY <1>2
  <1>9. At <= MaxRegs
    <2>1. At = 0 * Words(type) + 0
      BY <1>2 DEF At
    <2> QED BY <1>1, <2>1, Ints
  <1>8. TypeOK
    BY <1>2, <1>4, <1>5, <1>6, <1>7, <1>9 DEF TypeOK, Span
  <1> QED BY <1>1, <1>3, <1>8 DEF LoopInv

\* Steps that fetch or give up leave the loop where it starts.
LEMMA FetchStep ==
    ASSUME LoopInv, pc = "ask", UNCHANGED <<args, i, j, ieee, list>>,
           pc' \in {"decode", "raised", "overrun"},
           u16_dest' \in [Index -> Register], u08_dest' \in [Index -> 0 .. 1],
           pc' = "decode" => Filled'
    PROVE  LoopInv'
  <1>1. /\ code' = code /\ type' = type /\ pynb' = pynb /\ device' = device
        /\ i' = 0 /\ j' = 0 /\ ieee' = ieee /\ list' = list /\ i = 0 /\ j = 0
    BY DEF LoopInv, Fresh, args
  <1>2. Arguments'
    BY <1>1 DEF LoopInv, Arguments
  <1>3. Filled' /\ Fresh'
    BY DEF Filled, Fresh
  <1>4. At' = 0
    <2>1. At' = 0 * Words(type) + 0
      BY <1>1 DEF At
    <2> QED BY <2>1, Ints DEF LoopInv
  <1>5. At' <= MaxRegs
    BY <1>4, WidthsAssumption
  <1>6. pc' = "decode" => i' <= pynb'
    BY <1>1 DEF Filled
  <1>7. TypeOK'
    BY <1>1, <1>5, <1>6 DEF LoopInv, TypeOK
  <1> QED BY <1>2, <1>3, <1>7 DEF LoopInv

\* A read of bits fills the array of bits (pymodbus.c:205).
LEMMA FetchBitsLoop == LoopInv /\ FetchBits => LoopInv'
  <1> SUFFICES ASSUME LoopInv, FetchBits PROVE LoopInv'
    OBVIOUS
  <1>1. pc = "ask" /\ UNCHANGED <<args, i, j, ieee, list>> /\ code \in {1, 2} /\ u16_dest' = u16_dest
    BY DEF FetchBits
  <1>2. u16_dest = Zeros /\ u08_dest = Zeros /\ Arguments
    BY <1>1 DEF LoopInv, Fresh
  <1>3. nb \in Int /\ pynb \in Int /\ MaxRegs \in Nat
    BY <1>2, Ints
  <1>4. \/ pc' = "overrun" /\ u08_dest' = Zeros
        \/ pc' = NewList /\ u08_dest' = BitsOf(device, nb) /\ nb <= MaxRegs
    BY <1>2, <1>3 DEF FetchBits
  <1>5. u16_dest' \in [Index -> Register] /\ u08_dest' \in [Index -> 0 .. 1]
    BY <1>1, <1>2, <1>3, <1>4, Arrays
  <1>6. ASSUME pc' = "decode" PROVE Filled'
    <2>1. u08_dest' = BitsOf(device, nb) /\ nb <= MaxRegs /\ pynb >= 0
      BY <1>3, <1>4, <1>6 DEF NewList
    <2>2. code' = code /\ device' = device /\ nb' = nb /\ pynb' = pynb
      BY <1>1 DEF args, nb
    <2>3. BitsOf(device, nb)' = BitsOf(device, nb)
      BY <2>2 DEF BitsOf
    <2>4. u16_dest' = Zeros /\ Zeros' = Zeros
      BY <1>1, <1>2 DEF Zeros
    <2>5. code' \in {1, 2} /\ code' \notin {3, 4}
      BY <1>1, <2>2
    <2> QED BY <2>1, <2>2, <2>3, <2>4, <2>5 DEF Filled
  <1>7. pc' \in {"decode", "raised", "overrun"}
    BY <1>4 DEF NewList
  <1> QED BY <1>1, <1>5, <1>6, <1>7, FetchStep

\* A read of registers fills the array of registers.
LEMMA FetchRegistersLoop == LoopInv /\ FetchRegisters => LoopInv'
  <1> SUFFICES ASSUME LoopInv, FetchRegisters PROVE LoopInv'
    OBVIOUS
  <1>1. /\ pc = "ask" /\ UNCHANGED <<args, i, j, ieee, list>> /\ code \in {3, 4}
        /\ u08_dest' = u08_dest /\ nb <= MaxRegs /\ pc' = NewList
        /\ u16_dest' = Received(device, Quantity)
    BY DEF FetchRegisters
  <1>2. u08_dest = Zeros /\ Arguments
    BY <1>1 DEF LoopInv, Fresh
  <1>3. nb \in Int /\ pynb \in Int
    BY <1>2, Ints
  <1>4. Quantity \in Int
    <2>1. CountVals \in Nat \ {0}
      BY WidthsAssumption
    <2> QED BY <1>3, <2>1 DEF Quantity
  <1>5. u16_dest' \in [Index -> Register] /\ u08_dest' \in [Index -> 0 .. 1]
    BY <1>1, <1>2, <1>4, Arrays
  <1>6. ASSUME pc' = "decode" PROVE Filled'
    <2>1. pynb >= 0
      BY <1>1, <1>3, <1>6 DEF NewList
    <2>2. code' = code /\ device' = device /\ nb' = nb /\ pynb' = pynb
      BY <1>1 DEF args, nb
    <2>3. Received(device, Quantity)' = Received(device, Quantity)
      BY <2>2 DEF Received, Quantity
    <2>4. u08_dest' = Zeros /\ Zeros' = Zeros
      BY <1>1, <1>2 DEF Zeros
    <2>5. code' \in {3, 4} /\ code' \notin {1, 2}
      BY <1>1, <2>2
    <2> QED BY <1>1, <2>1, <2>2, <2>3, <2>4, <2>5 DEF Filled
  <1>7. pc' \in {"decode", "raised", "overrun"}
    BY <1>1 DEF NewList
  <1> QED BY <1>1, <1>5, <1>6, <1>7, FetchStep

\* A call that raises leaves the loops alone.
LEMMA RaiseLoop == LoopInv /\ Raise => LoopInv'
  <1> SUFFICES ASSUME LoopInv, Raise PROVE LoopInv'
    OBVIOUS
  <1>1. /\ pc = "ask" /\ pc' = "raised" /\ UNCHANGED <<args, i, j, ieee, list>>
        /\ u16_dest' = u16_dest /\ u08_dest' = u08_dest
    BY DEF Raise
  <1>2. u16_dest' \in [Index -> Register] /\ u08_dest' \in [Index -> 0 .. 1]
    BY <1>1 DEF LoopInv, TypeOK
  <1> QED BY <1>1, <1>2, FetchStep

\* Steps of the loops keep the arguments and the arrays.
LEMMA KeptArrays ==
    ASSUME LoopInv, UNCHANGED <<args, u16_dest, u08_dest>>,
           pc = "decode", pc' \in {"decode", "done", "overrun"}
    PROVE  /\ Arguments' /\ Fresh' /\ Filled'
           /\ u16_dest' \in [Index -> Register] /\ u08_dest' \in [Index -> 0 .. 1]
           /\ type' = type /\ pynb' = pynb
  <1>1. /\ code' = code /\ type' = type /\ pynb' = pynb /\ device' = device
        /\ u16_dest' = u16_dest /\ u08_dest' = u08_dest
    BY DEF args
  <1>2. nb' = nb /\ Quantity' = Quantity /\ Zeros' = Zeros
    BY <1>1 DEF nb, Quantity, Zeros
  <1>3. /\ BitsOf(device, nb)' = BitsOf(device, nb)
        /\ Received(device, Quantity)' = Received(device, Quantity)
    BY <1>1, <1>2 DEF BitsOf, Received
  <1>4. Filled'
    BY <1>1, <1>2, <1>3 DEF LoopInv, Filled
  <1>5. Arguments' /\ Fresh'
    BY <1>1 DEF LoopInv, Arguments, Fresh
  <1> QED BY <1>1, <1>4, <1>5 DEF LoopInv, TypeOK

\* What At is worth, one width at a time.
LEMMA AtFacts ==
    ASSUME LoopInv
    PROVE  /\ At \in Nat /\ i \in Nat /\ j \in Nat
           /\ Words(type) = 1 => At = i + j
           /\ Words(type) = 2 => At = 2 * i + j
           /\ Words(type) = 4 => At = 4 * i + j
           /\ At \in Index <=> At < MaxRegs
  <1>1. i \in Nat /\ j \in 0 .. Words(type) /\ Words(type) \in {1, 2, 4} /\ MaxRegs \in Nat
    BY Ints DEF LoopInv, TypeOK
  <1>2. j \in Nat
    BY <1>1
  <1> QED BY <1>1, <1>2 DEF At, Index

\* One turn of the inner loop stays in the array and in the C type.
LEMMA AddWordLoop == LoopInv /\ AddWord => LoopInv'
  <1> SUFFICES ASSUME LoopInv, AddWord PROVE LoopInv'
    OBVIOUS
  <1>1. /\ pc = "decode" /\ pc' = "decode" /\ i' = i /\ list' = list /\ j' = j + 1
        /\ j < Words(type) /\ At \in Index /\ i < pynb
        /\ ieee' = Accumulator(type, ieee + Place(type, u16_dest[At], j))
        /\ UNCHANGED <<args, u16_dest, u08_dest>>
    BY DEF AddWord
  <1>2. /\ Arguments' /\ Fresh' /\ Filled'
        /\ u16_dest' \in [Index -> Register] /\ u08_dest' \in [Index -> 0 .. 1]
        /\ type' = type /\ pynb' = pynb
    BY <1>1, KeptArrays
  <1>3. i \in Nat /\ j \in Nat /\ At \in Nat /\ Words(type) \in {1, 2, 4} /\ MaxRegs \in Nat
    BY AtFacts, Ints DEF LoopInv
  <1>4. j' \in 0 .. Words(type)
    BY <1>1, <1>3
  <1>5. At' = At + 1 /\ At + 1 <= MaxRegs
    <2>1. At' = i * Words(type) + (j + 1)
      BY <1>1, <1>2 DEF At, Words
    <2>2. At' = At + 1
      BY <1>3, <2>1 DEF At
    <2>3. At < MaxRegs
      BY <1>1, AtFacts
    <2> QED BY <1>3, <2>2, <2>3
  <1>6. At' <= MaxRegs
    BY <1>5
  <1>7. ieee' \in Span(type)
    <2>1. ieee \in Int
      <3>1. ieee \in Span(type)
        BY SpanOfType DEF LoopInv
      <3>2. Power(2) \in Nat /\ Power(Words(type)) \div 2 \in Nat
        BY Powers, EvenPower DEF LoopInv, Arguments, Even
      <3> QED BY <3>1, <3>2 DEF Span
    <2>2. Place(type, u16_dest[At], j) \in Int
      <3>1. u16_dest[At] \in Nat
        BY <1>1, WidthsAssumption DEF LoopInv, TypeOK, Register
      <3>2. j \in 0 .. 4
        BY <1>1, <1>3
      <3>3. Power(j) \in Nat
        BY <3>2, Powers
      <3> QED BY <3>1, <3>3 DEF Place
    <2>3. ieee + Place(type, u16_dest[At], j) \in Int
      BY <2>1, <2>2
    <2> QED BY <1>1, <2>3, AccumulatorFacts DEF LoopInv, Arguments
  <1>8. TypeOK'
    BY <1>1, <1>2, <1>4, <1>6, <1>7 DEF LoopInv, TypeOK, Span, Words, Power
  <1> QED BY <1>2, <1>8 DEF LoopInv

\* ieee is a number.
LEMMA IntOfType ==
    ASSUME Arguments, TypeOK
    PROVE  ieee \in Int
  <1>1. ieee \in Span(type)
    BY SpanOfType
  <1>2. Power(2) \in Nat /\ Power(Words(type)) \div 2 \in Nat
    BY Powers, EvenPower DEF Arguments, Even
  <1> QED BY <1>1, <1>2 DEF Span

\* The item that AddItem appends, in the range of its type.
LEMMA ItemFacts ==
    ASSUME LoopInv
    PROVE  /\ WideItem \in Int
           /\ type = "S32" => WideItem \in -(Power(2) \div 2) .. Power(2) \div 2 - 1
           /\ i \in Index /\ Words(type) = 1 => SingleItem \in Int
           /\ i \in Index /\ type = "U16" => SingleItem \in Register
           /\ i \in Index /\ type = "S16" => SingleItem \in -(R \div 2) .. R \div 2 - 1
  <1>1. ieee \in Int /\ ieee \in Span(type)
    BY IntOfType, SpanOfType DEF LoopInv
  <1>2. Even(Power(2)) /\ Power(2) \div 2 \in Int /\ Even(R) /\ R \div 2 \in Int
    BY Powers DEF Even
  <1>3. Signed(ieee, Power(2)) \in Int
    <2> DEFINE h == Power(2) \div 2
    <2>1. Signed(ieee, Power(2)) \in -h .. h - 1
      BY <1>1, <1>2, SignedFacts
    <2>2. h \in Int
      BY <1>2
    <2> HIDE DEF h
    <2> QED BY <2>1, <2>2
  <1>4. WideItem \in Int
    BY <1>1, <1>3 DEF WideItem
  <1>5. type = "S32" => WideItem \in -(Power(2) \div 2) .. Power(2) \div 2 - 1
    BY <1>1, TypeWidths DEF WideItem, Span, LoopInv, Arguments
  <1>6. ASSUME i \in Index
        PROVE  /\ u16_dest[i] \in Register /\ u16_dest[i] \in Int /\ u08_dest[i] \in Int
               /\ Signed(u16_dest[i], R) \in -(R \div 2) .. R \div 2 - 1
    <2>1. u16_dest[i] \in Register /\ u08_dest[i] \in 0 .. 1
      BY <1>6 DEF LoopInv, TypeOK
    <2>2. u16_dest[i] \in Int
      BY <2>1, WidthsAssumption DEF Register
    <2>3. Signed(u16_dest[i], R) \in -(R \div 2) .. R \div 2 - 1
      BY <1>2, <2>2, SignedFacts
    <2> QED BY <2>1, <2>2, <2>3
  <1>7. Words(type) = 1 => type \in {"U16", "S16", "B08"}
    BY TypeWidths DEF LoopInv, Arguments
  <1>8. i \in Index /\ type = "U16" => SingleItem \in Register /\ SingleItem \in Int
    BY <1>6 DEF SingleItem
  <1>9. i \in Index /\ type = "S16" =>
           SingleItem \in -(R \div 2) .. R \div 2 - 1 /\ SingleItem \in Int
    <2>1. type = "S16" => SingleItem = Signed(u16_dest[i], R)
      BY DEF SingleItem
    <2> QED BY <1>2, <1>6, <2>1
  <1>10. i \in Index /\ type = "B08" => SingleItem \in Int
    BY <1>6 DEF SingleItem
  <1> QED BY <1>4, <1>5, <1>7, <1>8, <1>9, <1>10

\* An item has been appended.
LEMMA Appended ==
    ASSUME LoopInv, AddItem
    PROVE  /\ pc = "decode" /\ pc' = "decode" /\ UNCHANGED <<args, u16_dest, u08_dest>>
           /\ i' = i + 1 /\ j' = 0 /\ ieee' = 0 /\ i < pynb /\ i \in Nat
           /\ \E item \in Int :
                 /\ list' = Append(list, item)
                 /\ \/ Words(type) = 1 /\ i \in Index /\ item = SingleItem
                    \/ Words(type) > 1 /\ j = Words(type) /\ item = WideItem
  <1>1. \/ Words(type) = 1 /\ i \in Index /\ list' = Append(list, SingleItem)
        \/ Words(type) > 1 /\ j = Words(type) /\ list' = Append(list, WideItem)
    BY DEF AddItem
  <1>2. /\ WideItem \in Int
        /\ i \in Index /\ Words(type) = 1 => SingleItem \in Int
    BY ItemFacts
  <1>3. \E item \in Int :
           /\ list' = Append(list, item)
           /\ \/ Words(type) = 1 /\ i \in Index /\ item = SingleItem
              \/ Words(type) > 1 /\ j = Words(type) /\ item = WideItem
    BY <1>1, <1>2
  <1> QED BY <1>3, AtFacts DEF AddItem

\* One turn of the outer loop stays in the array and appends a number.
LEMMA AddItemLoop == LoopInv /\ AddItem => LoopInv'
  <1> SUFFICES ASSUME LoopInv, AddItem PROVE LoopInv'
    OBVIOUS
  <1>1. /\ pc = "decode" /\ pc' = "decode" /\ UNCHANGED <<args, u16_dest, u08_dest>>
        /\ i' = i + 1 /\ j' = 0 /\ ieee' = 0 /\ i < pynb
    BY Appended
  <1>2. PICK item \in Int :
           /\ list' = Append(list, item)
           /\ \/ Words(type) = 1 /\ i \in Index
              \/ Words(type) > 1 /\ j = Words(type)
    BY Appended
  <1>3. /\ Arguments' /\ Fresh' /\ Filled'
        /\ u16_dest' \in [Index -> Register] /\ u08_dest' \in [Index -> 0 .. 1]
        /\ type' = type /\ pynb' = pynb
    BY <1>1, KeptArrays
  <1>4. i \in Nat /\ j \in Nat /\ Words(type) \in {1, 2, 4} /\ MaxRegs \in Nat /\ pynb \in Int
    BY AtFacts, Ints DEF LoopInv
  <1>5. At' <= MaxRegs
    <2>1. At' = (i + 1) * Words(type) + 0
      BY <1>1, <1>3 DEF At, Words
    <2>2. CASE Words(type) = 1 /\ i \in Index
      BY <1>4, <2>1, <2>2 DEF Index
    <2>3. CASE Words(type) > 1 /\ j = Words(type)
      <3>1. At <= MaxRegs
        BY DEF LoopInv, TypeOK
      <3>2. At' = At
        BY <1>4, <2>1, <2>3 DEF At
      <3> QED BY <3>1, <3>2
    <2> QED BY <1>2, <2>2, <2>3
  <1>7. 0 \in Span(type) /\ 0 \in 0 .. Words(type)
    BY <1>4, AccumulatorFacts DEF LoopInv, Arguments
  <1>8. list' \in Seq(Int) /\ Len(list') = i'
    BY <1>1, <1>2 DEF LoopInv, TypeOK
  <1>9. i' \in Nat /\ i' <= pynb'
    BY <1>1, <1>3, <1>4
  <1>10. TypeOK'
    BY <1>1, <1>3, <1>5, <1>7, <1>8, <1>9 DEF LoopInv, TypeOK, Span, Words, Power
  <1> QED BY <1>3, <1>10 DEF LoopInv

\* The loops end, or leave the array.
LEMMA LeaveLoop == LoopInv /\ (ReadBeyond \/ ReturnList) => LoopInv'
  <1> SUFFICES ASSUME LoopInv, ReadBeyond \/ ReturnList PROVE LoopInv'
    OBVIOUS
  <1>1. /\ pc = "decode" /\ pc' \in {"done", "overrun"}
        /\ UNCHANGED <<args, u16_dest, u08_dest, i, j, ieee, list>>
    BY DEF ReadBeyond, ReturnList
  <1>2. /\ Arguments' /\ Fresh' /\ Filled'
        /\ u16_dest' \in [Index -> Register] /\ u08_dest' \in [Index -> 0 .. 1]
        /\ type' = type /\ pynb' = pynb
    BY <1>1, KeptArrays
  <1>3. At' = At
    BY <1>1, <1>2 DEF At, Words
  <1>5. TypeOK'
    BY <1>1, <1>2, <1>3 DEF LoopInv, TypeOK
  <1> QED BY <1>2, <1>5 DEF LoopInv

\* Stuttering.
LEMMA SameLoop == LoopInv /\ UNCHANGED vars => LoopInv'
  <1> SUFFICES ASSUME LoopInv, UNCHANGED vars PROVE LoopInv'
    OBVIOUS
  <1>1. /\ UNCHANGED <<code, type, pynb, device>>
        /\ UNCHANGED <<u16_dest, u08_dest, pc, i, j, ieee, list>>
    BY DEF vars, args
  <1>2. nb' = nb /\ Quantity' = Quantity /\ Zeros' = Zeros /\ At' = At
    BY <1>1 DEF nb, Quantity, Zeros, At
  <1>3. /\ BitsOf(device, nb)' = BitsOf(device, nb)
        /\ Received(device, Quantity)' = Received(device, Quantity)
    BY <1>1, <1>2 DEF BitsOf, Received
  <1>4. Arguments' /\ Fresh'
    BY <1>1, <1>2 DEF LoopInv, Arguments, Fresh
  <1>5. Filled'
    BY <1>1, <1>2, <1>3 DEF LoopInv, Filled
  <1>6. TypeOK'
    BY <1>1, <1>2 DEF LoopInv, TypeOK
  <1> QED BY <1>4, <1>5, <1>6 DEF LoopInv

\* Every step keeps LoopInv.
LEMMA StepLoop == LoopInv /\ [Next]_vars => LoopInv'
  BY FetchBitsLoop, FetchRegistersLoop, RaiseLoop, AddWordLoop, AddItemLoop, LeaveLoop, SameLoop
  DEF Next

\* For any array size, widths and counts, what has been decoded was read inside the
\* arrays, and every number is in its C type.
THEOREM TypeCorrect == Spec => []TypeOK
  <1>1. LoopInv => TypeOK
    BY DEF LoopInv
  <1> QED BY <1>1, InitLoop, StepLoop, PTL DEF Spec

\* LoopInv is an invariant.
LEMMA LoopCorrect == Spec => []LoopInv
  BY InitLoop, StepLoop, PTL DEF Spec

-----------------------------------------------------------------------------
(* Where the arrays are left *)

\* Every step that leaves the arrays does so for one of the two reasons.
LEMMA StepArrays == LoopInv /\ StaysInArrays /\ [Next]_vars => StaysInArrays'
  <1> SUFFICES ASSUME LoopInv, StaysInArrays, [Next]_vars PROVE StaysInArrays'
    OBVIOUS
  <1> DEFINE n == Words(type) * pynb
  <1>1. /\ pynb \in Int /\ nb \in Int /\ Words(type) \in {1, 2, 4} /\ MaxRegs \in Nat \ {0}
        /\ n \in Int
        /\ nb = n \/ n \notin -(IntVals \div 2) .. IntVals \div 2 - 1
    BY Ints DEF LoopInv
  <1> DEFINE Left == \/ code \in {1, 2} /\ n > MaxRegs
                     \/ n \notin -(IntVals \div 2) .. IntVals \div 2 - 1
  <1>2. ASSUME Left, UNCHANGED args PROVE StaysInArrays'
    <2>1. code' = code /\ type' = type /\ pynb' = pynb
      BY <1>2 DEF args
    <2>2. (Words(type) * pynb)' = n
      BY <2>1 DEF Words
    <2> QED BY <1>2, <2>1, <2>2 DEF StaysInArrays
  <1>3. CASE FetchBits
    <2>1. code \in {1, 2} /\ UNCHANGED args /\ (pc' = "overrun" => nb > MaxRegs)
      BY <1>3 DEF FetchBits, NewList
    <2>2. CASE pc' # "overrun"
      BY <2>2 DEF StaysInArrays
    <2>3. CASE pc' = "overrun"
      <3>1. Left
        BY <1>1, <2>1, <2>3
      <3> QED BY <1>2, <2>1, <3>1
    <2> QED BY <2>2, <2>3
  <1>4. CASE ReadBeyond
    <2>1. pc = "decode" /\ UNCHANGED args /\ i < pynb /\ j < Words(type) /\ At \notin Index
      BY <1>4 DEF ReadBeyond
    <2>2. i \in Nat /\ j \in Nat /\ At \in Nat /\ At >= MaxRegs
      BY <1>1, <2>1, AtFacts
    <2>3. n > At
      BY <1>1, <2>1, <2>2, AtFacts
    <2>4. n > MaxRegs
      BY <1>1, <2>2, <2>3
    <2>5. nb <= MaxRegs
      BY <2>1 DEF LoopInv, Filled
    <2>6. n \notin -(IntVals \div 2) .. IntVals \div 2 - 1
      BY <1>1, <2>4, <2>5
    <2> QED BY <1>2, <2>1, <2>6
  <1>5. CASE FetchRegisters \/ Raise \/ AddWord \/ AddItem \/ ReturnList
    BY <1>5 DEF FetchRegisters, Raise, AddWord, AddItem, ReturnList, NewList, StaysInArrays
  <1>6. CASE UNCHANGED vars
    <2>1. CASE pc = "overrun"
      <3>1. Left
        BY <2>1 DEF StaysInArrays
      <3> QED BY <1>2, <1>6, <3>1 DEF vars
    <2>2. CASE pc # "overrun"
      BY <1>6, <2>2 DEF vars, StaysInArrays
    <2> QED BY <2>1, <2>2
  <1> QED BY <1>3, <1>4, <1>5, <1>6 DEF Next

\* The code leaves an array only by a read of too many bits, or when the number of
\* items makes the product nb overflow.
THEOREM StaysInArraysCorrect == Spec => []StaysInArrays
  <1>1. Init => StaysInArrays
    BY DEF Init, StaysInArrays
  <1> QED BY <1>1, InitLoop, StepArrays, StepLoop, PTL DEF Spec

-----------------------------------------------------------------------------
(* Ranges *)

InRange(x) == CASE type = "U16" -> x \in Register
                [] type = "S16" -> x \in -(R \div 2) .. R \div 2 - 1
                [] type = "S32" -> x \in -(Power(2) \div 2) .. Power(2) \div 2 - 1
                [] OTHER        -> TRUE

InRanges == \A m \in 1 .. Len(list) : InRange(list[m])

\* Appending an item.
LEMMA AppendFacts ==
    ASSUME NEW s \in Seq(Int), NEW x \in Int
    PROVE  /\ Len(Append(s, x)) = Len(s) + 1 /\ Len(s) \in Nat
           /\ \A m \in 1 .. Len(s) : Append(s, x)[m] = s[m]
           /\ Append(s, x)[Len(s) + 1] = x
           /\ \A m \in 1 .. Len(s) + 1 : m \in 1 .. Len(s) \/ m = Len(s) + 1
  OBVIOUS

\* Every step but AddItem leaves the list alone.
LEMMA SameList ==
    ASSUME [Next]_vars, ~AddItem
    PROVE  list' = list /\ UNCHANGED args
  BY DEF Next, vars, FetchBits, FetchRegisters, Raise, ReadBeyond, AddWord, ReturnList

\* Every step keeps the items in range.
LEMMA StepRanges == LoopInv /\ InRanges /\ [Next]_vars => InRanges'
  <1> SUFFICES ASSUME LoopInv, InRanges, [Next]_vars PROVE InRanges'
    OBVIOUS
  <1>1. CASE ~AddItem
    <2>1. list' = list /\ type' = type
      BY <1>1, SameList DEF args
    <2>2. \A x : InRange(x)' = InRange(x)
      BY <2>1 DEF InRange, Power
    <2> QED BY <2>1, <2>2 DEF InRanges, InRange, Power
  <1>2. CASE AddItem
    <2>1. type' = type
      BY <1>2, Appended DEF args
    <2>2. PICK item \in Int :
             /\ list' = Append(list, item)
             /\ \/ Words(type) = 1 /\ i \in Index /\ item = SingleItem
                \/ Words(type) > 1 /\ j = Words(type) /\ item = WideItem
      BY <1>2, Appended
    <2>3. InRange(item)
      <3>1. Words(type) = 1 <=> type \in {"U16", "S16", "B08"}
        BY TypeWidths DEF LoopInv, Arguments
      <3>2. CASE type = "U16"
        BY <2>2, <3>1, <3>2, ItemFacts DEF InRange
      <3>3. CASE type = "S16"
        BY <2>2, <3>1, <3>3, ItemFacts DEF InRange
      <3>4. CASE type = "S32"
        BY <2>2, <3>1, <3>4, ItemFacts DEF InRange
      <3>5. CASE type \notin {"U16", "S16", "S32"}
        BY <3>5 DEF InRange
      <3> QED BY <3>2, <3>3, <3>4, <3>5
    <2>4. list \in Seq(Int)
      BY DEF LoopInv, TypeOK
    <2>5. \A m \in 1 .. Len(list') : InRange(list'[m])
      BY <2>2, <2>3, <2>4, AppendFacts DEF InRanges
    <2> QED BY <2>1, <2>5 DEF InRanges, InRange, Power
  <1> QED BY <1>1, <1>2

\* Each item returned, but for U32, is in the range that its type names.
THEOREM RangeOfTypeCorrect == Spec => []RangeOfType
  <1>1. Init => InRanges
    BY DEF Init, InRanges
  <1>2. InRanges => RangeOfType
    BY DEF InRanges, InRange, RangeOfType
  <1> QED BY <1>1, <1>2, InitLoop, StepLoop, StepRanges, PTL DEF Spec

-----------------------------------------------------------------------------
(* The array that nobody filled *)

\* What the arrays hold when the loops read them.
LEMMA Contents ==
    ASSUME LoopInv, pc = "decode", NEW x \in Index
    PROVE  /\ code \in {1, 2} =>
                 u16_dest[x] = 0 /\ u08_dest[x] = IF x < nb THEN device[x] % 2 ELSE 0
           /\ code \in {3, 4} =>
                 u08_dest[x] = 0 /\ u16_dest[x] = IF x < Quantity THEN device[x] ELSE 0
           /\ code \in {1, 2} \/ code \in {3, 4}
  BY DEF LoopInv, Filled, Arguments, Zeros, BitsOf, Received

AllZero == ~Fits => ieee = 0 /\ \A m \in 1 .. Len(list) : list[m] = 0

\* Zero stays zero.
LEMMA SignedZero ==
    ASSUME NEW m, Even(m)
    PROVE  Signed(0, m) = 0
  <1>1. 0 \in -(m \div 2) .. m \div 2 - 1 /\ 0 \in Int
    BY DEF Even
  <1> QED BY <1>1, SignedFacts

\* Every step keeps the items of a misfit zero.
LEMMA StepZero == LoopInv /\ AllZero /\ [Next]_vars => AllZero'
  <1> SUFFICES ASSUME LoopInv, AllZero, [Next]_vars PROVE AllZero'
    OBVIOUS
  <1>1. code' = code /\ type' = type /\ Fits' = Fits
    <2>1. UNCHANGED args
      BY SameList, Appended
    <2> QED BY <2>1 DEF args, Fits
  <1>2. CASE Fits
    BY <1>1, <1>2 DEF AllZero
  <1>3. CASE AddWord /\ ~Fits
    <2>1. /\ pc = "decode" /\ j < Words(type) /\ At \in Index /\ list' = list
          /\ Words(type) > 1
          /\ ieee' = Accumulator(type, ieee + Place(type, u16_dest[At], j))
      BY <1>3 DEF AddWord
    <2>2. type # "B08" /\ type \in Types
      BY <2>1, TypeWidths DEF LoopInv, Arguments
    <2>3. code \in {1, 2}
      BY <1>3, <2>2 DEF Fits
    <2>4. u16_dest[At] = 0
      BY <2>1, <2>3, Contents
    <2>5. Power(j) \in Nat
      <3>1. j \in 0 .. 4
        BY <2>1, AtFacts, Ints DEF LoopInv
      <3> QED BY <3>1, Powers
    <2>6. Place(type, 0, j) = 0
      BY <2>5 DEF Place
    <2>7. ieee + Place(type, u16_dest[At], j) = 0
      BY <1>3, <2>4, <2>6 DEF AllZero
    <2>8. ieee' = 0
      BY <2>1, <2>2, <2>7, AccumulatorFacts
    <2> QED BY <1>3, <2>1, <2>8 DEF AllZero
  <1>4. CASE AddItem /\ ~Fits
    <2>1. pc = "decode" /\ ieee' = 0 /\ ieee = 0
      BY <1>3, <1>4, Appended DEF AllZero
    <2>2. PICK item \in Int :
             /\ list' = Append(list, item)
             /\ \/ Words(type) = 1 /\ i \in Index /\ item = SingleItem
                \/ Words(type) > 1 /\ j = Words(type) /\ item = WideItem
      BY <1>4, Appended
    <2>3. item = 0
      <3>1. CASE Words(type) = 1 /\ i \in Index /\ item = SingleItem
        <4>1. type \in {"U16", "S16", "B08"}
          BY <3>1, TypeWidths DEF LoopInv, Arguments
        <4>2. CASE type = "B08"
          <5>1. code \in {3, 4}
            BY <1>4, <4>2 DEF Fits, LoopInv, Arguments
          <5>2. u08_dest[i] = 0
            BY <2>1, <3>1, <5>1, Contents
          <5> QED BY <3>1, <4>2, <5>2 DEF SingleItem
        <4>3. CASE type \in {"U16", "S16"}
          <5>1. code \in {1, 2}
            BY <1>4, <4>3 DEF Fits
          <5>2. u16_dest[i] = 0
            BY <2>1, <3>1, <5>1, Contents
          <5>3. Signed(0, R) = 0
            BY Powers, SignedZero
          <5> QED BY <3>1, <4>3, <5>2, <5>3 DEF SingleItem
        <4> QED BY <4>1, <4>2, <4>3
      <3>2. CASE item = WideItem
        <4>1. Signed(0, Power(2)) = 0
          BY Powers, SignedZero
        <4> QED BY <2>1, <3>2, <4>1 DEF WideItem
      <3> QED BY <2>2, <3>1, <3>2
    <2>4. list \in Seq(Int) /\ \A m \in 1 .. Len(list) : list[m] = 0
      BY <1>4 DEF LoopInv, TypeOK, AllZero
    <2>5. \A m \in 1 .. Len(list') : list'[m] = 0
      BY <2>2, <2>3, <2>4, AppendFacts
    <2> QED BY <2>1, <2>5 DEF AllZero
  <1>5. CASE ~AddWord /\ ~AddItem
    <2>1. ieee' = ieee /\ list' = list
      BY <1>5 DEF Next, vars, FetchBits, FetchRegisters, Raise, ReadBeyond, ReturnList
    <2> QED BY <1>1, <2>1 DEF AllZero
  <1> QED BY <1>2, <1>3, <1>4, <1>5

\* A type that is read with a function for the other array comes out as zeros.
THEOREM MisfitIsZeroCorrect == Spec => []MisfitIsZero
  <1>1. Init => AllZero
    BY DEF Init, AllZero
  <1>2. AllZero => MisfitIsZero
    BY DEF AllZero, MisfitIsZero
  <1> QED BY <1>1, <1>2, InitLoop, StepLoop, StepZero, PTL DEF Spec

-----------------------------------------------------------------------------
(* Bits *)

\* The item in progress fits the array, and so does the product nb.
Whole == pynb >= 0 /\ Words(type) * pynb <= MaxRegs

\* A request for no more than the array holds is sent as it is.
LEMMA WholeCount ==
    ASSUME Arguments, Whole
    PROVE  nb = Words(type) * pynb /\ Quantity = nb
  <1>1. /\ pynb \in Int /\ Words(type) \in {1, 2, 4} /\ Words(type) * pynb \in Int
        /\ \/ nb = Words(type) * pynb
           \/ Words(type) * pynb \notin -(IntVals \div 2) .. IntVals \div 2 - 1
    BY Ints
  <1> DEFINE n == Words(type) * pynb
  <1>2. n >= 0 /\ n <= MaxRegs
    BY <1>1 DEF Whole
  <1> HIDE DEF n
  <1>3. n \in Int
    BY <1>1 DEF n
  <1>4. /\ MaxRegs \in Nat /\ MaxBits \in Nat /\ CountVals \in Nat \ {0}
        /\ MaxRegs <= MaxBits /\ MaxBits < CountVals /\ MaxBits < IntVals \div 2
        /\ IntVals \div 2 \in Nat
    BY WidthsAssumption, EvenInt DEF Even
  <1>5. n \in -(IntVals \div 2) .. IntVals \div 2 - 1
    BY <1>2, <1>3, <1>4
  <1>6. nb = n
    BY <1>1, <1>5 DEF n
  <1>7. n \in 0 .. CountVals - 1
    BY <1>2, <1>3, <1>4
  <1>8. n % CountVals = n
    BY <1>4, <1>7
  <1> QED BY <1>6, <1>8 DEF Quantity, n

\* The registers of each item asked for were read.
LEMMA Indices ==
    ASSUME Arguments, Whole, NEW m \in Nat, m < pynb, NEW k \in Nat, k < Words(type)
    PROVE  /\ m * Words(type) + k \in Index
           /\ m * Words(type) + k < Words(type) * pynb
  <1>1. pynb \in Int /\ Words(type) \in {1, 2, 4} /\ MaxRegs \in Nat
    BY Ints
  <1>2. CASE Words(type) = 1
    BY <1>1, <1>2 DEF Whole, Index
  <1>3. CASE Words(type) = 2
    BY <1>1, <1>3 DEF Whole, Index
  <1>4. CASE Words(type) = 4
    BY <1>1, <1>4 DEF Whole, Index
  <1> QED BY <1>1, <1>2, <1>3, <1>4

\* The number in the first k registers of item m.
Upto(m, k) ==
    CASE k = 0 -> 0
      [] k = 1 -> Part(type, m, 0)
      [] k = 2 -> Part(type, m, 0) + Part(type, m, 1)
      [] k = 3 -> Part(type, m, 0) + Part(type, m, 1) + Part(type, m, 2)
      [] OTHER -> Number(type, m)

\* What a register adds is a number.
LEMMA PartInt ==
    ASSUME Arguments, Whole, NEW m \in Nat, m < pynb, NEW k \in 0 .. 3
    PROVE  Part(type, m, k) \in Int
  <1>1. CASE k < Words(type)
    <2>1. m * Words(type) + k \in Index
      BY <1>1, Indices
    <2>2. device[m * Words(type) + k] \in Int
      BY <2>1, WidthsAssumption DEF Arguments, Register
    <2>3. Power(k) \in Int
      BY Powers
    <2> QED BY <1>1, <2>2, <2>3 DEF Part
  <1>2. CASE ~(k < Words(type))
    BY <1>2 DEF Part
  <1> QED BY <1>1, <1>2

\* The number of an item is the sum of what its registers add.
LEMMA UptoFacts ==
    ASSUME Arguments, Whole, NEW m \in Nat, m < pynb
    PROVE  /\ Number(type, m) \in Int
           /\ \A k \in 0 .. 3 : /\ Upto(m, k) \in Int
                                /\ Upto(m, k + 1) = Upto(m, k) + Part(type, m, k)
           /\ Upto(m, Words(type)) = Number(type, m)
  <1> DEFINE p(k) == Part(type, m, k)
  <1>1. p(0) \in Int /\ p(1) \in Int /\ p(2) \in Int /\ p(3) \in Int
    BY PartInt
  <1>2. Number(type, m) = p(0) + p(1) + p(2) + p(3)
    BY DEF Number
  <1>3. Words(type) \in {1, 2, 4}
    BY Ints
  <1>4. /\ Words(type) = 1 => p(1) = 0 /\ p(2) = 0 /\ p(3) = 0
        /\ Words(type) = 2 => p(2) = 0 /\ p(3) = 0
    BY DEF Part
  <1>5. /\ Upto(m, 0) = 0 /\ Upto(m, 1) = p(0) /\ Upto(m, 2) = p(0) + p(1)
        /\ Upto(m, 3) = p(0) + p(1) + p(2) /\ Upto(m, 4) = Number(type, m)
    BY DEF Upto
  <1> HIDE DEF p
  <1>6. \A k \in 0 .. 3 : Upto(m, k) \in Int /\ Upto(m, k + 1) = Upto(m, k) + p(k)
    <2>1. \A k \in 0 .. 3 : k = 0 \/ k = 1 \/ k = 2 \/ k = 3
      OBVIOUS
    <2>2. Upto(m, 0 + 1) = Upto(m, 0) + p(0) /\ Upto(m, 1 + 1) = Upto(m, 1) + p(1)
      BY <1>1, <1>5
    <2>3. Upto(m, 2 + 1) = Upto(m, 2) + p(2) /\ Upto(m, 3 + 1) = Upto(m, 3) + p(3)
      BY <1>1, <1>2, <1>5
    <2> QED BY <1>1, <1>5, <2>1, <2>2, <2>3
  <1>7. Upto(m, Words(type)) = Number(type, m)
    BY <1>1, <1>2, <1>3, <1>4, <1>5
  <1>8. Number(type, m) \in Int
    BY <1>1, <1>2
  <1> QED BY <1>6, <1>7, <1>8 DEF p

ItemExact(x, m) == IF type = "B08" THEN x = device[m] % 2
                                   ELSE Cong(x, Number(type, m), Power(Words(type)))

\* The item in progress has the bits of the registers added so far, and every item
\* in the list those of its own.
Exact ==
    /\ pc \in {"decode", "done"} /\ Fits /\ Whole =>
          /\ type # "B08" => Cong(ieee, Upto(i, j), Power(Words(type)))
          /\ \A m \in 1 .. Len(list) : ItemExact(list[m], m - 1)
    /\ pc = "done" => i = pynb

\* What the slave holds arrives in the array of the type.
LEMMA Arrived ==
    ASSUME LoopInv, pc = "decode", Fits, Whole, i < pynb, NEW k \in Nat, k < Words(type)
    PROVE  /\ i * Words(type) + k \in Index
           /\ type = "B08" => u08_dest[i * Words(type) + k] = device[i * Words(type) + k] % 2
           /\ type # "B08" => u16_dest[i * Words(type) + k] = device[i * Words(type) + k]
  <1> DEFINE x == i * Words(type) + k
  <1>1. nb = Words(type) * pynb /\ Quantity = nb
    BY WholeCount DEF LoopInv
  <1>2. x \in Index /\ x < nb
    BY <1>1, Indices, AtFacts DEF LoopInv
  <1> HIDE DEF x
  <1>3. /\ code \in {1, 2} => u08_dest[x] = device[x] % 2
        /\ code \in {3, 4} => u16_dest[x] = device[x]
        /\ code \in {1, 2} \/ code \in {3, 4}
    BY <1>1, <1>2, Contents
  <1> QED BY <1>2, <1>3 DEF Fits, x

\* A turn of the inner loop adds the next register to ieee.
LEMMA AddWordExact ==
    ASSUME LoopInv, Fits, Whole, AddWord, Cong(ieee, Upto(i, j), Power(Words(type)))
    PROVE  Cong(ieee', Upto(i, j + 1), Power(Words(type)))
  <1> DEFINE m == Power(Words(type))
             a == ieee + Place(type, u16_dest[At], j)
  <1>1. /\ pc = "decode" /\ i < pynb /\ j < Words(type) /\ Words(type) > 1
        /\ ieee' = Accumulator(type, a)
    BY DEF AddWord
  <1>2. Arguments /\ i \in Nat /\ j \in Nat /\ ieee \in Int /\ type \in Types
    BY AtFacts, IntOfType DEF LoopInv, Arguments
  <1>3. type # "B08"
    BY <1>1, <1>2, TypeWidths
  <1>4. u16_dest[At] = device[i * Words(type) + j]
    BY <1>1, <1>2, <1>3, Arrived DEF At
  <1>5. Place(type, u16_dest[At], j) = Part(type, i, j)
    BY <1>1, <1>4 DEF Place, Part
  <1>6. j \in 0 .. 3
    BY <1>1, <1>2, Ints
  <1>7. Part(type, i, j) \in Int
    BY <1>1, <1>2, <1>6, PartInt
  <1>8. Upto(i, j) \in Int /\ Upto(i, j + 1) = Upto(i, j) + Part(type, i, j)
    BY <1>1, <1>2, <1>6, UptoFacts
  <1>9. a \in Int
    BY <1>2, <1>5, <1>7
  <1>10. m \in Nat
    BY <1>2, EvenPower
  <1>11. Accumulator(type, a) \in Int /\ Cong(Accumulator(type, a), a, m)
    <2>1. Accumulator(type, a) \in Span(type) /\ Cong(Accumulator(type, a), a, m)
      BY <1>2, <1>9, AccumulatorFacts
    <2>2. Power(2) \in Nat /\ Power(Words(type)) \div 2 \in Nat
      BY <1>2, Powers, EvenPower DEF Even
    <2> QED BY <2>1, <2>2 DEF Span
  <1>12. Cong(a, Upto(i, j + 1), m)
    <2> DEFINE p == Part(type, i, j)
               u == Upto(i, j)
    <2>1. a = ieee + p /\ Upto(i, j + 1) = u + p
      BY <1>5, <1>8
    <2>2. p \in Int /\ u \in Int /\ Cong(ieee, u, m)
      BY <1>7, <1>8
    <2> HIDE DEF p, u, m, a
    <2>3. Cong(ieee + p, u + p, m)
      BY <1>2, <1>10, <2>2, CongSum
    <2> QED BY <2>1, <2>3
  <1>13. Upto(i, j + 1) \in Int
    BY <1>7, <1>8
  <1> HIDE DEF a, m
  <1>14. Cong(Accumulator(type, a), Upto(i, j + 1), m)
    BY <1>9, <1>10, <1>11, <1>12, <1>13, CongTrans
  <1> QED BY <1>1, <1>14 DEF m

\* Py_BuildValue keeps the bits of the item.
LEMMA AddItemExact ==
    ASSUME LoopInv, Fits, Whole, AddItem, NEW item \in Int,
           type # "B08" => Cong(ieee, Upto(i, j), Power(Words(type))),
           \/ Words(type) = 1 /\ i \in Index /\ item = SingleItem
           \/ Words(type) > 1 /\ j = Words(type) /\ item = WideItem
    PROVE  ItemExact(item, i)
  <1>1. pc = "decode" /\ i < pynb /\ i \in Nat /\ Arguments /\ type \in Types /\ ieee \in Int
    BY Appended, IntOfType DEF LoopInv, Arguments
  <1>2. Number(type, i) \in Int /\ Upto(i, Words(type)) = Number(type, i)
    BY <1>1, UptoFacts
  <1>3. CASE Words(type) = 1 /\ i \in Index /\ item = SingleItem
    <2>1. i * Words(type) + 0 = i /\ 0 < Words(type)
      BY <1>1, <1>3
    <2>2. /\ type = "B08" => u08_dest[i] = device[i] % 2
          /\ type # "B08" => u16_dest[i] = device[i]
      BY <1>1, <2>1, Arrived
    <2>3. type \in {"U16", "S16", "B08"}
      BY <1>1, <1>3, TypeWidths
    <2>4. CASE type = "B08"
      BY <1>3, <2>2, <2>4 DEF ItemExact, SingleItem
    <2>5. CASE type \in {"U16", "S16"}
      <3>1. device[i] \in Int
        BY <1>1, <1>3, WidthsAssumption DEF Arguments, Register
      <3>2. Power(0) = 1 /\ Power(1) = R /\ R \in Nat /\ Even(R)
        BY Powers DEF Even
      <3>3. Part(type, i, 0) = device[i]
        BY <1>3, <2>1, <3>1, <3>2 DEF Part
      <3>4. Number(type, i) = device[i]
        BY <1>2, <1>3, <3>3 DEF Upto
      <3>5. Cong(device[i], device[i], R) /\ Cong(Signed(device[i], R), device[i], R)
        BY <3>1, <3>2, CongSelf, SignedFacts
      <3>6. CASE type = "U16"
        BY <1>3, <2>2, <3>2, <3>4, <3>5, <3>6 DEF ItemExact, SingleItem
      <3>7. CASE type = "S16"
        BY <1>3, <2>2, <3>2, <3>4, <3>5, <3>7 DEF ItemExact, SingleItem
      <3> QED BY <2>5, <3>6, <3>7
    <2> QED BY <2>3, <2>4, <2>5
  <1>4. CASE Words(type) > 1 /\ j = Words(type) /\ item = WideItem
    <2>1. type # "B08"
      BY <1>1, <1>4, TypeWidths
    <2>2. Cong(ieee, Number(type, i), Power(Words(type)))
      BY <1>2, <1>4, <2>1
    <2>3. CASE type = "U32"
      <3>1. Words(type) = 2 /\ Even(Power(2)) /\ Power(2) \in Nat
        BY <1>1, <2>3, TypeWidths, Powers DEF Even
      <3>2. Cong(Signed(ieee, Power(2)), ieee, Power(2))
        BY <1>1, <3>1, SignedFacts
      <3>3. item = Signed(ieee, Power(2))
        BY <1>4, <2>3 DEF WideItem
      <3>4. Cong(item, Number(type, i), Power(2))
        BY <1>1, <1>2, <2>2, <3>1, <3>2, <3>3, CongTrans
      <3> QED BY <2>1, <3>1, <3>4 DEF ItemExact
    <2>4. CASE type # "U32"
      BY <1>4, <2>1, <2>2, <2>4 DEF WideItem, ItemExact
    <2> QED BY <2>3, <2>4
  <1> QED BY <1>3, <1>4

\* The reference numbers depend on the arguments only.
LEMMA SameItems ==
    ASSUME UNCHANGED args
    PROVE  /\ Fits' = Fits /\ Whole' = Whole /\ type' = type /\ pynb' = pynb
           /\ Power(Words(type))' = Power(Words(type))
           /\ \A x, m : ItemExact(x, m)' = ItemExact(x, m)
           /\ \A m, k : Upto(m, k)' = Upto(m, k)
  <1>1. code' = code /\ type' = type /\ pynb' = pynb /\ device' = device
    BY DEF args
  <1>2. Power(Words(type))' = Power(Words(type))
    BY <1>1 DEF Power, Words
  <1>3. \A m : Number(type, m)' = Number(type, m)
    BY <1>1 DEF Number, Part, Words, Power
  <1>4. \A x, m : ItemExact(x, m)' = ItemExact(x, m)
    BY <1>1, <1>2, <1>3 DEF ItemExact, Cong
  <1>5. \A m, k : Part(type, m, k)' = Part(type, m, k)
    BY <1>1 DEF Part, Words, Power
  <1>6. \A m, k : Upto(m, k)' = Upto(m, k)
    BY <1>3, <1>5 DEF Upto
  <1> QED BY <1>1, <1>2, <1>4, <1>6 DEF Fits, Whole, Words

\* Every step keeps Exact.
LEMMA StepExact == LoopInv /\ Exact /\ [Next]_vars => Exact'
  <1> SUFFICES ASSUME LoopInv, Exact, [Next]_vars PROVE Exact'
    OBVIOUS
  <1>1. UNCHANGED args
    BY SameList, Appended
  <1>2. /\ Fits' = Fits /\ Whole' = Whole /\ type' = type /\ pynb' = pynb
        /\ Power(Words(type))' = Power(Words(type))
        /\ \A x, m : ItemExact(x, m)' = ItemExact(x, m)
        /\ \A m, k : Upto(m, k)' = Upto(m, k)
    BY <1>1, SameItems
  <1> DEFINE Progress(n, u, s) ==
        /\ type # "B08" => Cong(n, u, Power(Words(type)))
        /\ \A m \in 1 .. Len(s) : ItemExact(s[m], m - 1)
  <1>3. ASSUME pc' \in {"decode", "done"} /\ Fits /\ Whole => Progress(ieee', Upto(i', j'), list'),
               pc' = "done" => i' = pynb
        PROVE  Exact'
    BY <1>2, <1>3 DEF Exact, Cong
  <1>4. CASE FetchBits \/ FetchRegisters \/ Raise
    <2>1. /\ pc = "ask" /\ pc' # "done"
          /\ i' = i /\ j' = j /\ ieee' = ieee /\ list' = list
      BY <1>4 DEF FetchBits, FetchRegisters, Raise, NewList
    <2>2. i = 0 /\ j = 0 /\ ieee = 0 /\ list = <<>>
      BY <2>1 DEF LoopInv, Fresh
    <2>3. Upto(0, 0) = 0
      BY DEF Upto
    <2>4. Cong(0, 0, Power(Words(type)))
      BY EvenPower, CongSelf DEF LoopInv, Arguments
    <2>5. Progress(ieee', Upto(i', j'), list')
      BY <2>1, <2>2, <2>3, <2>4
    <2> QED BY <1>3, <2>1, <2>5
  <1>5. CASE AddWord
    <2>1. pc = "decode" /\ pc' = "decode" /\ i' = i /\ j' = j + 1 /\ list' = list
      BY <1>5 DEF AddWord
    <2>2. type # "B08"
      BY <1>5, TypeWidths DEF AddWord, LoopInv, Arguments
    <2>3. ASSUME Fits, Whole PROVE Progress(ieee', Upto(i', j'), list')
      <3>1. Progress(ieee, Upto(i, j), list)
        BY <2>1, <2>3 DEF Exact
      <3>2. Cong(ieee', Upto(i, j + 1), Power(Words(type)))
        BY <1>5, <2>2, <2>3, <3>1, AddWordExact
      <3> QED BY <2>1, <3>1, <3>2
    <2> QED BY <1>3, <2>1, <2>3
  <1>6. CASE AddItem
    <2>1. pc = "decode" /\ pc' = "decode" /\ i' = i + 1 /\ j' = 0 /\ ieee' = 0
      BY <1>6, Appended
    <2>2. PICK item \in Int :
             /\ list' = Append(list, item)
             /\ \/ Words(type) = 1 /\ i \in Index /\ item = SingleItem
                \/ Words(type) > 1 /\ j = Words(type) /\ item = WideItem
      BY <1>6, Appended
    <2>3. list \in Seq(Int) /\ Len(list) = i /\ i \in Nat
      BY DEF LoopInv, TypeOK
    <2>4. Upto(i', j') = 0 /\ Cong(0, 0, Power(Words(type)))
      <3>1. Upto(i', j') = 0
        BY <2>1 DEF Upto
      <3>2. Power(Words(type)) \in Nat \ {0}
        BY EvenPower DEF LoopInv, Arguments, Even
      <3> QED BY <3>1, <3>2, CongSelf
    <2>5. ASSUME Fits, Whole PROVE Progress(ieee', Upto(i', j'), list')
      <3>1. Progress(ieee, Upto(i, j), list)
        BY <2>1, <2>5 DEF Exact
      <3>2. ItemExact(item, i)
        BY <1>6, <2>2, <2>5, <3>1, AddItemExact
      <3>3. \A m \in 1 .. Len(list') : ItemExact(list'[m], m - 1)
        <4>1. TAKE m \in 1 .. Len(list')
        <4>2. m \in 1 .. Len(list) \/ m = Len(list) + 1
          BY <2>2, <2>3, AppendFacts
        <4>3. CASE m \in 1 .. Len(list)
          BY <2>2, <2>3, <3>1, <4>3, AppendFacts
        <4>4. CASE m = Len(list) + 1
          <5>1. list'[m] = item /\ m - 1 = i
            BY <2>2, <2>3, <4>4, AppendFacts
          <5> QED BY <3>2, <5>1
        <4> QED BY <4>2, <4>3, <4>4
      <3> QED BY <2>1, <2>4, <3>3
    <2> QED BY <1>3, <2>1, <2>5
  <1>7. CASE ReadBeyond
    BY <1>3, <1>7 DEF ReadBeyond
  <1>8. CASE ReturnList
    <2>1. /\ pc = "decode" /\ i' = i /\ j' = j /\ ieee' = ieee /\ list' = list /\ i = pynb
      BY <1>8 DEF ReturnList
    <2>2. Fits /\ Whole => Progress(ieee', Upto(i', j'), list')
      BY <2>1 DEF Exact
    <2> QED BY <1>3, <2>1, <2>2
  <1>9. CASE UNCHANGED vars
    <2>1. pc' = pc /\ i' = i /\ j' = j /\ ieee' = ieee /\ list' = list
      BY <1>9 DEF vars
    <2>2. pc \in {"decode", "done"} /\ Fits /\ Whole => Progress(ieee', Upto(i', j'), list')
      BY <2>1 DEF Exact
    <2>3. pc = "done" => i = pynb
      BY DEF Exact
    <2> QED BY <1>3, <2>1, <2>2, <2>3
  <1> QED BY <1>4, <1>5, <1>6, <1>7, <1>8, <1>9 DEF Next

\* Every list returned holds exactly the items asked for, each with the bits of its own
\* registers: the indices and shifts of the loops, the casts and Py_BuildValue lose none.
THEOREM BitsExactCorrect == Spec => []BitsExact
  <1>1. Init => Exact
    <2> SUFFICES ASSUME Init PROVE Exact
      OBVIOUS
    <2> QED BY DEF Init, Exact
  <1>2. LoopInv /\ Exact => BitsExact
    <2> SUFFICES ASSUME LoopInv, Exact, pc = "done", Fits PROVE
           /\ Len(list) = pynb
           /\ \A m \in 0 .. pynb - 1 :
                 IF type = "B08" THEN list[m + 1] = device[m] % 2
                 ELSE SameBits(list[m + 1], Number(type, m), Power(Words(type)))
      BY DEF BitsExact
    <2>1. i = pynb /\ Len(list) = pynb /\ list \in Seq(Int) /\ Arguments /\ pynb >= 0
      BY DEF Exact, LoopInv, TypeOK, Filled
    <2>2. Whole
      <3>1. At <= MaxRegs
        BY DEF LoopInv, TypeOK
      <3>2. Words(type) * pynb <= At
        BY <2>1, AtFacts, Ints
      <3>3. At \in Nat /\ MaxRegs \in Nat /\ Words(type) * pynb \in Int
        BY <2>1, AtFacts, Ints
      <3> QED BY <2>1, <3>1, <3>2, <3>3 DEF Whole
    <2>3. ASSUME NEW m \in 0 .. pynb - 1
          PROVE  IF type = "B08" THEN list[m + 1] = device[m] % 2
                 ELSE SameBits(list[m + 1], Number(type, m), Power(Words(type)))
      <3>1. pynb \in Int /\ m \in Nat /\ m < pynb
        BY <2>1, Ints
      <3>2. m + 1 \in 1 .. Len(list) /\ (m + 1) - 1 = m
        BY <2>1, <3>1
      <3>3. ItemExact(list[m + 1], m)
        <4>1. \A k \in 1 .. Len(list) : ItemExact(list[k], k - 1)
          BY <2>2 DEF Exact
        <4>2. ItemExact(list[m + 1], (m + 1) - 1)
          BY <3>2, <4>1
        <4> QED BY <3>2, <4>2
      <3>4. CASE type = "B08"
        BY <3>3, <3>4 DEF ItemExact
      <3>5. CASE type # "B08"
        <4>1. Cong(list[m + 1], Number(type, m), Power(Words(type)))
          BY <3>3, <3>5 DEF ItemExact
        <4>2. list[m + 1] \in Int
          BY <2>1, <3>2
        <4>3. Number(type, m) \in Int
          BY <2>1, <2>2, <3>1, UptoFacts
        <4>4. Power(Words(type)) \in Nat \ {0}
          BY <2>1, EvenPower DEF Arguments
        <4>5. SameBits(list[m + 1], Number(type, m), Power(Words(type)))
          BY <4>1, <4>2, <4>3, <4>4, CongSameBits
        <4> QED BY <3>5, <4>5
      <3> QED BY <3>4, <3>5
    <2> QED BY <2>1, <2>3
  <1> QED BY <1>1, <1>2, InitLoop, StepLoop, StepExact, PTL DEF Spec
==============================================================================
