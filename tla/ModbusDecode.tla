----------------------------- MODULE ModbusDecode -----------------------------
(***************************************************************************)
(* read_registers of pymodbus.c from its arguments to the list it returns: *)
(* how many items libmodbus is asked for, which array they arrive in, and  *)
(* how the loops put registers together and hand them to Py_BuildValue.    *)
(* The exchange itself is in Pymodbus; here it succeeds or raises.         *)
(*                                                                         *)
(* F16 and D32 copy the bits of an integer into a float or a double; the   *)
(* item stands for those bits.                                             *)
(***************************************************************************)
EXTENDS Integers, Sequences

CONSTANTS
    R,          \* values of a register: 2^16 in the code
    IntVals,    \* values of an int: 2^32
    CountVals,  \* values of the number of items in a request: 2^16
    MaxRegs,    \* MODBUS_MAX_READ_REGISTERS, the size of both arrays: 125
    MaxBits,    \* MODBUS_MAX_READ_BITS: 2000
    Counts      \* the ints that callers pass for the number of items

ASSUME WidthsAssumption ==
    /\ R \in Nat \ {0} /\ R % 2 = 0
    /\ IntVals \in Nat \ {0} /\ IntVals % 2 = 0
    /\ CountVals \in Nat \ {0} /\ Counts \subseteq -(IntVals \div 2) .. IntVals \div 2 - 1
    /\ MaxRegs \in Nat \ {0} /\ MaxBits \in Nat
    /\ MaxRegs <= MaxBits /\ MaxBits < CountVals /\ MaxBits < IntVals \div 2

Types    == {"U16", "U32", "S16", "S32", "F16", "D32", "B08"}
Register == 0 .. R - 1
Index    == 0 .. MaxRegs - 1

VARIABLES
    code, type, pynb,     \* the caller's arguments
    device,               \* what the slave holds from the address on
    u16_dest, u08_dest,   \* the arrays
    pc,                   \* "ask", "decode", "done", "raised" or "overrun"
    i, j, ieee,           \* the loop variables and the integer put together
    list                  \* the items

args == <<code, type, pynb, device>>
vars == <<args, u16_dest, u08_dest, pc, i, j, ieee, list>>

\* Registers in an item.
Words(t) == CASE t \in {"U16", "S16", "B08"} -> 1
              [] t \in {"U32", "S32", "F16"} -> 2
              [] t = "D32"                   -> 4

\* The values of k registers together.
Power(k) == CASE k = 0 -> 1 [] k = 1 -> R [] k = 2 -> R * R [] k = 4 -> R * R * R * R
              [] OTHER -> R * R * R

\* What a signed integer of m values makes of n.
Signed(n, m) == ((n + m \div 2) % m) - m \div 2

\* Variant: two registers for every item that takes more than one.
PairsOnly == Signed(IF Words(type) = 1 THEN pynb ELSE 2 * pynb, IntVals)

\* A product of ints.
nb == Signed(Words(type) * pynb, IntVals)

\* The bytes of nb that go into the request.
Quantity == nb % CountVals

-----------------------------------------------------------------------------
\* What libmodbus copies: the registers or the single bits it received.
Received(array, n) == [x \in Index |-> IF x < n THEN array[x] ELSE 0]
BitsOf(array, n)   == [x \in Index |-> IF x < n THEN array[x] % 2 ELSE 0]

\* PyList_New takes no negative length.
NewList == IF pynb < 0 THEN "raised" ELSE "decode"

\* Variant: bits are read into the array of registers.
FetchBitsAsRegisters ==
    /\ pc = "ask" /\ code \in {1, 2} /\ nb <= MaxRegs /\ Quantity <= MaxBits
    /\ pc' = NewList /\ u16_dest' = BitsOf(device, nb)
    /\ UNCHANGED <<args, u08_dest, i, j, ieee, list>>

\* Function 1 or 2, for any type.  The array of bits is as long as the one of
\* registers, and libmodbus takes longer requests for bits.  It compares nb with its
\* limits as a signed number and stores no more than nb bits.
FetchBits ==
    /\ pc = "ask" /\ code \in {1, 2} /\ nb <= MaxBits /\ Quantity <= MaxBits
    /\ IF nb > MaxRegs
       THEN pc' = "overrun" /\ UNCHANGED u08_dest
       ELSE pc' = NewList /\ u08_dest' = BitsOf(device, nb)
    /\ UNCHANGED <<args, u16_dest, i, j, ieee, list>>

\* Function 3 or 4, for any type.
FetchRegisters ==
    /\ pc = "ask" /\ code \in {3, 4} /\ nb <= MaxRegs /\ Quantity <= MaxRegs
    /\ pc' = NewList /\ u16_dest' = Received(device, Quantity)
    /\ UNCHANGED <<args, u08_dest, i, j, ieee, list>>

\* libmodbus or the slave refuses, or nobody answers.
Raise ==
    /\ pc = "ask"
    /\ pc' = "raised"
    /\ UNCHANGED <<args, u16_dest, u08_dest, i, j, ieee, list>>

-----------------------------------------------------------------------------
\* The element of its array that comes next.
At == i * Words(type) + j

\* The loops go by pynb, and not by what was read.
ReadBeyond ==
    /\ pc = "decode" /\ i < pynb /\ j < Words(type) /\ At \notin Index
    /\ pc' = "overrun"
    /\ UNCHANGED <<args, u16_dest, u08_dest, i, j, ieee, list>>

\* Variant: high word first.
HighFirst(t, word, k) == word * Power(Words(t) - 1 - k)

\* The value of the k-th register of an item: low word first.
Place(t, word, k) == word * Power(k)

\* Variant: an integer of unlimited width.
WideAccumulator(t, n) == n

\* ieee is an unsigned int, an int or a long long: the shift and the sum wrap.
Accumulator(t, n) == IF t = "U32" THEN n % Power(2) ELSE Signed(n, Power(Words(t)))

AddWord ==
    /\ pc = "decode" /\ i < pynb /\ Words(type) > 1 /\ j < Words(type) /\ At \in Index
    /\ ieee' = Accumulator(type, ieee + Place(type, u16_dest[At], j))
    /\ j' = j + 1
    /\ UNCHANGED <<args, u16_dest, u08_dest, pc, i, list>>

\* Variant: a short for every single register.
ShortItem == IF type \in {"U16", "S16"} THEN Signed(u16_dest[i], R) ELSE u08_dest[i]

\* An unsigned short reaches the format "h" as an int and stays as it is; the
\* signed one has been cast.
SingleItem ==
    CASE type = "U16" -> u16_dest[i]
      [] type = "S16" -> Signed(u16_dest[i], R)
      [] type = "B08" -> u08_dest[i]

\* The format "i" takes an int, for U32 as well.
WideItem == IF type = "U32" THEN Signed(ieee, Power(2)) ELSE ieee

AddItem ==
    /\ pc = "decode" /\ i < pynb
    /\ \/ Words(type) = 1 /\ i \in Index /\ list' = Append(list, SingleItem)
       \/ Words(type) > 1 /\ j = Words(type) /\ list' = Append(list, WideItem)
    /\ i' = i + 1 /\ j' = 0 /\ ieee' = 0
    /\ UNCHANGED <<args, u16_dest, u08_dest, pc>>

ReturnList ==
    /\ pc = "decode" /\ i = pynb
    /\ pc' = "done"
    /\ UNCHANGED <<args, u16_dest, u08_dest, i, j, ieee, list>>

-----------------------------------------------------------------------------
Init ==
    /\ code \in 1 .. 4 /\ type \in Types /\ pynb \in Counts
    /\ device \in [Index -> Register]
    /\ u16_dest = [x \in Index |-> 0] /\ u08_dest = [x \in Index |-> 0]
    /\ pc = "ask" /\ i = 0 /\ j = 0 /\ ieee = 0 /\ list = <<>>

Next ==
    \/ FetchBits \/ FetchRegisters \/ Raise
    \/ ReadBeyond \/ AddWord \/ AddItem \/ ReturnList

Spec == Init /\ [][Next]_vars

-----------------------------------------------------------------------------
(* Reference definitions *)

\* The unsigned number in the registers of item m of type t, low word first.
Part(t, m, k) == IF k < Words(t) THEN device[m * Words(t) + k] * Power(k) ELSE 0
Number(t, m)  == Part(t, m, 0) + Part(t, m, 1) + Part(t, m, 2) + Part(t, m, 3)

\* x and n have the same bits as integers of m values.
SameBits(x, n, m) == x % m = n % m

\* The array that the function filled is the one that the type is decoded from.
Fits == (code \in {1, 2}) <=> (type = "B08")

-----------------------------------------------------------------------------
(* Properties *)

\* Types and widths: every number is in the C type it is kept in, and what has been
\* decoded was read inside the arrays.  Where the code would go on outside them the
\* model stops, in "overrun"; StaysInArrays says when that is.
TypeOK ==
    /\ u16_dest \in [Index -> Register] /\ u08_dest \in [Index -> 0 .. 1]
    /\ pc \in {"ask", "decode", "done", "raised", "overrun"}
    /\ i \in Nat /\ j \in 0 .. Words(type)
    /\ pc \in {"decode", "done"} => i <= pynb
    /\ ieee \in (IF type = "U32" THEN 0 .. Power(2) - 1
                ELSE -(Power(Words(type)) \div 2) .. Power(Words(type)) \div 2 - 1)
    /\ list \in Seq(Int) /\ Len(list) = i
    /\ At <= MaxRegs

\* The arrays are left only where the declared size is at fault, by a read of more
\* bits than there are registers, or the product nb is: it does not fit in an int.
StaysInArrays ==
    pc = "overrun" =>
       \/ code \in {1, 2} /\ Words(type) * pynb > MaxRegs
       \/ Words(type) * pynb \notin -(IntVals \div 2) .. IntVals \div 2 - 1

\* When function and type fit, the list holds one item per item asked for, and each
\* has the bits of its own registers in the slave, low word first.
BitsExact ==
    pc = "done" /\ Fits =>
       /\ Len(list) = pynb
       /\ \A m \in 0 .. pynb - 1 :
             IF type = "B08" THEN list[m + 1] = device[m] % 2
             ELSE SameBits(list[m + 1], Number(type, m), Power(Words(type)))

\* And each, but for U32, is in the range that the name of its type gives.
RangeOfType ==
    pc = "done" => \A m \in 1 .. Len(list) :
       CASE type = "U16" -> list[m] \in Register
         [] type = "S16" -> list[m] \in -(R \div 2) .. R \div 2 - 1
         [] type = "S32" -> list[m] \in -(Power(2) \div 2) .. Power(2) \div 2 - 1
         [] OTHER        -> TRUE

\* A register type that is read with a function for bits, or B08 with one for
\* registers, is decoded from the array that nobody filled: zeros, never a mixture.
MisfitIsZero ==
    pc = "done" /\ ~Fits => \A m \in 1 .. Len(list) : list[m] = 0

\* The type U32 is the unsigned one of the pair U32, S32.
U32IsUnsigned ==
    pc = "done" /\ type = "U32" => \A m \in 1 .. Len(list) : list[m] >= 0
==============================================================================
