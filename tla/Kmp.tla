---------------------------------- MODULE Kmp ----------------------------------
(***************************************************************************)
(* KMP_GetNext and KMP_Match of me909s.c: the search for a pattern in what *)
(* one read returned, by the table of borders of the pattern's prefixes.   *)
(* Each turn of the inner while loops and of the for loops is a step.      *)
(* Indices count from zero, as in the code.                                *)
(***************************************************************************)
EXTENDS Integers, Sequences

CONSTANTS
    Chars,     \* the characters of buffers and patterns
    MaxDes,    \* bound: length of the pattern
    MaxSrc     \* bound: length of the buffer (MAX_RECV_BUF_SIZE in the code)

ASSUME SizesAssumption == MaxDes \in Nat \ {0} /\ MaxSrc \in Nat

\* C strings of length n, as functions from their indices.
Strings(n) == [0 .. n - 1 -> Chars]

VARIABLES
    des, size,   \* the pattern and its strlen
    src, len,    \* the buffer and what module_recv said it holds
    next,        \* next[m]: length of the longest border of des[0..m]
    pc,          \* "next" in KMP_GetNext, "match" in KMP_Match, "done"
    i, j, k,     \* the loop variables
    result       \* what KMP_Match returns

input == <<des, size, src, len>>
vars  == <<input, next, pc, i, j, k, result>>

-----------------------------------------------------------------------------
(* KMP_GetNext *)

\* des[0..k-1] is compared one character further on: a mismatch falls back to the
\* next shorter border.
Mismatch(c, d, n) == n > 0 /\ c # d

\* Variants: the table read one entry too far; overlaps forgotten.
NextBorder(n) == next[n]
NoBorder(n)   == 0

Border(n) == next[n - 1]

FallBack ==
    /\ pc = "next" /\ j < size
    /\ Mismatch(des[j], des[k], k)
    /\ k' = Border(k)
    /\ UNCHANGED <<input, next, pc, i, j, result>>

\* Variant: the entry is written before the length counts the new character.
ExtendEarly ==
    /\ pc = "next" /\ j < size
    /\ ~Mismatch(des[j], des[k], k)
    /\ k' = IF des[j] = des[k] THEN k + 1 ELSE k
    /\ next' = [next EXCEPT ![j] = k]
    /\ j' = j + 1
    /\ UNCHANGED <<input, pc, i, result>>

Extend ==
    /\ pc = "next" /\ j < size
    /\ ~Mismatch(des[j], des[k], k)
    /\ k' = IF des[j] = des[k] THEN k + 1 ELSE k
    /\ next' = [next EXCEPT ![j] = k']
    /\ j' = j + 1
    /\ UNCHANGED <<input, pc, i, result>>

TableDone ==
    /\ pc = "next" /\ j >= size
    /\ pc' = "match"
    /\ i' = 0 /\ j' = 0
    /\ UNCHANGED <<input, next, k, result>>

-----------------------------------------------------------------------------
(* KMP_Match *)

\* Variant: the buffer is read again from the second character of the false start.
ShiftBack ==
    /\ pc = "match" /\ i < len
    /\ Mismatch(src[i], des[j], j)
    /\ i' = i - j + 1 /\ j' = 0
    /\ UNCHANGED <<input, next, pc, k, result>>

Shift ==
    /\ pc = "match" /\ i < len
    /\ Mismatch(src[i], des[j], j)
    /\ j' = Border(j)
    /\ UNCHANGED <<input, next, pc, i, k, result>>

\* Variant: the end of the pattern is noticed one character late.
AdvanceLate ==
    /\ pc = "match" /\ i < len
    /\ ~Mismatch(src[i], des[j], j)
    /\ j' = IF src[i] = des[j] THEN j + 1 ELSE j
    /\ IF j' > size
       THEN pc' = "done" /\ result' = i - size + 1 /\ UNCHANGED i
       ELSE i' = i + 1 /\ UNCHANGED <<pc, result>>
    /\ UNCHANGED <<input, next, k>>

Advance ==
    /\ pc = "match" /\ i < len
    /\ ~Mismatch(src[i], des[j], j)
    /\ j' = IF src[i] = des[j] THEN j + 1 ELSE j
    /\ IF j' = size
       THEN pc' = "done" /\ result' = i - size + 1 /\ UNCHANGED i
       ELSE i' = i + 1 /\ UNCHANGED <<pc, result>>
    /\ UNCHANGED <<input, next, k>>

NotFound ==
    /\ pc = "match" /\ i >= len
    /\ pc' = "done" /\ result' = -1
    /\ UNCHANGED <<input, next, i, j, k>>

-----------------------------------------------------------------------------
\* The patterns of me909s.c are not empty; a read that fails gives len = -1.
Init ==
    /\ \E n \in 1 .. MaxDes : size = n /\ des \in Strings(n)
    /\ \E n \in 0 .. MaxSrc : src \in Strings(n) /\ len \in {n, -1}
    /\ next = [m \in 0 .. MaxDes - 1 |-> 0]
    /\ pc = "next" /\ i = 0 /\ j = 1 /\ k = 0 /\ result = -1

GetNext == FallBack \/ Extend \/ TableDone
Match   == Shift \/ Advance \/ NotFound

Next == GetNext \/ Match

Spec == Init /\ [][Next]_vars /\ WF_vars(Next)

-----------------------------------------------------------------------------
(* Reference definitions *)

\* The first n characters of the pattern end the first m + 1 ones too.
IsBorder(n, m) ==
    /\ n <= m
    /\ \A x \in 0 .. n - 1 : des[x] = des[m - n + 1 + x]

\* The pattern occurs in the bytes received, at position p.
OccursAt(p) ==
    /\ p + size <= len
    /\ \A x \in 0 .. size - 1 : src[p + x] = des[x]

-----------------------------------------------------------------------------
(* Properties *)

\* Types, and the indices of every array access: no mismatch falls back before
\* the table's start and no comparison reads the pattern past its end.
TypeOK ==
    /\ size \in 1 .. MaxDes /\ des \in Strings(size)
    /\ len \in -1 .. MaxSrc
    /\ next \in [0 .. MaxDes - 1 -> 0 .. MaxDes - 1]
    /\ pc \in {"next", "match", "done"}
    /\ i \in 0 .. MaxSrc
    /\ j \in 0 .. size
    /\ k \in 0 .. size - 1
    /\ pc = "match" => j < size
    /\ result \in -1 .. MaxSrc - 1

\* Every entry of the table that has been computed is the length of the longest
\* proper border of its prefix.
TableIsBorders ==
    \A m \in 0 .. (IF pc = "next" THEN j ELSE size) - 1 :
       /\ IsBorder(next[m], m)
       /\ \A n \in next[m] + 1 .. m : ~IsBorder(n, m)

\* KMP_Match returns the position of the first occurrence of the pattern in the
\* bytes received, and -1 when there is none: no overlap of the pattern with
\* itself makes it skip one.
FirstOccurrence ==
    pc = "done" =>
       IF result = -1
       THEN \A p \in 0 .. len - size : ~OccursAt(p)
       ELSE OccursAt(result) /\ \A p \in 0 .. result - 1 : ~OccursAt(p)

\* The search ends: every fallback shortens the border.
SearchEnds == <>(pc = "done")

\* The bytes the buffer holds: none when the read failed.
Bytes == IF len < 0 THEN 0 ELSE len

\* Turns of the loops that can still come, of KMP_GetNext and KMP_Match: two for each
\* character to go (one that takes it and one that falls back), and one for each
\* character of the border or the match that can be given up.
TurnsLeft ==
    CASE pc = "next"  -> 2 * (size - j) + k + 2 * Bytes + 2
      [] pc = "match" -> 2 * (Bytes - i) + j + 1
      [] pc = "done"  -> 0

\* Each turn of the nested loops, the inner ones that fall back included, uses up one
\* of the turns that were left, at first twice as many as the pattern and the buffer
\* have characters: the search takes time in proportion to their lengths, however much
\* the pattern overlaps itself.  (A turn that changes nothing is no step here: that
\* none does is SearchEnds.)
LinearTime == [][TurnsLeft' \in 0 .. TurnsLeft - 1]_vars
==============================================================================
