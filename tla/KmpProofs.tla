------------------------------- MODULE KmpProofs -------------------------------
(***************************************************************************)
(* Proofs about Kmp, for patterns and buffers of any length.               *)
(***************************************************************************)
EXTENDS Kmp, TLAPS

-----------------------------------------------------------------------------
(* Borders *)

\* A border of a border is a border.
LEMMA BorderOfBorder ==
    ASSUME NEW b \in Nat, NEW c \in Nat, NEW m \in Nat, b < c,
           IsBorder(c, m), IsBorder(b, c - 1)
    PROVE  IsBorder(b, m)
  <1> SUFFICES ASSUME NEW x \in 0 .. b - 1 PROVE des[x] = des[m - b + 1 + x]
    BY DEF IsBorder
  <1>1. des[x] = des[(c - 1) - b + 1 + x]
    BY DEF IsBorder
  <1> DEFINE y == (c - 1) - b + 1 + x
  <1>2. y \in 0 .. c - 1
    OBVIOUS
  <1>3. des[y] = des[m - c + 1 + y]
    BY <1>2 DEF IsBorder
  <1>4. m - c + 1 + y = m - b + 1 + x
    OBVIOUS
  <1> QED BY <1>1, <1>3, <1>4

\* Of two borders the shorter is one of the longer.
LEMMA BorderInBorder ==
    ASSUME NEW b \in Nat, NEW c \in Nat, NEW m \in Nat, b < c,
           IsBorder(b, m), IsBorder(c, m)
    PROVE  IsBorder(b, c - 1)
  <1> SUFFICES ASSUME NEW x \in 0 .. b - 1 PROVE des[x] = des[(c - 1) - b + 1 + x]
    BY DEF IsBorder
  <1>1. des[x] = des[m - b + 1 + x]
    BY DEF IsBorder
  <1> DEFINE y == (c - 1) - b + 1 + x
  <1>2. y \in 0 .. c - 1
    OBVIOUS
  <1>3. des[y] = des[m - c + 1 + y]
    BY <1>2 DEF IsBorder
  <1>4. m - c + 1 + y = m - b + 1 + x
    OBVIOUS
  <1> QED BY <1>1, <1>3, <1>4

\* A border without its last character is a border of the prefix before.
LEMMA BorderShrinks ==
    ASSUME NEW b \in Nat, NEW m \in Nat, IsBorder(b + 1, m + 1)
    PROVE  IsBorder(b, m) /\ des[b] = des[m + 1]
  <1>1. b <= m /\ \A x \in 0 .. b : des[x] = des[(m + 1) - (b + 1) + 1 + x]
    BY DEF IsBorder
  <1>2. \A x \in 0 .. b : (m + 1) - (b + 1) + 1 + x = m - b + 1 + x
    OBVIOUS
  <1>3. \A x \in 0 .. b : des[x] = des[m - b + 1 + x]
    BY <1>1, <1>2
  <1>4. m - b + 1 + b = m + 1 /\ b \in 0 .. b
    OBVIOUS
  <1>5. \A x \in 0 .. b - 1 : x \in 0 .. b
    OBVIOUS
  <1> QED BY <1>1, <1>3, <1>4, <1>5 DEF IsBorder

\* A border grows by the character that follows it.
LEMMA BorderGrows ==
    ASSUME NEW b \in Nat, NEW m \in Nat, IsBorder(b, m), des[b] = des[m + 1]
    PROVE  IsBorder(b + 1, m + 1)
  <1> SUFFICES ASSUME NEW x \in 0 .. (b + 1) - 1
               PROVE  b + 1 <= m + 1 /\ des[x] = des[(m + 1) - (b + 1) + 1 + x]
    <2>1. b + 1 <= m + 1
      BY DEF IsBorder
    <2> QED BY <2>1 DEF IsBorder
  <1>1. b + 1 <= m + 1
    BY DEF IsBorder
  <1>2. (m + 1) - (b + 1) + 1 + x = m - b + 1 + x
    OBVIOUS
  <1>3. CASE x = b
    <2>1. m - b + 1 + x = m + 1
      BY <1>3
    <2> QED BY <1>1, <1>2, <1>3, <2>1
  <1>4. CASE x # b
    <2>1. x \in 0 .. b - 1
      BY <1>4
    <2> QED BY <1>1, <1>2, <2>1 DEF IsBorder
  <1> QED BY <1>3, <1>4

\* Nothing is a border of every prefix.
LEMMA NoBorderIsBorder ==
    ASSUME NEW m \in Nat
    PROVE  IsBorder(0, m)
  BY DEF IsBorder

\* c is the longest border of the prefix that ends at m.
Longest(c, m) == IsBorder(c, m) /\ \A b \in c + 1 .. m : ~IsBorder(b, m)

-----------------------------------------------------------------------------
(* The invariant *)

\* The entries computed so far are right.
Computed == IF pc = "next" THEN j ELSE size
TableInv == \A m \in 0 .. Computed - 1 : next[m] \in 0 .. m /\ Longest(next[m], m)

\* In KMP_GetNext k is a border of the part read, and every longer one has failed
\* to extend by the character at j.
NextInv ==
    pc = "next" =>
       /\ j \in 1 .. size /\ k \in 0 .. j - 1
       /\ IsBorder(k, j - 1)
       /\ j < size => \A b \in k + 2 .. j : ~IsBorder(b, j)

\* In KMP_Match the last j characters read begin the pattern, and it occurs nowhere
\* before them.
MatchInv ==
    pc = "match" =>
       /\ j <= i
       /\ \A x \in 0 .. j - 1 : des[x] = src[i - j + x]
       /\ \A p \in 0 .. i - j - 1 : ~OccursAt(p)

KmpInv == TypeOK /\ TableInv /\ NextInv /\ MatchInv /\ FirstOccurrence

\* GetNext falls back to the next shorter border (me909s.c:39).
LEMMA FallBackStep ==
    ASSUME KmpInv, FallBack
    PROVE  KmpInv'
  <1>1. /\ pc = "next" /\ j \in 1 .. size - 1 /\ k \in 1 .. j - 1 /\ des[j] # des[k]
        /\ k' = next[k - 1]
        /\ UNCHANGED <<des, size, src, len, next, pc, i, j, result>>
        /\ size \in Nat /\ size <= MaxDes
    BY SizesAssumption DEF FallBack, Mismatch, Border, KmpInv, NextInv, TypeOK, input
  <1>2. /\ k - 1 \in 0 .. j - 1 /\ k - 1 \in Nat /\ j - 1 \in Nat
        /\ IsBorder(k, j - 1) /\ \A b \in k + 2 .. j : ~IsBorder(b, j)
    BY <1>1 DEF KmpInv, NextInv
  <1>3. k' \in 0 .. k - 1 /\ Longest(k', k - 1)
    BY <1>1, <1>2 DEF KmpInv, TableInv, Computed
  <1>4. IsBorder(k', j - 1)
    BY <1>1, <1>2, <1>3, BorderOfBorder DEF Longest
  <1>5. ASSUME NEW b \in k' + 2 .. j, IsBorder(b, j) PROVE FALSE
    <2>1. b - 1 \in Nat /\ (b - 1) + 1 = b /\ (j - 1) + 1 = j
      BY <1>1, <1>3
    <2>2. IsBorder(b - 1, j - 1) /\ des[b - 1] = des[j]
      BY <1>2, <1>5, <2>1, BorderShrinks
    <2>3. b - 1 # k
      BY <1>1, <2>2
    <2>4. CASE b - 1 > k
      BY <1>1, <1>2, <1>5, <2>4
    <2>5. CASE b - 1 < k
      <3>1. IsBorder(b - 1, k - 1)
        BY <1>1, <1>2, <2>1, <2>2, <2>5, BorderInBorder
      <3>2. b - 1 \in k' + 1 .. k - 1
        BY <1>1, <1>3, <2>5
      <3> QED BY <1>3, <3>1, <3>2 DEF Longest
    <2> QED BY <1>1, <2>1, <2>3, <2>4, <2>5
  <1>6. \A b, m : IsBorder(b, m)' = IsBorder(b, m)
    BY <1>1 DEF IsBorder
  <1>7. NextInv'
    BY <1>1, <1>3, <1>4, <1>5, <1>6 DEF NextInv
  <1>8. TableInv'
    BY <1>1, <1>6 DEF KmpInv, TableInv, Computed, Longest
  <1>9. TypeOK'
    BY <1>1, <1>3 DEF KmpInv, TypeOK, Strings
  <1> QED BY <1>1, <1>7, <1>8, <1>9 DEF KmpInv, MatchInv, FirstOccurrence

\* GetNext enters the border it has found and goes on.
LEMMA ExtendStep ==
    ASSUME KmpInv, Extend
    PROVE  KmpInv'
  <1>0. /\ size \in 1 .. MaxDes /\ MaxDes \in Nat /\ j \in Nat /\ k \in Nat
        /\ next \in [0 .. MaxDes - 1 -> 0 .. MaxDes - 1]
    BY SizesAssumption DEF KmpInv, TypeOK
  <1>1. /\ pc = "next" /\ j \in 1 .. size - 1 /\ k \in 0 .. j - 1
        /\ IsBorder(k, j - 1) /\ \A b \in k + 2 .. j : ~IsBorder(b, j)
    BY <1>0 DEF Extend, KmpInv, NextInv
  <1>2. UNCHANGED <<des, size, src, len, pc, i, result>> /\ j' = j + 1
    BY DEF Extend, input
  <1>3. next' = [next EXCEPT ![j] = k']
    BY DEF Extend
  <1>4. \/ des[j] = des[k] /\ k' = k + 1
        \/ des[j] # des[k] /\ k = 0 /\ k' = 0
    BY <1>0 DEF Extend, Mismatch
  <1>5. PICK c \in 0 .. j : k' = c
    <2>1. j - 1 \in Nat /\ (j - 1) + 1 = j /\ k <= j - 1 /\ 1 <= j
      BY <1>0, <1>1
    <2>2. k' = k + 1 \/ k' = 0
      BY <1>4
    <2>3. k + 1 \in 0 .. j /\ 0 \in 0 .. j
      BY <1>0, <2>1
    <2> QED BY <2>2, <2>3
  <1>5a. j - 1 \in Nat /\ (j - 1) + 1 = j /\ c \in Nat
    BY <1>0, <1>1
  <1>6. IsBorder(c, j)
    <2>1. CASE des[j] = des[k] /\ k' = k + 1
      BY <1>0, <1>1, <1>5, <1>5a, <2>1, BorderGrows
    <2>2. CASE k' = 0
      BY <1>0, <1>5, <2>2, NoBorderIsBorder
    <2> QED BY <1>4, <2>1, <2>2
  <1>7. ASSUME NEW b \in c + 1 .. j, IsBorder(b, j) PROVE FALSE
    <2>1. b \in Nat /\ b - 1 \in Nat /\ (b - 1) + 1 = b
      BY <1>0, <1>5
    <2>2. des[b - 1] = des[j]
      BY <1>5a, <1>7, <2>1, BorderShrinks
    <2>3. CASE c = k + 1
      <3>1. b \in k + 2 .. j
        BY <1>0, <2>3
      <3> QED BY <1>1, <1>7, <3>1
    <2>4. CASE des[j] # des[k] /\ k = 0
      <3>1. b # 1
        BY <2>2, <2>4
      <3>2. b \in k + 2 .. j
        BY <1>0, <1>5, <2>1, <2>4, <3>1
      <3> QED BY <1>1, <1>7, <3>2
    <2> QED BY <1>4, <1>5, <2>3, <2>4
  <1>8. Longest(c, j)
    BY <1>6, <1>7 DEF Longest
  <1>9. ASSUME NEW b \in c + 2 .. j + 1, IsBorder(b, j + 1) PROVE FALSE
    <2>1. b \in Nat /\ b - 1 \in Nat /\ (b - 1) + 1 = b
      BY <1>0, <1>5
    <2>2. IsBorder(b - 1, j)
      BY <1>0, <1>9, <2>1, BorderShrinks
    <2>3. b - 1 \in c + 1 .. j
      BY <1>0, <1>5, <2>1
    <2> QED BY <1>7, <2>2, <2>3
  <1>10. \A b, m : IsBorder(b, m)' = IsBorder(b, m)
    BY <1>2 DEF IsBorder
  <1>11. NextInv'
    <2>1. j + 1 \in 1 .. size /\ c \in 0 .. (j + 1) - 1 /\ (j + 1) - 1 = j
      BY <1>0, <1>1, <1>5
    <2>2. j' \in 1 .. size' /\ k' \in 0 .. j' - 1
      BY <1>2, <1>5, <2>1
    <2>3. IsBorder(k, j - 1)'
      BY <1>2, <1>5, <1>6, <2>1 DEF IsBorder
    <2>4. (\A b \in k + 2 .. j : ~IsBorder(b, j))'
      <3>1. \A b \in c + 2 .. j + 1 : ~IsBorder(b, j + 1)
        BY <1>9
      <3> QED BY <1>2, <1>5, <3>1 DEF IsBorder
    <2> QED BY <2>2, <2>3, <2>4 DEF NextInv
  <1>12. TableInv'
    <2>1. ASSUME NEW m \in 0 .. j PROVE next'[m] \in 0 .. m /\ Longest(next'[m], m)
      <3>1. CASE m = j
        <4>1. next'[m] = c
          BY <1>0, <1>1, <1>3, <1>5, <3>1
        <4> QED BY <1>5, <1>8, <3>1, <4>1
      <3>2. CASE m # j
        <4>1. m \in 0 .. j - 1 /\ m \in 0 .. MaxDes - 1
          BY <1>0, <1>1, <3>2
        <4>2. next'[m] = next[m]
          BY <1>0, <1>3, <3>2, <4>1
        <4> QED BY <1>1, <4>1, <4>2 DEF KmpInv, TableInv, Computed
      <3> QED BY <3>1, <3>2
    <2>2. Computed' - 1 = j
      BY <1>0, <1>1, <1>2 DEF Computed
    <2>3. \A b, m : Longest(b, m)' = Longest(b, m)
      BY <1>10 DEF Longest
    <2> QED BY <2>1, <2>2, <2>3 DEF TableInv
  <1>13. TypeOK'
    <2>1. next' \in [0 .. MaxDes - 1 -> 0 .. MaxDes - 1]
      <3>1. c \in 0 .. MaxDes - 1
        BY <1>0, <1>1, <1>5
      <3> QED BY <1>0, <1>3, <1>5, <3>1
    <2>2. j' \in 0 .. size /\ c \in 0 .. size - 1
      BY <1>0, <1>1, <1>2, <1>5
    <2> QED BY <1>1, <1>2, <1>5, <2>1, <2>2 DEF KmpInv, TypeOK, Strings
  <1> QED BY <1>1, <1>2, <1>11, <1>12, <1>13 DEF KmpInv, MatchInv, FirstOccurrence

\* KMP_Match starts with a finished table.
LEMMA TableDoneStep ==
    ASSUME KmpInv, TableDone
    PROVE  KmpInv'
  <1>1. /\ pc = "next" /\ j = size /\ pc' = "match" /\ i' = 0 /\ j' = 0
        /\ UNCHANGED <<des, size, src, len, next, k, result>>
        /\ size \in Nat \ {0} /\ MaxSrc \in Nat
    BY SizesAssumption DEF TableDone, KmpInv, NextInv, TypeOK, input
  <1>2. TableInv'
    BY <1>1 DEF KmpInv, TableInv, Computed, Longest, IsBorder
  <1>3. TypeOK'
    BY <1>1 DEF KmpInv, TypeOK, Strings
  <1> QED BY <1>1, <1>2, <1>3 DEF KmpInv, NextInv, MatchInv, FirstOccurrence

\* The table is not touched any more.
LEMMA TableKept ==
    ASSUME KmpInv, pc = "match", pc' # "next", UNCHANGED <<des, size, next>>
    PROVE  TableInv'
  BY DEF KmpInv, TableInv, Computed, Longest, IsBorder

\* KMP_Match shifts the pattern and loses no occurrence (me909s.c:56).
LEMMA ShiftStep ==
    ASSUME KmpInv, Shift
    PROVE  KmpInv'
  <1>1. /\ pc = "match" /\ i \in Nat /\ j \in 1 .. size - 1 /\ j <= i
        /\ src[i] # des[j] /\ j' = next[j - 1] /\ size \in Nat
        /\ UNCHANGED <<des, size, src, len, next, pc, i, k, result>>
        /\ MaxSrc \in Nat
    BY SizesAssumption DEF Shift, Mismatch, Border, KmpInv, MatchInv, TypeOK, input
  <1>2. /\ \A x \in 0 .. j - 1 : des[x] = src[i - j + x]
        /\ \A p \in 0 .. i - j - 1 : ~OccursAt(p)
    BY <1>1 DEF KmpInv, MatchInv
  <1>3. j' \in 0 .. j - 1 /\ Longest(j', j - 1) /\ j - 1 \in Nat
    BY <1>1 DEF KmpInv, TableInv, Computed
  <1>4. ASSUME NEW x \in 0 .. j' - 1 PROVE des[x] = src[i - j' + x]
    <2> DEFINE y == (j - 1) - j' + 1 + x
    <2>1. des[x] = des[y]
      BY <1>3 DEF Longest, IsBorder
    <2>2. y \in 0 .. j - 1 /\ i - j + y = i - j' + x
      BY <1>1, <1>3
    <2> QED BY <1>2, <2>1, <2>2
  <1>5. ASSUME NEW p \in 0 .. i - j' - 1, OccursAt(p) PROVE FALSE
    <2>1. \A x \in 0 .. size - 1 : src[p + x] = des[x]
      BY <1>5 DEF OccursAt
    <2>2. CASE p < i - j
      BY <1>1, <1>2, <1>5, <2>2
    <2>3. CASE p = i - j
      <3>1. src[p + j] = des[j] /\ p + j = i
        BY <1>1, <2>1, <2>3
      <3> QED BY <1>1, <3>1
    <2>4. CASE p > i - j
      <3> DEFINE b == i - p
      <3>1. b \in j' + 1 .. j - 1 /\ b \in Nat
        BY <1>1, <1>3, <2>4
      <3>2. ASSUME NEW x \in 0 .. b - 1 PROVE des[x] = des[(j - 1) - b + 1 + x]
        <4>1. src[p + x] = des[x]
          BY <1>1, <2>1, <3>1
        <4> DEFINE y == (j - 1) - b + 1 + x
        <4>2. y \in 0 .. j - 1 /\ i - j + y = p + x
          BY <1>1, <3>1
        <4>3. des[y] = src[i - j + y]
          BY <1>2, <4>2
        <4> QED BY <4>1, <4>2, <4>3
      <3>3. IsBorder(b, j - 1)
        BY <3>1, <3>2 DEF IsBorder
      <3> QED BY <1>3, <3>1, <3>3 DEF Longest
    <2> QED BY <1>1, <1>3, <2>2, <2>3, <2>4
  <1>6. MatchInv'
    BY <1>1, <1>3, <1>4, <1>5 DEF MatchInv, OccursAt
  <1>7. TypeOK'
    BY <1>1, <1>3 DEF KmpInv, TypeOK, Strings
  <1> QED BY <1>1, <1>6, <1>7, TableKept DEF KmpInv, NextInv, FirstOccurrence

\* KMP_Match compares one character and returns a match that is complete.
LEMMA AdvanceStep ==
    ASSUME KmpInv, Advance
    PROVE  KmpInv'
  <1>0. /\ size \in Nat \ {0} /\ len \in Int /\ len <= MaxSrc /\ MaxSrc \in Nat
        /\ i \in Nat /\ j \in Nat
    BY SizesAssumption DEF KmpInv, TypeOK
  <1>1. /\ pc = "match" /\ i < len /\ j \in 0 .. size - 1 /\ j <= i
        /\ j = 0 \/ src[i] = des[j]
        /\ src[i] = des[j] => j' = j + 1
        /\ src[i] # des[j] => j' = j
        /\ UNCHANGED <<des, size, src, len, next, k>>
    BY <1>0 DEF Advance, Mismatch, KmpInv, MatchInv, TypeOK, input
  <1>2. /\ \A x \in 0 .. j - 1 : des[x] = src[i - j + x]
        /\ \A p \in 0 .. i - j - 1 : ~OccursAt(p)
    BY <1>0, <1>1 DEF KmpInv, MatchInv
  <1>3. \A p : OccursAt(p)' = OccursAt(p)
    BY <1>0, <1>1 DEF OccursAt
  <1>4. ASSUME src[i] = des[j], NEW x \in 0 .. j PROVE des[x] = src[i - j + x]
    <2>1. i - j + j = i
      BY <1>0, <1>1
    <2>2. x = j \/ x \in 0 .. j - 1
      BY <1>0, <1>1
    <2> QED BY <1>2, <1>4, <2>1, <2>2
  <1>5. CASE j' = size
    <2>1. pc' = "done" /\ result' = i - size + 1 /\ i' = i
      BY <1>0, <1>1, <1>5 DEF Advance
    <2>2. src[i] = des[j] /\ j = size - 1 /\ i - j = i - size + 1
      BY <1>0, <1>1, <1>5
    <2>3. OccursAt(i - j)
      <3>1. i - j + size <= len
        BY <1>0, <1>1, <2>2
      <3>2. \A x \in 0 .. size - 1 : x \in 0 .. j
        BY <2>2
      <3>3. \A x \in 0 .. size - 1 : src[i - j + x] = des[x]
        BY <1>4, <2>2, <3>2
      <3> QED BY <3>1, <3>3 DEF OccursAt
    <2>4. result' = i - j /\ result' \in Nat /\ result' <= MaxSrc - 1
      BY <1>0, <1>1, <2>1, <2>2
    <2>5. FirstOccurrence'
      BY <1>2, <1>3, <2>3, <2>4 DEF FirstOccurrence
    <2>6. TypeOK'
      BY <1>0, <1>1, <1>5, <2>1, <2>4 DEF KmpInv, TypeOK, Strings
    <2>7. TableInv'
      BY <1>0, <1>1, <2>1, TableKept
    <2> QED BY <2>1, <2>5, <2>6, <2>7 DEF KmpInv, NextInv, MatchInv
  <1>6. CASE j' # size
    <2>1. pc' = "match" /\ i' = i + 1 /\ result' = result
      BY <1>0, <1>1, <1>6 DEF Advance
    <2>2. CASE src[i] = des[j]
      <3>1. j' = j + 1 /\ i' - j' = i - j
        BY <1>0, <1>1, <2>1, <2>2
      <3>2. \A x \in 0 .. j' - 1 : des[x] = src[i' - j' + x]
        BY <1>0, <1>1, <1>4, <2>2, <3>1
      <3>3. MatchInv'
        BY <1>0, <1>1, <1>2, <1>3, <2>1, <3>1, <3>2 DEF MatchInv
      <3>4. TypeOK'
        BY <1>0, <1>1, <1>6, <2>1, <3>1 DEF KmpInv, TypeOK, Strings
      <3> QED BY <1>1, <2>1, <3>3, <3>4, TableKept DEF KmpInv, NextInv, FirstOccurrence
    <2>3. CASE src[i] # des[j]
      <3>1. j = 0 /\ j' = 0
        BY <1>0, <1>1, <2>3
      <3>2. ~OccursAt(i)
        <4>1. 0 \in 0 .. size - 1 /\ i + 0 = i
          BY <1>0, <1>1
        <4> QED BY <2>3, <3>1, <4>1 DEF OccursAt
      <3>3. \A p \in 0 .. i' - j' - 1 : p \in 0 .. i - j - 1 \/ p = i
        BY <1>0, <1>1, <2>1, <3>1
      <3>4. MatchInv'
        BY <1>0, <1>1, <1>2, <1>3, <2>1, <3>1, <3>2, <3>3 DEF MatchInv
      <3>5. TypeOK'
        BY <1>0, <1>1, <2>1, <3>1 DEF KmpInv, TypeOK, Strings
      <3> QED BY <1>0, <1>1, <2>1, <3>4, <3>5, TableKept DEF KmpInv, NextInv, FirstOccurrence
    <2> QED BY <2>2, <2>3
  <1> QED BY <1>5, <1>6

\* KMP_Match returns -1 at the end of the buffer.
LEMMA NotFoundStep ==
    ASSUME KmpInv, NotFound
    PROVE  KmpInv'
  <1>1. /\ pc = "match" /\ pc' = "done" /\ result' = -1 /\ i >= len /\ j < size
        /\ i \in Nat /\ j \in Nat /\ size \in Nat /\ len \in Int /\ MaxSrc \in Nat
        /\ UNCHANGED <<des, size, src, len, next, i, j, k>>
    BY SizesAssumption DEF NotFound, KmpInv, TypeOK, input
  <1>2. \A p \in 0 .. i - j - 1 : ~OccursAt(p)
    BY <1>1 DEF KmpInv, MatchInv
  <1>3. \A p \in 0 .. len - size : p \in 0 .. i - j - 1
    BY <1>1
  <1>4. FirstOccurrence'
    BY <1>1, <1>2, <1>3 DEF FirstOccurrence, OccursAt
  <1>5. TypeOK'
    BY <1>1 DEF KmpInv, TypeOK, Strings
  <1> QED BY <1>1, <1>4, <1>5, TableKept DEF KmpInv, NextInv, MatchInv

\* The invariant of both loops.
LEMMA KmpInvCorrect == Spec => []KmpInv
  <1>1. Init => KmpInv
    <2> SUFFICES ASSUME Init PROVE KmpInv
      OBVIOUS
    <2>1. /\ pc = "next" /\ i = 0 /\ j = 1 /\ k = 0 /\ result = -1
          /\ size \in 1 .. MaxDes /\ des \in Strings(size) /\ len \in -1 .. MaxSrc
          /\ next = [m \in 0 .. MaxDes - 1 |-> 0]
          /\ MaxDes \in Nat /\ MaxSrc \in Nat
      BY SizesAssumption DEF Init
    <2>2. TypeOK
      BY <2>1 DEF TypeOK
    <2>3. Longest(0, 0)
      BY NoBorderIsBorder DEF Longest
    <2>4. TableInv
      BY <2>1, <2>3 DEF TableInv, Computed
    <2>5. NextInv
      BY <2>1, NoBorderIsBorder DEF NextInv
    <2> QED BY <2>1, <2>2, <2>4, <2>5 DEF KmpInv, MatchInv, FirstOccurrence
  <1>2. KmpInv /\ [Next]_vars => KmpInv'
    <2>1. ASSUME KmpInv, UNCHANGED vars PROVE KmpInv'
      BY <2>1 DEF vars, input, KmpInv, TypeOK, Strings, TableInv, Computed, Longest, IsBorder,
                  NextInv, MatchInv, FirstOccurrence, OccursAt
    <2> QED BY <2>1, FallBackStep, ExtendStep, TableDoneStep, ShiftStep, AdvanceStep,
               NotFoundStep DEF Next, GetNext, Match
  <1> QED BY <1>1, <1>2, PTL DEF Spec

\* No access is outside the table, the pattern or the buffer.
THEOREM TypeCorrect == Spec => []TypeOK
  BY KmpInvCorrect, PTL DEF KmpInv

\* KMP_GetNext computes the longest borders of any pattern.
THEOREM TableIsBordersCorrect == Spec => []TableIsBorders
  <1>1. KmpInv => TableIsBorders
    BY DEF KmpInv, TableInv, Computed, Longest, TableIsBorders
  <1> QED BY <1>1, KmpInvCorrect, PTL

\* KMP_Match finds the first occurrence of any pattern in any buffer.
THEOREM FirstOccurrenceCorrect == Spec => []FirstOccurrence
  BY KmpInvCorrect, PTL DEF KmpInv

-----------------------------------------------------------------------------
(* The number of turns *)

\* Where KMP_Match reads next, at most at the buffer's end.
InBuffer == pc = "match" => i <= Bytes

\* The loop over the buffer ends at its end.
LEMMA InBufferStep ==
    ASSUME KmpInv, InBuffer, [Next]_vars
    PROVE  InBuffer'
  <1>1. len \in Int /\ i \in Nat
    BY DEF KmpInv, TypeOK
  <1>2. len' = len /\ Bytes \in Nat /\ Bytes' = Bytes /\ (len > 0 => Bytes = len)
    <2>1. UNCHANGED input
      BY DEF Next, GetNext, Match, FallBack, Extend, TableDone, Shift, Advance, NotFound,
             vars
    <2> QED BY <1>1, <2>1 DEF input, Bytes
  <1>3. CASE FallBack \/ Extend \/ TableDone \/ NotFound
    BY <1>2, <1>3 DEF FallBack, Extend, TableDone, NotFound, InBuffer
  <1>4. CASE Shift
    BY <1>2, <1>4 DEF Shift, InBuffer
  <1>5. CASE Advance
    <2>1. i < len /\ (pc' = "match" => i' = i + 1)
      BY <1>5 DEF Advance
    <2> QED BY <1>1, <1>2, <2>1 DEF InBuffer
  <1>6. CASE UNCHANGED vars
    BY <1>2, <1>6 DEF vars, InBuffer
  <1> QED BY <1>3, <1>4, <1>5, <1>6 DEF Next, GetNext, Match

\* A turn of either function uses up one of those left.
LEMMA TurnUsesOne ==
    ASSUME KmpInv, InBuffer, Next
    PROVE  TurnsLeft' \in 0 .. TurnsLeft - 1
  <1>1. /\ size \in Nat \ {0} /\ MaxDes \in Nat /\ MaxSrc \in Nat /\ len \in Int
        /\ i \in Nat /\ j \in Nat /\ k \in Nat
    BY SizesAssumption DEF KmpInv, TypeOK
  <1>2. Bytes \in Nat /\ (len > 0 => Bytes = len)
    BY <1>1 DEF Bytes
  <1>3. UNCHANGED <<size, len>> => Bytes' = Bytes
    BY DEF Bytes
  <1>4. CASE FallBack
    <2>1. /\ pc = "next" /\ j \in 1 .. size - 1 /\ k \in 1 .. j - 1 /\ k' = next[k - 1]
          /\ UNCHANGED <<size, len, pc, j>>
      BY <1>1, <1>4 DEF FallBack, Mismatch, Border, KmpInv, NextInv, input
    <2>2. k' \in 0 .. k - 1
      BY <2>1 DEF KmpInv, TableInv, Computed
    <2> QED BY <1>1, <1>2, <1>3, <2>1, <2>2 DEF TurnsLeft
  <1>5. CASE Extend
    <2>1. /\ pc = "next" /\ j < size /\ k' \in {k, k + 1} /\ j' = j + 1
          /\ UNCHANGED <<size, len, pc>>
      BY <1>5 DEF Extend, input
    <2> QED BY <1>1, <1>2, <1>3, <2>1 DEF TurnsLeft
  <1>6. CASE TableDone
    <2>1. pc = "next" /\ j = size /\ pc' = "match" /\ i' = 0 /\ j' = 0
          /\ UNCHANGED <<size, len>>
      BY <1>1, <1>6 DEF TableDone, KmpInv, NextInv, input
    <2> QED BY <1>1, <1>2, <1>3, <2>1 DEF TurnsLeft
  <1>7. CASE Shift
    <2>1. /\ pc = "match" /\ i < len /\ j \in 1 .. size - 1 /\ j' = next[j - 1]
          /\ UNCHANGED <<size, len, pc, i>>
      BY <1>1, <1>7 DEF Shift, Mismatch, Border, KmpInv, TypeOK, input
    <2>2. j' \in 0 .. j - 1
      BY <1>1, <2>1 DEF KmpInv, TableInv, Computed
    <2> QED BY <1>1, <1>2, <1>3, <2>1, <2>2 DEF TurnsLeft
  <1>8. CASE Advance
    <2>1. /\ pc = "match" /\ i < len /\ j' \in {j, j + 1} /\ UNCHANGED <<size, len>>
          /\ \/ pc' = "done"
             \/ pc' = "match" /\ i' = i + 1
      BY <1>8 DEF Advance, input
    <2> QED BY <1>1, <1>2, <1>3, <2>1 DEF TurnsLeft
  <1>9. CASE NotFound
    <2>1. pc = "match" /\ pc' = "done" /\ i <= Bytes
      BY <1>9 DEF NotFound, InBuffer
    <2> QED BY <1>1, <1>2, <2>1 DEF TurnsLeft
  <1> QED BY <1>4, <1>5, <1>6, <1>7, <1>8, <1>9 DEF Next, GetNext, Match

\* However long the pattern and the buffer are and however they repeat themselves,
\* KMP_GetNext and KMP_Match take at most two turns for each of their characters.
THEOREM LinearTimeCorrect == Spec => TurnsLeft = 2 * (size + Bytes) /\ LinearTime
  <1>1. Init => TurnsLeft = 2 * (size + Bytes)
    <2> SUFFICES ASSUME Init PROVE TurnsLeft = 2 * (size + Bytes)
      OBVIOUS
    <2>1. pc = "next" /\ j = 1 /\ k = 0 /\ size \in Nat /\ len \in Int
      BY SizesAssumption DEF Init
    <2> QED BY <2>1 DEF TurnsLeft, Bytes
  <1>2. Init => InBuffer
    BY DEF Init, InBuffer
  <1>3. KmpInv /\ InBuffer /\ [Next]_vars => InBuffer'
    BY InBufferStep
  <1>4. KmpInv /\ InBuffer /\ [Next]_vars => [TurnsLeft' \in 0 .. TurnsLeft - 1]_vars
    BY TurnUsesOne
  <1> QED BY <1>1, <1>2, <1>3, <1>4, KmpInvCorrect, PTL DEF Spec, LinearTime
==============================================================================
