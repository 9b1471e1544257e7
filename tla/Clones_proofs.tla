---------------------------- MODULE Clones_proofs ----------------------------
(***************************************************************************)
(* The sets of numbers that zones keep, and the world of clones.           *)
(* The two modules share no variable; their theorems stand together since  *)
(* the sets of a zone are int_sets.                                        *)
(* First, for any numbers and any initial length, an int_set keeps its     *)
(* type, never writes past its array, is a set, and a loop over it is that *)
(* of Traversal: what a reset relies on when it goes over the sets of its  *)
(* zone while they change.  Then, for any number of players, permanents    *)
(* and homes, the arrays, the table, the zones' sets, the counter and the  *)
(* files of Clones stay true to each other.  Last, what one destruction    *)
(* does to all the rest, and what a reset leaves when it is over.          *)
(***************************************************************************)
EXTENDS IntSet, Clones, FiniteSetTheorems, TLAPS

-----------------------------------------------------------------------------
\* The inductive invariant: the cursor must be known to lie in the array and the
\* cells to differ before anything can be said about a step of the loop.
SetInv == SetTypeOK /\ ArrayFits /\ IsSet

\* After check_for_possible_resize() there is room for one more (utils.c:471).
LEMMA RoomForOneMore ==
  ASSUME NEW len \in Nat, NEW max \in Nat, len <= max
  PROVE  Resized(len, max) \in Nat /\ len + 1 <= Resized(len, max)
<1>1. CASE len = max
  BY <1>1 DEF Resized
<1>2. CASE len /= max /\ max > 0 /\ len < max \div 5
  <2>1. max \div 5 <= max \div 2 /\ max \div 2 \in Nat /\ max \div 5 \in Nat
    BY <1>2
  <2>2. Resized(len, max) = max \div 2
    BY <1>2 DEF Resized
  <2> QED BY <1>2, <2>1, <2>2
<1>3. CASE len /= max /\ ~(max > 0 /\ len < max \div 5)
  BY <1>3 DEF Resized
<1> QED BY <1>1, <1>2, <1>3

\* The array after add_int().
LEMMA AppendedSet ==
  ASSUME SetTypeOK, IsSet, NEW n \in Elems
  PROVE  /\ Appended(n) \in Seq(Elems)
         /\ Len(Appended(n)) \in {Len(list), Len(list) + 1}
         /\ \A i, j \in 1 .. Len(Appended(n)) :
              Appended(n)[i] = Appended(n)[j] => i = j
         /\ \A i \in 1 .. Len(list) : Appended(n)[i] = list[i]
         /\ IF n \in CellsOf(list)
            THEN Appended(n) = list
            ELSE /\ Len(Appended(n)) = Len(list) + 1
                 /\ Appended(n)[Len(list) + 1] = n
<1>1. CASE n \in CellsOf(list)
  BY <1>1 DEF Appended, SetTypeOK, IsSet
<1>2. CASE n \notin CellsOf(list)
  <2>1. Appended(n) = Append(list, n)
    BY <1>2 DEF Appended
  <2>2. /\ Append(list, n) \in Seq(Elems)
        /\ Len(Append(list, n)) = Len(list) + 1
        /\ Append(list, n)[Len(list) + 1] = n
        /\ \A i \in 1 .. Len(list) : Append(list, n)[i] = list[i]
    BY DEF SetTypeOK
  <2>3. \A i \in 1 .. Len(list) : list[i] /= n
    BY <1>2 DEF CellsOf
  <2>4. Len(list) \in Nat
    BY DEF SetTypeOK
  <2> QED BY <1>2, <2>1, <2>2, <2>3, <2>4 DEF IsSet
<1> QED BY <1>1, <1>2

\* The array after remove_int() of cell i, cell by cell.
LEMMA RemovedCells ==
  ASSUME SetTypeOK, IsSet, NEW i \in 1 .. Len(list)
  PROVE  LET s == WithoutLast(GapFilled(i)) IN
         /\ s \in Seq(Elems)
         /\ Len(s) = Len(list) - 1
         /\ \A k \in 1 .. Len(list) - 1 :
              s[k] = IF i <= current
                     THEN IF k = current THEN list[Len(list)]
                          ELSE IF k = i THEN list[current] ELSE list[k]
                     ELSE IF k = i THEN list[Len(list)] ELSE list[k]
<1> DEFINE f == GapFilled(i)
           s == WithoutLast(f)
<1>1. /\ Len(list) \in Nat
      /\ list \in [1 .. Len(list) -> Elems]
      /\ current \in Nat /\ current <= Len(list)
  BY DEF SetTypeOK, IsSet
<1>2. i <= current => current \in 1 .. Len(list)
  BY <1>1
<1>3. f \in [1 .. Len(list) -> Elems]
  BY <1>1, <1>2 DEF GapFilled
<1>4. f \in Seq(Elems) /\ Len(f) = Len(list)
  BY <1>1, <1>3
<1>5. s = [k \in 1 .. Len(list) - 1 |-> f[k]]
  BY <1>4 DEF WithoutLast
<1>6. Len(list) - 1 \in Nat
  BY <1>1
<1>7. s \in Seq(Elems) /\ Len(s) = Len(list) - 1
  BY <1>3, <1>5, <1>6
<1>8. ASSUME NEW k \in 1 .. Len(list) - 1
      PROVE  s[k] = IF i <= current
                    THEN IF k = current THEN list[Len(list)]
                         ELSE IF k = i THEN list[current] ELSE list[k]
                    ELSE IF k = i THEN list[Len(list)] ELSE list[k]
  <2>1. k \in 1 .. Len(list)
    BY <1>1
  <2>2. s[k] = f[k]
    BY <1>5
  <2> QED BY <1>1, <1>2, <2>1, <2>2 DEF GapFilled
<1> QED BY <1>7, <1>8

\* What remove_int() keeps, as sets: the numbers, and those of them still ahead.
LEMMA RemovedSet ==
  ASSUME SetTypeOK, IsSet, NEW i \in 1 .. Len(list)
  PROVE  LET s == WithoutLast(GapFilled(i)) IN
         /\ \A k, l \in 1 .. Len(s) : s[k] = s[l] => k = l
         /\ CellsOf(s) = CellsOf(list) \ {list[i]}
         /\ {s[k] : k \in Cursor(i) + 1 .. Len(s)} = ToCome \ {list[i]}
<1> DEFINE s == WithoutLast(GapFilled(i))
           L == Len(list)
<1>1. L \in Nat /\ current \in Nat /\ current <= L /\ i \in 1 .. L /\ L - 1 \in Nat
  BY DEF SetTypeOK, IsSet
<1>2. \A k, l \in 1 .. L : list[k] = list[l] => k = l
  BY DEF IsSet
<1>3. Len(s) = L - 1
  BY RemovedCells
<1>4. CASE i <= current
  <2>1. \A k \in 1 .. L - 1 :
          s[k] = IF k = current THEN list[L] ELSE IF k = i THEN list[current] ELSE list[k]
    BY <1>4, RemovedCells
  <2>2. current \in 1 .. L /\ Cursor(i) = current - 1
    BY <1>1, <1>4 DEF Cursor
  <2> HIDE DEF s, L
  <2>3. \A k, l \in 1 .. Len(s) : s[k] = s[l] => k = l
    <3> DEFINE from(k) == IF k = current THEN L ELSE IF k = i THEN current ELSE k
    <3>1. \A k \in 1 .. L - 1 : from(k) \in 1 .. L /\ s[k] = list[from(k)]
      BY <1>1, <2>1, <2>2
    <3>2. \A k, l \in 1 .. L - 1 : from(k) = from(l) => k = l
      BY <1>1, <1>4, <2>2
    <3> HIDE DEF from
    <3> QED BY <1>2, <1>3, <3>1, <3>2
  <2>4. ASSUME NEW x, x \in CellsOf(s)
        PROVE  x \in CellsOf(list) /\ x /= list[i]
    <3>1. PICK k \in 1 .. L - 1 : x = s[k]
      BY <1>3, <2>4 DEF CellsOf
    <3>2. \E m \in 1 .. L : x = list[m] /\ m /= i
      BY <1>1, <1>4, <2>1, <2>2, <3>1
    <3> QED BY <1>2, <3>2 DEF CellsOf, L
  <2>5. ASSUME NEW x, x \in CellsOf(list), x /= list[i]
        PROVE  x \in CellsOf(s)
    <3>1. PICK m \in 1 .. L : x = list[m]
      BY <2>5 DEF CellsOf, L
    <3>2. m /= i
      BY <2>5, <3>1
    <3>3. \E k \in 1 .. L - 1 : x = s[k]
      <4>1. CASE m = L /\ current < L
        BY <1>1, <2>1, <2>2, <3>1, <4>1
      <4>2. CASE m = current
        BY <1>1, <1>4, <2>1, <2>2, <3>1, <3>2, <4>2
      <4>3. CASE m < L /\ m /= current
        BY <1>1, <2>1, <2>2, <3>1, <3>2, <4>3
      <4> QED BY <1>1, <2>2, <4>1, <4>2, <4>3
    <3> QED BY <1>3, <3>3 DEF CellsOf
  <2>6. \A k \in current .. L - 1 : s[k] = IF k = current THEN list[L] ELSE list[k]
    BY <1>1, <1>4, <2>1, <2>2
  <2>7. {s[k] : k \in current .. L - 1} = {list[k] : k \in current + 1 .. L}
    <3>1. ASSUME NEW k \in current .. L - 1
          PROVE  \E m \in current + 1 .. L : s[k] = list[m]
      BY <1>1, <2>2, <2>6
    <3>2. ASSUME NEW m \in current + 1 .. L
          PROVE  \E k \in current .. L - 1 : s[k] = list[m]
      <4>1. CASE m = L
        BY <1>1, <2>2, <2>6, <4>1
      <4>2. CASE m /= L
        BY <1>1, <2>2, <2>6, <4>2
      <4> QED BY <4>1, <4>2
    <3>3. ASSUME NEW x, x \in {s[k] : k \in current .. L - 1}
          PROVE  x \in {list[k] : k \in current + 1 .. L}
      BY <3>1, <3>3
    <3>4. ASSUME NEW x, x \in {list[k] : k \in current + 1 .. L}
          PROVE  x \in {s[k] : k \in current .. L - 1}
      BY <3>2, <3>4
    <3> QED BY <3>3, <3>4
  <2>8. list[i] \notin {list[k] : k \in current + 1 .. L}
    BY <1>1, <1>2, <1>4
  <2>9. {s[k] : k \in Cursor(i) + 1 .. Len(s)} = ToCome \ {list[i]}
    <3>1. Cursor(i) + 1 = current
      BY <1>1, <2>2
    <3> QED BY <1>3, <2>7, <2>8, <3>1 DEF ToCome, L
  <2> QED BY <2>3, <2>4, <2>5, <2>9 DEF s
<1>5. CASE ~(i <= current)
  <2>1. \A k \in 1 .. L - 1 : s[k] = IF k = i THEN list[L] ELSE list[k]
    BY <1>5, RemovedCells
  <2>2. Cursor(i) = current
    BY <1>5 DEF Cursor
  <2> HIDE DEF s, L
  <2>3. \A k, l \in 1 .. Len(s) : s[k] = s[l] => k = l
    BY <1>1, <1>2, <1>3, <1>5, <2>1
  <2>4. ASSUME NEW lo \in Nat, lo < i
        PROVE  {s[k] : k \in lo + 1 .. L - 1} = {list[k] : k \in lo + 1 .. L} \ {list[i]}
    <3>1. ASSUME NEW k \in lo + 1 .. L - 1
          PROVE  \E m \in lo + 1 .. L : s[k] = list[m] /\ m /= i
      BY <1>1, <2>1, <2>4
    <3>2. ASSUME NEW m \in lo + 1 .. L, m /= i
          PROVE  \E k \in lo + 1 .. L - 1 : s[k] = list[m]
      <4>1. CASE m = L
        BY <1>1, <2>1, <2>4, <3>2, <4>1
      <4>2. CASE m /= L
        BY <1>1, <2>1, <2>4, <3>2, <4>2
      <4> QED BY <4>1, <4>2
    <3>3. \A m \in lo + 1 .. L : m /= i => list[m] /= list[i]
      BY <1>1, <1>2, <2>4
    <3>4. ASSUME NEW x, x \in {s[k] : k \in lo + 1 .. L - 1}
          PROVE  x \in {list[k] : k \in lo + 1 .. L} \ {list[i]}
      BY <3>1, <3>3, <3>4
    <3>5. ASSUME NEW x, x \in {list[k] : k \in lo + 1 .. L} \ {list[i]}
          PROVE  x \in {s[k] : k \in lo + 1 .. L - 1}
      BY <3>2, <3>5
    <3> QED BY <3>4, <3>5
  <2>5. CellsOf(s) = CellsOf(list) \ {list[i]}
    <3>2. 0 < i /\ 0 + 1 = 1
      BY <1>1
    <3>3. {s[k] : k \in 1 .. L - 1} = {list[k] : k \in 1 .. L} \ {list[i]}
      BY <2>4, <3>2
    <3> QED BY <1>3, <3>3 DEF CellsOf, L
  <2>6. {s[k] : k \in Cursor(i) + 1 .. Len(s)} = ToCome \ {list[i]}
    <3>1. current < i
      BY <1>1, <1>5
    <3> QED BY <1>1, <1>3, <2>2, <2>4, <3>1 DEF ToCome, L
  <2> QED BY <2>3, <2>5, <2>6 DEF s
<1> QED BY <1>4, <1>5

\* What add_int() keeps, as sets.
LEMMA AppendedAhead ==
  ASSUME SetTypeOK, IsSet, NEW n \in Elems
  PROVE  LET s == Appended(n) IN
         /\ CellsOf(s) = CellsOf(list) \cup {n}
         /\ {s[k] : k \in current + 1 .. Len(s)}
              = IF n \in CellsOf(list) THEN ToCome ELSE ToCome \cup {n}
<1>1. Len(list) \in Nat /\ current \in Nat /\ current <= Len(list)
  BY DEF SetTypeOK, IsSet
<1>2. CASE n \in CellsOf(list)
  BY <1>2 DEF Appended, ToCome
<1>3. CASE n \notin CellsOf(list)
  <2> DEFINE s == Appended(n)
  <2>1. /\ Len(s) = Len(list) + 1
        /\ s[Len(list) + 1] = n
        /\ \A i \in 1 .. Len(list) : s[i] = list[i]
    BY <1>3, AppendedSet
  <2> HIDE DEF s
  <2>2. ASSUME NEW lo \in Nat, lo <= Len(list)
        PROVE  {s[k] : k \in lo + 1 .. Len(s)}
                 = {list[k] : k \in lo + 1 .. Len(list)} \cup {n}
    <3>1. ASSUME NEW k \in lo + 1 .. Len(s)
          PROVE  s[k] = n \/ \E m \in lo + 1 .. Len(list) : s[k] = list[m]
      <4>1. CASE k = Len(list) + 1
        BY <2>1, <4>1
      <4>2. CASE k /= Len(list) + 1
        BY <1>1, <2>1, <2>2, <4>2
      <4> QED BY <4>1, <4>2
    <3>2. ASSUME NEW m \in lo + 1 .. Len(list)
          PROVE  m \in lo + 1 .. Len(s) /\ s[m] = list[m]
      BY <1>1, <2>1, <2>2
    <3>3. Len(list) + 1 \in lo + 1 .. Len(s)
      BY <1>1, <2>1, <2>2
    <3> QED BY <2>1, <3>1, <3>2, <3>3
  <2>3. CellsOf(s) = CellsOf(list) \cup {n}
    <3>1. 0 <= Len(list) /\ 0 + 1 = 1
      BY <1>1
    <3> QED BY <2>2, <3>1 DEF CellsOf
  <2>4. {s[k] : k \in current + 1 .. Len(s)} = ToCome \cup {n}
    BY <1>1, <2>2 DEF ToCome
  <2> QED BY <1>3, <2>3, <2>4 DEF s
<1> QED BY <1>2, <1>3

\* init_intset() makes an empty set.
LEMMA SetInitial == InitIntset => SetInv
BY SetEndAssumption, InitLenAssumption
DEF InitIntset, SetInv, SetTypeOK, ArrayFits, IsSet

\* Each call keeps the set one, and within its array.
LEMMA SetInductive == SetInv /\ [SetNext]_setVars => SetInv'
<1> SUFFICES ASSUME SetInv, [SetNext]_setVars PROVE SetInv'
  OBVIOUS
<1> USE DEF SetInv
<1>0. Len(list) \in Nat
  BY DEF SetTypeOK
<1>1. ASSUME NEW n \in Elems, AddInt(n) PROVE SetInv'
  <2>1. /\ Appended(n) \in Seq(Elems)
        /\ Len(Appended(n)) \in {Len(list), Len(list) + 1}
        /\ \A i, j \in 1 .. Len(Appended(n)) :
             Appended(n)[i] = Appended(n)[j] => i = j
    BY AppendedSet
  <2>2. maxlen' \in Nat /\ Len(list) + 1 <= maxlen'
    BY <1>0, <1>1, RoomForOneMore DEF AddInt, SetTypeOK, ArrayFits
  <2>3. SetTypeOK'
    BY <1>1, <2>1, <2>2 DEF AddInt, SetTypeOK
  <2>4. ArrayFits'
    BY <1>0, <1>1, <2>1, <2>2 DEF AddInt, ArrayFits
  <2>5. IsSet'
    BY <1>0, <1>1, <2>1 DEF AddInt, IsSet, SetTypeOK
  <2> QED BY <2>3, <2>4, <2>5
<1>2. ASSUME NEW n \in Elems, RemoveInt(n) PROVE SetInv'
  <2>1. PICK i \in 1 .. Len(list) :
          /\ list' = WithoutLast(GapFilled(i))
          /\ current' = Cursor(i)
          /\ maxlen' = Resized(Len(list) - 1, maxlen)
          /\ UNCHANGED got
    BY <1>2 DEF RemoveInt
  <2>2. list' \in Seq(Elems) /\ Len(list') = Len(list) - 1
    BY <2>1, RemovedCells
  <2>3. \A k, l \in 1 .. Len(list') : list'[k] = list'[l] => k = l
    BY <2>1, RemovedSet
  <2>4. current' \in Nat /\ current' <= Len(list) - 1
    BY <1>0, <2>1 DEF Cursor, SetTypeOK, IsSet
  <2>5. maxlen' \in Nat /\ Len(list) - 1 <= maxlen'
    <3>1. Len(list) - 1 \in Nat /\ Len(list) - 1 <= maxlen
      BY <1>0 DEF ArrayFits, SetTypeOK
    <3>2. /\ Resized(Len(list) - 1, maxlen) \in Nat
          /\ (Len(list) - 1) + 1 <= Resized(Len(list) - 1, maxlen)
      BY <3>1, RoomForOneMore DEF SetTypeOK
    <3> QED BY <2>1, <3>1, <3>2
  <2> QED BY <2>1, <2>2, <2>3, <2>4, <2>5 DEF SetTypeOK, ArrayFits, IsSet
<1>3. CASE FirstInt
  BY <1>0, <1>3 DEF FirstInt, SetTypeOK, ArrayFits, IsSet
<1>4. CASE NextInt
  BY <1>0, <1>4 DEF NextInt, SetTypeOK, ArrayFits, IsSet
<1>5. CASE UNCHANGED setVars
  BY <1>5 DEF setVars, SetTypeOK, ArrayFits, IsSet
<1> QED BY <1>1, <1>2, <1>3, <1>4, <1>5 DEF SetNext

\* So every state has the inductive invariant.
LEMMA SetInvariance == SetSpec => []SetInv
BY SetInitial, SetInductive, PTL DEF SetSpec

\* The cells hold numbers, and the cursor never goes below zero (utils.c:396).
THEOREM SetTypeCorrect == SetSpec => []SetTypeOK
BY SetInvariance, PTL DEF SetInv

\* add_int() never writes beyond the array, although remove_int() gives room back
\* (utils.c:380).
THEOREM ArrayFitsCorrect == SetSpec => []ArrayFits
BY SetInvariance, PTL DEF SetInv

\* No number is in the array twice, whatever remove_int() moves (utils.c:386).
THEOREM IsSetCorrect == SetSpec => []IsSet
BY SetInvariance, PTL DEF SetInv

\* A loop with first_int() and next_int() comes by every element once, whatever
\* its body adds and removes: the refinement, state by state and step by step.
THEOREM LoopCorrect == SetSpec => TraversalSpec
<1>1. InitIntset => Traverse!Init
  BY DEF InitIntset, Traverse!Init, CellsOf, ToCome
<1>2. ASSUME SetInv, [SetNext]_setVars PROVE [Traverse!Next]_(Traverse!vars)
  <2> USE <1>2 DEF SetInv
  <2>0. Len(list) \in Nat
    BY DEF SetTypeOK
  <2>1. ASSUME NEW n \in Elems, AddInt(n) PROVE Traverse!Add(n)
    <3>1. list' = Appended(n) /\ current' = current /\ got' = got
      BY <2>1 DEF AddInt
    <3>0. /\ CellsOf(Appended(n)) = CellsOf(list) \cup {n}
          /\ {Appended(n)[k] : k \in current + 1 .. Len(Appended(n))}
               = IF n \in CellsOf(list) THEN ToCome ELSE ToCome \cup {n}
      BY AppendedAhead
    <3>2. CellsOf(list)' = CellsOf(list) \cup {n}
      <4>1. CellsOf(list)' = CellsOf(Appended(n))
        BY <3>1 DEF CellsOf
      <4> QED BY <4>1, <3>0
    <3>3. ToCome' = IF n \in CellsOf(list) THEN ToCome ELSE ToCome \cup {n}
      BY <3>1, <3>0 DEF ToCome
    <3> QED BY <3>1, <3>2, <3>3 DEF Traverse!Add
  <2>2. ASSUME NEW n \in Elems, RemoveInt(n) PROVE Traverse!Remove(n)
    <3>1. PICK i \in 1 .. Len(list) :
            /\ list[i] = n
            /\ list' = WithoutLast(GapFilled(i))
            /\ current' = Cursor(i)
            /\ UNCHANGED got
      BY <2>2 DEF RemoveInt
    <3>2. CellsOf(list)' = CellsOf(list) \ {n}
      BY <3>1, RemovedSet DEF CellsOf
    <3>3. ToCome' = ToCome \ {n}
      BY <3>1, RemovedSet DEF ToCome
    <3> QED BY <3>1, <3>2, <3>3 DEF Traverse!Remove
  <2>3. CASE FirstInt
    <3>1. CASE list = <<>>
      BY <2>0, <2>3, <3>1 DEF FirstInt, Traverse!Next, Traverse!Done, ToCome, CellsOf, SetTypeOK, IsSet
    <3>2. CASE list /= <<>>
      <4>1. 1 \in 1 .. Len(list) /\ list[1] \in Elems
        BY <2>0, <3>2 DEF SetTypeOK
      <4>2. list[1] \in CellsOf(list) /\ got' = list[1] /\ UNCHANGED list
        BY <2>3, <3>2, <4>1 DEF FirstInt, CellsOf
      <4>3. current' = 1
        BY <2>3, <3>2 DEF FirstInt
      <4>4. ToCome' = {list[k] : k \in 2 .. Len(list)}
        BY <4>2, <4>3 DEF ToCome
      <4>5. {list[k] : k \in 2 .. Len(list)} = CellsOf(list) \ {list[1]}
        <5>1. \A k \in 2 .. Len(list) : k \in 1 .. Len(list) /\ list[k] /= list[1]
          BY <2>0, <4>1 DEF IsSet
        <5>2. \A k \in 1 .. Len(list) : k = 1 \/ k \in 2 .. Len(list)
          BY <2>0
        <5> QED BY <5>1, <5>2 DEF CellsOf
      <4>6. Traverse!First(list[1])
        BY <4>2, <4>4, <4>5 DEF Traverse!First
      <4> QED BY <4>1, <4>6 DEF Traverse!Next
    <3> QED BY <3>1, <3>2
  <2>4. CASE NextInt
    <3>1. CASE ~(current < Len(list))
      BY <2>0, <2>4, <3>1 DEF NextInt, Traverse!Next, Traverse!Done, ToCome, CellsOf, SetTypeOK, IsSet
    <3>2. CASE current < Len(list)
      <4> DEFINE c == current + 1
      <4>1. c \in 1 .. Len(list) /\ list[c] \in Elems
        BY <2>0, <3>2 DEF SetTypeOK
      <4>2. got' = list[c] /\ current' = c /\ UNCHANGED list
        BY <2>4, <3>2 DEF NextInt
      <4>3. list[c] \in ToCome
        BY <2>0, <4>1 DEF ToCome, SetTypeOK
      <4>4. ToCome' = {list[k] : k \in c + 1 .. Len(list)}
        BY <4>2 DEF ToCome
      <4> HIDE DEF c
      <4>5. {list[k] : k \in c + 1 .. Len(list)} = ToCome \ {list[c]}
        <5>1. current + 1 = c /\ c \in Nat
          BY DEF c, SetTypeOK
        <5>2. \A k \in c + 1 .. Len(list) : k \in c .. Len(list) /\ list[k] /= list[c]
          BY <2>0, <4>1, <5>1 DEF IsSet
        <5>3. \A k \in c .. Len(list) : k = c \/ k \in c + 1 .. Len(list)
          BY <2>0, <5>1
        <5> QED BY <5>1, <5>2, <5>3 DEF ToCome
      <4>6. Traverse!Following(list[c])
        BY <4>2, <4>3, <4>4, <4>5 DEF Traverse!Following, CellsOf
      <4> QED BY <4>1, <4>6 DEF Traverse!Next
    <3> QED BY <3>1, <3>2
  <2>5. CASE UNCHANGED setVars
    BY <2>5 DEF setVars, Traverse!vars, CellsOf, ToCome
  <2> QED BY <2>1, <2>2, <2>3, <2>4, <2>5 DEF SetNext, Traverse!Next
<1> QED BY <1>1, <1>2, SetInvariance, PTL DEF SetSpec, TraversalSpec, Traverse!Spec

-----------------------------------------------------------------------------
\* The inductive invariant of Clones, part by part.  It speaks of a world "w" as one
\* record, since DESTRUCT, LOAD and STORE pass through worlds no state shows.
Places == Kinds \X Int
Entries ==
  [id : Nat, in : Places, zone : Zones, temp : BOOLEAN, home : Places,
   occ : BOOLEAN, occReset : BOOLEAN]

\* The arrays are dense and never shorter than what is permanent.
Shape(w) ==
  /\ w = [at |-> w.at, table |-> w.table, zset |-> w.zset, pretend |-> w.pretend]
  /\ w.at = [k \in Kinds |-> w.at[k]]
  /\ w.zset \in [Zones -> [Kinds -> SUBSET Int]]
  /\ \A k \in Kinds : /\ Top(w, k) \in Nat /\ Const[k] <= Top(w, k) + 1
                      /\ w.at[k] \in [0 .. Top(w, k) -> Entries]

\* Whatever something is in exists and may hold it; things are in newer ones only.
FitsIn(w, k, h) == h = Limbo \/ (h[1] \in Holders[k] /\ h[2] \in DOMAIN w.at[h[1]])
Above(w, n, h) == h[1] = "obj" => n < w.at["obj"][h[2]].id
Held(w) == \A k \in Kinds : \A i \in DOMAIN w.at[k] : FitsIn(w, k, w.at[k][i].in)
Upward(w) == \A i \in DOMAIN w.at["obj"] : Above(w, w.at["obj"][i].id, w.at["obj"][i].in)

\* The IDs: the number of what is permanent, and of the rest what the counter gave,
\* each to one kind, f, and kept in the table with the number.
Permanents(w) ==
  \A k \in Kinds : \A i \in 0 .. Const[k] - 1 : w.at[k][i].id = i /\ w.at[k][i].zone = 0
Ids(w, f, c) ==
  \A k \in Kinds : \A i \in DOMAIN w.at[k] :
    i >= Const[k] => w.at[k][i].id \in IdStart .. c - 1 /\ f[w.at[k][i].id] = k
Tabled(w) ==
  /\ \A n \in DOMAIN w.table :
       \E k \in Kinds : \E i \in DOMAIN w.at[k] : i >= Const[k] /\ n = w.at[k][i].id
  /\ \A k \in Kinds : \A i \in DOMAIN w.at[k] :
       i >= Const[k] => w.at[k][i].id \in DOMAIN w.table /\ w.table[w.at[k][i].id] = i
Zoned(w) ==
  \A z \in Zones, k \in Kinds :
    w.zset[z][k] = {i \in DOMAIN w.at[k] : w.at[k][i].zone = z /\ ~Player(k, i)}

\* A home: something permanent, or an ID below "top" that is of the kind it names.
HomeOK(f, top, k, n, h) ==
  \/ h = Limbo
  \/ /\ h[1] \in Holders[k]
     /\ \/ h[2] \in 0 .. Const[h[1]] - 1
        \/ h[2] \in IdStart .. top - 1 /\ f[h[2]] = h[1]
     /\ h[1] = "obj" => n < h[2]
Homes(w, f, c) ==
  \A k \in Kinds : \A i \in DOMAIN w.at[k] :
    ~w.at[k][i].temp => HomeOK(f, c, k, w.at[k][i].id, w.at[k][i].home)

World(w, f, c) ==
  /\ Shape(w) /\ Held(w) /\ Upward(w)
  /\ Permanents(w) /\ Ids(w, f, c) /\ Tabled(w) /\ Zoned(w) /\ Homes(w, f, c)

Disk(d, f, s) ==
  \A k \in Kinds :
    /\ IsFiniteSet(d[k])
    /\ \A r \in d[k] : /\ r.home \in Places /\ r.occ \in BOOLEAN
                       /\ r.id \in IdStart .. s - 1 /\ f[r.id] = k
                       /\ HomeOK(f, s, k, r.id, r.home)
    /\ \A r, q \in d[k] : r.id = q.id => r = q

\* A reset goes over members of the set it stands at.
Fields == {"on", "zone", "keep", "now", "todo", "left", "again"}
Sweeping(sw, zs) ==
  \/ sw = Idle
  \/ /\ DOMAIN sw = Fields /\ sw.on = TRUE
     /\ sw.zone \in Zones /\ sw.todo \in Seq(Kinds) /\ sw.todo # << >>
     /\ sw.left \subseteq zs[sw.zone][Head(sw.todo)]
     /\ sw.again \subseteq sw.left

IInv ==
  /\ saved \in Nat /\ counter \in Nat /\ IdStart <= saved /\ saved <= counter
  /\ \E f \in [Nat -> Kinds] : World(W, f, counter) /\ Disk(disk, f, saved)
  /\ Sweeping(sweep, zset)

\* The top of an array that is dense.
LEMMA Counted ==
  ASSUME NEW w, NEW k, NEW t \in Int, t >= -1, DOMAIN w.at[k] = 0 .. t
  PROVE  Top(w, k) = t
<1>1. Cardinality(0 .. t) = t + 1
  BY FS_Interval
<1> QED BY <1>1 DEF Top

\* A reset that stands at the first of its sets, with all of it still to go over.
LEMMA Stands ==
  ASSUME NEW z \in Zones, NEW keep, NEW now, NEW t \in Seq(Kinds), t # << >>, NEW l, NEW a,
         NEW zs, l \subseteq zs[z][Head(t)], a \subseteq l,
         NEW sw, sw = [on |-> TRUE, zone |-> z, keep |-> keep, now |-> now, todo |-> t,
                       left |-> l, again |-> a]
  PROVE  Sweeping(sw, zs)
<1>1. /\ DOMAIN sw = Fields /\ sw.on = TRUE /\ sw.zone = z /\ sw.todo = t
      /\ sw.left = l /\ sw.again = a
  BY DEF Fields
<1>2. Sweeping(sw, zs)
  BY <1>1 DEF Sweeping
<1> QED BY <1>2

\* The same reset, a step on.
LEMMA GoesOn ==
  ASSUME NEW sw, DOMAIN sw = Fields, NEW t, NEW l, NEW a
  PROVE  /\ LET s == [sw EXCEPT !.left = l, !.again = a] IN
            /\ DOMAIN s = Fields /\ s.on = sw.on /\ s.zone = sw.zone
            /\ s.keep = sw.keep /\ s.now = sw.now
            /\ s.todo = sw.todo /\ s.left = l /\ s.again = a
         /\ LET s == [sw EXCEPT !.todo = t, !.left = l] IN
            /\ DOMAIN s = Fields /\ s.on = sw.on /\ s.zone = sw.zone
            /\ s.keep = sw.keep /\ s.now = sw.now
            /\ s.todo = t /\ s.left = l /\ s.again = sw.again
BY DEF Fields

\* The orders in which the sets of a zone are gone over.
LEMMA Orders ==
  /\ <<"mob", "obj", "loc">> \in Seq(Kinds) /\ Head(<<"mob", "obj", "loc">>) = "mob"
  /\ <<"obj", "mob", "loc">> \in Seq(Kinds) /\ Head(<<"obj", "mob", "loc">>) = "obj"
  /\ <<"mob", "obj", "loc">> # << >> /\ <<"obj", "mob", "loc">> # << >>
BY DEF Kinds

\* What a dense array has is numbered from zero.
LEMMA Numbered ==
  ASSUME NEW w, Shape(w), NEW k \in Kinds, NEW i \in DOMAIN w.at[k]
  PROVE  i \in Nat
BY DEF Shape

\* What the proofs need of the constants.
LEMMA Sizes ==
  /\ P \in Nat \ {0} /\ IdStart \in Nat /\ P <= Const["mob"]
  /\ \A k \in Kinds : Const[k] \in Nat \ {0} /\ Const[k] <= IdStart
BY SizesAssumption DEF Kinds

\* v differs from w only in where things are, and in what is marked and pretended.
Alike(w, v) ==
  /\ Shape(v) /\ v.table = w.table /\ v.zset = w.zset
  /\ \A k \in Kinds :
       /\ DOMAIN v.at[k] = DOMAIN w.at[k]
       /\ \A i \in DOMAIN w.at[k] :
            /\ v.at[k][i].id = w.at[k][i].id /\ v.at[k][i].zone = w.at[k][i].zone
            /\ v.at[k][i].temp = w.at[k][i].temp /\ v.at[k][i].home = w.at[k][i].home

\* Things may move, and be marked, without a number or an ID being touched.
LEMMA StillWorld ==
  ASSUME NEW w, NEW v, NEW f, NEW c, World(w, f, c), Alike(w, v), Held(v), Upward(v)
  PROVE  World(v, f, c)
<1>1. Shape(v)
  BY DEF Alike
<1>2. Permanents(v)
  <2>1. \A k \in Kinds : 0 .. Const[k] - 1 \subseteq DOMAIN w.at[k]
    BY Sizes DEF World, Shape
  <2> QED BY <2>1 DEF World, Permanents, Alike
<1>3. Ids(v, f, c)
  BY DEF World, Ids, Alike
<1>4. Tabled(v)
  BY DEF World, Tabled, Alike
<1>5. Zoned(v)
  <2>1. ASSUME NEW z \in Zones, NEW k \in Kinds
        PROVE  v.zset[z][k] = {i \in DOMAIN v.at[k] : v.at[k][i].zone = z /\ ~Player(k, i)}
    BY DEF World, Zoned, Alike
  <2> QED BY <2>1 DEF Zoned
<1>6. Homes(v, f, c)
  BY DEF World, Homes, Alike
<1> QED BY <1>1, <1>2, <1>3, <1>4, <1>5, <1>6 DEF World

\* Another entry e for k and i that has the same identity.
Put(w, k, i, e) == [w EXCEPT !.at = [w.at EXCEPT ![k] = [w.at[k] EXCEPT ![i] = e]]]
Same(e, d) == e.id = d.id /\ e.zone = d.zone /\ e.temp = d.temp /\ e.home = d.home

\* Only the place of one thing changes.
LEMMA PutAlike ==
  ASSUME NEW w, Shape(w), NEW k \in Kinds, NEW i \in DOMAIN w.at[k],
         NEW e \in Entries, Same(e, w.at[k][i])
  PROVE  LET v == Put(w, k, i, e) IN
         /\ Alike(w, v)
         /\ \A g \in Kinds : \A j \in DOMAIN w.at[g] :
              v.at[g][j].in = IF g = k /\ j = i THEN e.in ELSE w.at[g][j].in
<1> DEFINE v == Put(w, k, i, e)
<1>1. v = [w EXCEPT !.at = [w.at EXCEPT ![k] = [w.at[k] EXCEPT ![i] = e]]]
  BY DEF Put
<1>2. /\ v.at = [w.at EXCEPT ![k] = [w.at[k] EXCEPT ![i] = e]]
      /\ v.table = w.table /\ v.zset = w.zset /\ v.pretend = w.pretend
      /\ v = [at |-> v.at, table |-> v.table, zset |-> v.zset, pretend |-> v.pretend]
  BY <1>1 DEF Shape
<1> HIDE DEF v
<1>3. \A g \in Kinds : \A j \in DOMAIN w.at[g] :
        v.at[g][j] = IF g = k /\ j = i THEN e ELSE w.at[g][j]
  BY <1>2 DEF Shape
<1>4. \A g \in Kinds : DOMAIN v.at[g] = DOMAIN w.at[g] /\ Top(v, g) = Top(w, g)
  BY <1>2 DEF Shape, Top
<1>5. \A g \in Kinds : v.at[g] \in [0 .. Top(w, g) -> Entries]
  BY <1>2 DEF Shape
<1>6. v.at = [g \in Kinds |-> v.at[g]]
  BY <1>2 DEF Shape
<1>7. Shape(v)
  BY <1>2, <1>4, <1>5, <1>6 DEF Shape
<1> QED BY <1>2, <1>3, <1>4, <1>7 DEF Alike, Same, v

\* It may be put into whatever may hold it and is newer.
LEMMA PutWorld ==
  ASSUME NEW w, NEW f, NEW c, World(w, f, c),
         NEW k \in Kinds, NEW i \in DOMAIN w.at[k], NEW e \in Entries,
         Same(e, w.at[k][i]), FitsIn(w, k, e.in), k = "obj" => Above(w, w.at[k][i].id, e.in)
  PROVE  World(Put(w, k, i, e), f, c)
<1> DEFINE v == Put(w, k, i, e)
<1>1. Shape(w) /\ Held(w) /\ Upward(w)
  BY DEF World
<1>2. /\ Alike(w, v)
      /\ \A g \in Kinds : \A j \in DOMAIN w.at[g] :
           v.at[g][j].in = IF g = k /\ j = i THEN e.in ELSE w.at[g][j].in
  BY <1>1, PutAlike
<1> HIDE DEF v
<1>3. Kinds = {"loc", "mob", "obj"} /\ \A g \in Kinds : Holders[g] \subseteq Kinds
  BY DEF Kinds, Holders
<1>4. Held(v)
  <2>1. \A g \in Kinds : DOMAIN v.at[g] = DOMAIN w.at[g]
    BY <1>2 DEF Alike
  <2>2. \A g \in Kinds : \A p : FitsIn(w, g, p) => FitsIn(v, g, p)
    BY <1>3, <2>1 DEF FitsIn
  <2>3. ASSUME NEW g \in Kinds, NEW j \in DOMAIN w.at[g]
        PROVE  FitsIn(w, g, v.at[g][j].in)
    BY <1>1, <1>2 DEF Held
  <2> QED BY <2>1, <2>2, <2>3 DEF Held
<1>5. Upward(v)
  <2>1. ASSUME NEW g \in Places, FitsIn(w, "obj", g), g[1] = "obj"
        PROVE  g[2] \in DOMAIN w.at["obj"] /\ v.at["obj"][g[2]].id = w.at["obj"][g[2]].id
    BY <1>2, <1>3, <2>1 DEF FitsIn, Limbo, Alike
  <2>2. ASSUME NEW j \in DOMAIN v.at["obj"]
        PROVE  Above(v, v.at["obj"][j].id, v.at["obj"][j].in)
    <3>1. j \in DOMAIN w.at["obj"] /\ v.at["obj"][j].id = w.at["obj"][j].id
      BY <1>2, <1>3, <2>2 DEF Alike
    <3>2. CASE k = "obj" /\ j = i
      <4>1. e.in \in Places
        BY DEF Entries
      <4> QED BY <4>1, <1>2, <1>3, <2>1, <3>1, <3>2 DEF Above
    <3>3. CASE ~(k = "obj" /\ j = i)
      <4>1. v.at["obj"][j].in = w.at["obj"][j].in
        BY <1>2, <1>3, <3>1, <3>3
      <4>2. w.at["obj"][j].in \in Places
        BY <1>1, <1>3, <3>1 DEF Shape, Entries
      <4>3. Above(w, w.at["obj"][j].id, w.at["obj"][j].in) /\ FitsIn(w, "obj", w.at["obj"][j].in)
        BY <1>1, <1>3, <3>1 DEF Upward, Held
      <4> QED BY <2>1, <3>1, <4>1, <4>2, <4>3 DEF Above
    <3> QED BY <3>2, <3>3
  <2> QED BY <2>2 DEF Upward
<1> QED BY <1>2, <1>4, <1>5, StillWorld DEF v

\* setoloc(), setploc() and the like put one thing elsewhere.
LEMMA MovedPut ==
  ASSUME NEW w, Shape(w), NEW k \in Kinds, NEW i \in DOMAIN w.at[k], NEW h \in Places
  PROVE  LET e == [w.at[k][i] EXCEPT !.in = h] IN
         /\ Moved(w, <<k, i>>, h) = Put(w, k, i, e)
         /\ e \in Entries /\ Same(e, w.at[k][i]) /\ e.in = h
<1>1. w.at[k][i] \in Entries
  BY DEF Shape
<1>2. Moved(w, <<k, i>>, h) = Put(w, k, i, [w.at[k][i] EXCEPT !.in = h])
  BY DEF Moved, Put
<1> QED BY <1>1, <1>2 DEF Entries, Same

\* Only the place of what is moved changes.
LEMMA MovedAlike ==
  ASSUME NEW w, Shape(w), NEW k \in Kinds, NEW i \in DOMAIN w.at[k], NEW h \in Places
  PROVE  LET v == Moved(w, <<k, i>>, h) IN
         /\ Alike(w, v)
         /\ \A g \in Kinds : \A j \in DOMAIN w.at[g] :
              v.at[g][j].in = IF g = k /\ j = i THEN h ELSE w.at[g][j].in
<1> DEFINE e == [w.at[k][i] EXCEPT !.in = h]
<1>1. /\ Moved(w, <<k, i>>, h) = Put(w, k, i, e)
      /\ e \in Entries /\ Same(e, w.at[k][i]) /\ e.in = h
  BY MovedPut
<1> HIDE DEF e
<1>2. LET v == Put(w, k, i, e) IN
      /\ Alike(w, v)
      /\ \A g \in Kinds : \A j \in DOMAIN w.at[g] :
           v.at[g][j].in = IF g = k /\ j = i THEN e.in ELSE w.at[g][j].in
  BY <1>1, PutAlike
<1> QED BY <1>1, <1>2

\* A move into something that may hold it leaves the world as it should be.
LEMMA MovedWorld ==
  ASSUME NEW w, NEW f, NEW c, World(w, f, c),
         NEW k \in Kinds, NEW i \in DOMAIN w.at[k], NEW h \in Places, FitsIn(w, k, h),
         k = "obj" => Above(w, w.at[k][i].id, h)
  PROVE  World(Moved(w, <<k, i>>, h), f, c)
<1> DEFINE e == [w.at[k][i] EXCEPT !.in = h]
<1>1. /\ Moved(w, <<k, i>>, h) = Put(w, k, i, e)
      /\ e \in Entries /\ Same(e, w.at[k][i]) /\ e.in = h
  BY MovedPut DEF World
<1> HIDE DEF e
<1> QED BY <1>1, PutWorld

\* Only the places of what is in "h" change when it is emptied.
LEMMA SweptAlike ==
  ASSUME NEW w, Shape(w), NEW h, NEW there \in Places
  PROVE  LET v == Swept(w, h, there) IN
         /\ Alike(w, v)
         /\ \A g \in Kinds : \A j \in DOMAIN w.at[g] :
              v.at[g][j].in = IF w.at[g][j].in = h THEN there ELSE w.at[g][j].in
<1> DEFINE v == Swept(w, h, there)
           e(g, j) == IF w.at[g][j].in = h THEN [w.at[g][j] EXCEPT !.in = there] ELSE w.at[g][j]
<1>1. v = [w EXCEPT !.at = [g \in Kinds |-> [j \in DOMAIN w.at[g] |-> e(g, j)]]]
  BY DEF Swept
<1>2. /\ v.at = [g \in Kinds |-> [j \in DOMAIN w.at[g] |-> e(g, j)]]
      /\ v.table = w.table /\ v.zset = w.zset /\ v.pretend = w.pretend
      /\ v = [at |-> v.at, table |-> v.table, zset |-> v.zset, pretend |-> v.pretend]
  <2> HIDE DEF e
  <2> QED BY <1>1 DEF Shape
<1> HIDE DEF v
<1>3. ASSUME NEW g \in Kinds, NEW j \in DOMAIN w.at[g]
      PROVE  /\ e(g, j) \in Entries
             /\ e(g, j).id = w.at[g][j].id /\ e(g, j).zone = w.at[g][j].zone
             /\ e(g, j).temp = w.at[g][j].temp /\ e(g, j).home = w.at[g][j].home
             /\ e(g, j).in = IF w.at[g][j].in = h THEN there ELSE w.at[g][j].in
  <2>1. w.at[g][j] \in Entries
    BY <1>3 DEF Shape
  <2> QED BY <2>1 DEF Entries
<1> HIDE DEF e
<1>4. \A g \in Kinds : DOMAIN v.at[g] = DOMAIN w.at[g] /\ Top(v, g) = Top(w, g)
  BY <1>2 DEF Top
<1>5. \A g \in Kinds : \A j \in DOMAIN w.at[g] : v.at[g][j] = e(g, j)
  BY <1>2
<1>6. Shape(v)
  <2>1. v.at = [g \in Kinds |-> v.at[g]]
    BY <1>2
  <2>2. \A g \in Kinds : v.at[g] \in [0 .. Top(w, g) -> Entries]
    BY <1>2, <1>3 DEF Shape
  <2> QED BY <1>2, <1>4, <2>1, <2>2 DEF Shape
<1> QED BY <1>2, <1>3, <1>4, <1>5, <1>6 DEF Alike, v

\* Where what is spilt comes to may hold it, and is not what is destructed.
LEMMA SpillFits ==
  ASSUME NEW w, NEW f, NEW c, World(w, f, c), NEW k \in Kinds, NEW i \in DOMAIN w.at[k]
  PROVE  LET s == Spill(w, <<k, i>>) IN
         /\ s \in Places /\ s # <<k, i>>
         /\ \A g \in Kinds : k \in Holders[g] => FitsIn(w, g, s)
         /\ IF k = "obj" THEN Above(w, w.at["obj"][i].id, s) ELSE s[1] = "loc"
<1>1. Shape(w) /\ Held(w) /\ Upward(w)
  BY DEF World
<1>2. /\ \A g \in Kinds : \A j \in DOMAIN w.at[g] :
           /\ w.at[g][j].in \in Places /\ w.at[g][j].id \in Nat
           /\ FitsIn(w, g, w.at[g][j].in)
      /\ Limbo \in Places /\ Limbo[1] = "loc" /\ Limbo[2] = -1
      /\ DOMAIN w.at[k] \subseteq Nat
  <2>1. \A g \in Kinds : \A j \in DOMAIN w.at[g] : w.at[g][j] \in Entries
    BY <1>1 DEF Shape
  <2>2. \A e \in Entries : e.in \in Places /\ e.id \in Nat
    BY DEF Entries
  <2>3. DOMAIN w.at[k] \subseteq Nat
    BY <1>1 DEF Shape
  <2>4. Limbo \in Places /\ Limbo[1] = "loc" /\ Limbo[2] = -1
    BY DEF Limbo, Places, Kinds
  <2> QED BY <1>1, <2>1, <2>2, <2>3, <2>4 DEF Held
<1>3. CASE k = "loc"
  BY <1>2, <1>3 DEF Spill, FitsIn, Limbo
<1>4. ASSUME NEW j \in DOMAIN w.at["mob"]
      PROVE  LET s == w.at["mob"][j].in IN
             /\ s \in Places /\ s[1] = "loc" /\ FitsIn(w, "obj", s)
  <2>1. FitsIn(w, "mob", w.at["mob"][j].in) /\ w.at["mob"][j].in \in Places
    BY <1>2, <1>4 DEF Kinds
  <2> QED BY <1>2, <2>1 DEF FitsIn, Holders
<1>5. CASE k = "mob"
  <2>1. Spill(w, <<k, i>>) = w.at["mob"][i].in
    BY <1>5 DEF Spill, Entry
  <2>2. \A g \in Kinds : k \in Holders[g] => g = "obj"
    BY <1>5 DEF Kinds, Holders
  <2>3. k # "loc"
    BY <1>5
  <2>4. w.at["mob"][i].in # <<k, i>>
    BY <1>4, <1>5, <2>3
  <2> QED BY <1>4, <1>5, <2>1, <2>2, <2>4
<1>6. CASE k = "obj"
  <2> DEFINE h == w.at["obj"][i].in
  <2>1. h \in Places /\ FitsIn(w, "obj", h) /\ Above(w, w.at["obj"][i].id, h)
    BY <1>1, <1>2, <1>6 DEF Upward
  <2>2. \A g \in Kinds : k \in Holders[g] => g = "obj"
    BY <1>6 DEF Kinds, Holders
  <2>3. Spill(w, <<k, i>>) = IF h[1] = "mob" THEN w.at[h[1]][h[2]].in ELSE h
    BY <1>6 DEF Spill, SpillObject, Entry
  <2> HIDE DEF h
  <2>4. CASE h[1] = "mob"
    <3>1. h[2] \in DOMAIN w.at["mob"]
      BY <1>2, <2>1, <2>4 DEF FitsIn
    <3>2. Spill(w, <<k, i>>) = w.at["mob"][h[2]].in
      BY <2>3, <2>4
    <3> QED BY <1>4, <1>6, <2>2, <3>1, <3>2 DEF Above
  <2>5. CASE h[1] # "mob"
    <3>1. Spill(w, <<k, i>>) = h
      BY <2>3, <2>5
    <3>2. h # <<"obj", i>>
      <4>1. w.at["obj"][i].id \in Nat
        BY <1>2, <1>6
      <4> QED BY <2>1, <4>1 DEF Above
    <3> QED BY <1>6, <2>1, <2>2, <3>1, <3>2
  <2> QED BY <2>4, <2>5
<1> QED BY <1>3, <1>5, <1>6 DEF Kinds

\* Who is away where is of no consequence for the rest.
LEMMA SameWorld ==
  ASSUME NEW w, NEW v, NEW f, NEW c, World(w, f, c),
         v = [at |-> v.at, table |-> v.table, zset |-> v.zset, pretend |-> v.pretend],
         v.at = w.at, v.table = w.table, v.zset = w.zset
  PROVE  World(v, f, c)
<1>1. Shape(w)
  BY DEF World
<1>2. Shape(v)
  BY <1>1 DEF Shape, Top
<1>3. Alike(w, v)
  BY <1>2 DEF Alike
<1>4. Held(v) /\ Upward(v)
  BY DEF World, Held, Upward, FitsIn, Above
<1> QED BY <1>3, <1>4, StillWorld

\* Who is back in his own body has nothing else changed.
LEMMA UnaliasedWorld ==
  ASSUME NEW w, NEW f, NEW c, World(w, f, c), NEW k, NEW i
  PROVE  LET v == Unaliased(w, k, i) IN World(v, f, c) /\ v.at = w.at
<1> DEFINE v == Unaliased(w, k, i)
<1>1. Shape(w)
  BY DEF World
<1>2. /\ v.at = w.at /\ v.table = w.table /\ v.zset = w.zset
      /\ v = [at |-> v.at, table |-> v.table, zset |-> v.zset, pretend |-> v.pretend]
  BY <1>1 DEF Unaliased, Shape
<1> HIDE DEF v
<1> QED BY <1>2, SameWorld DEF v

\* Where things are when i is taken out of the world.
InGap(w, k, i, g, j) ==
  IF g = k /\ j = i THEN Limbo
  ELSE IF w.at[g][j].in = <<k, i>> THEN Spill(w, <<k, i>>) ELSE w.at[g][j].in

\* What is to be destructed is empty and in nothing, and the world is as it was.
LEMMA GapWorld ==
  ASSUME NEW w, NEW f, NEW c, World(w, f, c), NEW k \in Kinds, NEW i \in DOMAIN w.at[k]
  PROVE  LET v == Gap(w, k, i) IN
         /\ World(v, f, c)
         /\ \A g \in Kinds : /\ DOMAIN v.at[g] = DOMAIN w.at[g]
                            /\ \A j \in DOMAIN w.at[g] :
                                 /\ v.at[g][j].in # <<k, i>>
                                 /\ v.at[g][j].id = w.at[g][j].id
                                 /\ v.at[g][j].zone = w.at[g][j].zone
                                 /\ v.at[g][j].temp = w.at[g][j].temp
                                /\ v.at[g][j].in = InGap(w, k, i, g, j)
         /\ v.zset = w.zset
<1> DEFINE a == Unaliased(w, k, i)
           s == Spill(a, <<k, i>>)
           b == Swept(a, <<k, i>>, s)
           v == Moved(b, <<k, i>>, Limbo)
<1>0. Gap(w, k, i) = v
  BY DEF Gap, Emptied
<1>1. World(a, f, c) /\ a.at = w.at
  BY UnaliasedWorld
<1>2. i \in DOMAIN a.at[k]
  BY <1>1
<1>z. a.zset = w.zset
  BY DEF World, Shape, Unaliased
<1> HIDE DEF a
<1>3. /\ s \in Places /\ s # <<k, i>>
      /\ \A g \in Kinds : k \in Holders[g] => FitsIn(a, g, s)
      /\ IF k = "obj" THEN Above(a, a.at["obj"][i].id, s) ELSE s[1] = "loc"
  BY <1>1, <1>2, SpillFits
<1> HIDE DEF s
<1>4. Shape(a) /\ Held(a) /\ Upward(a)
  BY <1>1 DEF World
<1>5. /\ Alike(a, b)
      /\ \A g \in Kinds : \A j \in DOMAIN a.at[g] :
           b.at[g][j].in = IF a.at[g][j].in = <<k, i>> THEN s ELSE a.at[g][j].in
  BY <1>3, <1>4, SweptAlike
<1> HIDE DEF b
<1>6. Kinds = {"loc", "mob", "obj"} /\ \A g \in Kinds : Holders[g] \subseteq Kinds
  BY DEF Kinds, Holders
<1>7. ASSUME NEW g \in Kinds, NEW j \in DOMAIN a.at[g]
      PROVE  /\ FitsIn(a, g, a.at[g][j].in) /\ FitsIn(a, g, b.at[g][j].in)
             /\ a.at[g][j].in \in Places /\ b.at[g][j].in \in Places
             /\ b.at[g][j].in # <<k, i>>
  <2>1. FitsIn(a, g, a.at[g][j].in)
    BY <1>4, <1>7 DEF Held
  <2>2. a.at[g][j] \in Entries
    BY <1>4, <1>7 DEF Shape
  <2>3. a.at[g][j].in \in Places
    BY <2>2 DEF Entries
  <2>4. CASE a.at[g][j].in = <<k, i>>
    <3>1. b.at[g][j].in = s
      BY <1>5, <1>7, <2>4
    <3>2. <<k, i>>[1] = k /\ <<k, i>>[2] = i /\ Limbo[2] = -1
      BY DEF Limbo
    <3>3. i \in Nat
      BY <1>2, <1>4 DEF Shape
    <3>4. k \in Holders[g]
      BY <2>1, <2>4, <3>2, <3>3 DEF FitsIn, Limbo
    <3> QED BY <1>3, <1>7, <2>1, <2>3, <3>1, <3>4
  <2>5. CASE a.at[g][j].in # <<k, i>>
    BY <1>5, <1>7, <2>1, <2>3, <2>5
  <2> QED BY <2>4, <2>5
<1>8. Held(b)
  <2>1. \A g \in Kinds : DOMAIN b.at[g] = DOMAIN a.at[g]
    BY <1>5 DEF Alike
  <2>2. \A g \in Kinds : \A p : FitsIn(a, g, p) => FitsIn(b, g, p)
    BY <1>6, <2>1 DEF FitsIn
  <2> QED BY <1>7, <2>1, <2>2 DEF Held
<1>9. Upward(b)
  <2>1. ASSUME NEW g \in Places, FitsIn(a, "obj", g), g[1] = "obj"
        PROVE  g[2] \in DOMAIN a.at["obj"] /\ b.at["obj"][g[2]].id = a.at["obj"][g[2]].id
               /\ a.at["obj"][g[2]].id \in Nat
    <3>1. g[2] \in DOMAIN a.at["obj"]
      BY <2>1 DEF FitsIn, Limbo
    <3>2. a.at["obj"][g[2]] \in Entries
      BY <1>4, <1>6, <3>1 DEF Shape
    <3> QED BY <1>5, <1>6, <3>1, <3>2 DEF Alike, Entries
  <2>2. ASSUME NEW j \in DOMAIN b.at["obj"]
        PROVE  Above(b, b.at["obj"][j].id, b.at["obj"][j].in)
    <3>1. j \in DOMAIN a.at["obj"] /\ b.at["obj"][j].id = a.at["obj"][j].id
      BY <1>5, <1>6, <2>2 DEF Alike
    <3>2. /\ FitsIn(a, "obj", a.at["obj"][j].in) /\ FitsIn(a, "obj", b.at["obj"][j].in)
          /\ a.at["obj"][j].in \in Places /\ b.at["obj"][j].in \in Places
      BY <1>6, <1>7, <3>1
    <3>3. Above(a, a.at["obj"][j].id, a.at["obj"][j].in)
      BY <1>4, <3>1 DEF Upward
    <3>4. a.at["obj"][j].id \in Nat
      <4>1. a.at["obj"][j] \in Entries
        BY <1>4, <1>6, <3>1 DEF Shape
      <4> QED BY <4>1 DEF Entries
    <3>5. Above(a, a.at["obj"][j].id, b.at["obj"][j].in)
      <4>1. CASE a.at["obj"][j].in = <<k, i>>
        <5>1. b.at["obj"][j].in = s
          BY <1>5, <1>6, <3>1, <4>1
        <5>2. CASE k = "obj"
          <6>1. a.at["obj"][j].id < a.at["obj"][i].id
            BY <3>3, <4>1, <5>2 DEF Above
          <6>2. Above(a, a.at["obj"][i].id, s)
            BY <1>3, <5>2
          <6>3. a.at["obj"][i].id \in Nat
            <7>1. a.at["obj"][i] \in Entries
              BY <1>2, <1>4, <1>6, <5>2 DEF Shape
            <7> QED BY <7>1 DEF Entries
          <6>4. s[1] = "obj" => a.at["obj"][s[2]].id \in Nat
            BY <2>1, <3>2, <5>1
          <6> QED BY <3>4, <5>1, <6>1, <6>2, <6>3, <6>4 DEF Above
        <5>3. CASE k # "obj"
          BY <1>3, <5>1, <5>3 DEF Above
        <5> QED BY <5>2, <5>3
      <4>2. CASE a.at["obj"][j].in # <<k, i>>
        BY <1>5, <1>6, <3>1, <3>3, <4>2
      <4> QED BY <4>1, <4>2
    <3> QED BY <2>1, <3>1, <3>2, <3>5 DEF Above
  <2> QED BY <2>2 DEF Upward
<1>10. World(b, f, c)
  BY <1>1, <1>5, <1>8, <1>9, StillWorld
<1>11. i \in DOMAIN b.at[k]
  BY <1>2, <1>5 DEF Alike
<1>12. Limbo \in Places /\ FitsIn(b, k, Limbo) /\ Above(b, b.at[k][i].id, Limbo)
  BY DEF Limbo, Places, Kinds, FitsIn, Above
<1>13. World(v, f, c)
  BY <1>10, <1>11, <1>12, MovedWorld
<1>14. /\ Alike(b, v)
       /\ \A g \in Kinds : \A j \in DOMAIN b.at[g] :
            v.at[g][j].in = IF g = k /\ j = i THEN Limbo ELSE b.at[g][j].in
  BY <1>10, <1>11, <1>12, MovedAlike DEF World
<1> HIDE DEF v
<1>15. Limbo # <<k, i>>
  BY <1>2, <1>4 DEF Limbo, Shape
<1>16. ASSUME NEW g \in Kinds
       PROVE  /\ DOMAIN v.at[g] = DOMAIN w.at[g]
              /\ \A j \in DOMAIN w.at[g] :
                   /\ v.at[g][j].in # <<k, i>>
                   /\ v.at[g][j].id = w.at[g][j].id
                   /\ v.at[g][j].zone = w.at[g][j].zone
                   /\ v.at[g][j].temp = w.at[g][j].temp
  <2>1. DOMAIN b.at[g] = DOMAIN w.at[g] /\ DOMAIN v.at[g] = DOMAIN w.at[g]
    BY <1>1, <1>5, <1>14, <1>16 DEF Alike
  <2>2. ASSUME NEW j \in DOMAIN w.at[g]
        PROVE  /\ v.at[g][j].in # <<k, i>>
               /\ v.at[g][j].id = w.at[g][j].id
               /\ v.at[g][j].zone = w.at[g][j].zone
               /\ v.at[g][j].temp = w.at[g][j].temp
    <3>1. b.at[g][j].in # <<k, i>>
      BY <1>1, <1>7, <1>16, <2>2
    <3>2. v.at[g][j].in # <<k, i>>
      BY <1>14, <1>15, <1>16, <2>1, <2>2, <3>1
    <3> QED BY <1>1, <1>5, <1>14, <1>16, <2>1, <2>2, <3>2 DEF Alike
  <2> QED BY <2>1, <2>2
<1>17. v.zset = w.zset
  BY <1>z, <1>5, <1>14 DEF Alike
<1>18. s = Spill(w, <<k, i>>)
  BY <1>1 DEF s, Spill, SpillObject, Entry
<1>19. \A g \in Kinds : \A j \in DOMAIN w.at[g] : v.at[g][j].in = InGap(w, k, i, g, j)
  BY <1>1, <1>5, <1>14, <1>18 DEF Alike, InGap
<1> QED BY <1>0, <1>13, <1>16, <1>17, <1>19 DEF v

\* What has the number j now had this one, and what was in the last is in i.
Was(w, k, i, g, j) == IF g = k /\ j = i THEN Top(w, k) ELSE j
Now(w, k, i, h) == IF h = <<k, Top(w, k)>> THEN <<k, i>> ELSE h
Refilled(w, v, k, i) ==
  /\ \A g \in Kinds : DOMAIN v.at[g] = IF g = k THEN 0 .. Top(w, k) - 1 ELSE DOMAIN w.at[g]
  /\ \A g \in Kinds : \A j \in DOMAIN v.at[g] :
       LET o == Was(w, k, i, g, j) IN
       /\ o \in DOMAIN w.at[g] /\ (g = k => o # i)
       /\ v.at[g][j].id = w.at[g][o].id /\ v.at[g][j].zone = w.at[g][o].zone
       /\ v.at[g][j].temp = w.at[g][o].temp
       /\ v.at[g][j].in = Now(w, k, i, w.at[g][o].in)

\* The last of the array comes to the gap: in the array, the table and the sets of
\* the zones, and for what is in it (clone.c:280).
LEMMA FilledWorld ==
  ASSUME NEW v, NEW f, NEW c, World(v, f, c), c \in Nat,
         NEW k \in Kinds, NEW i \in DOMAIN v.at[k], Const[k] <= i,
         \A g \in Kinds : \A j \in DOMAIN v.at[g] : v.at[g][j].in # <<k, i>>
  PROVE  LET r == Filled(v, k, i) IN
         /\ World(r, f, c)
         /\ \A z \in Zones :
              i # Top(v, k) /\ v.at[k][Top(v, k)].zone = z => i \in r.zset[z][k]
         /\ Refilled(v, r, k, i)
<1> DEFINE top == Top(v, k)
           a == [j \in 0 .. top - 1 |-> v.at[k][IF j = i THEN top ELSE j]]
           w == [at |-> [v.at EXCEPT ![k] = a], table |-> TableAfter(v, k, i),
                 zset |-> ZonesAfter(v, k, i), pretend |-> PretendAfter(v, k, i)]
           r == IF i = top THEN w ELSE Swept(w, <<k, top>>, <<k, i>>)
           From(g, j) == IF g = k /\ j = i THEN top ELSE j
           To(h) == IF h = <<k, top>> THEN <<k, i>> ELSE h
<1>0. Filled(v, k, i) = r
  BY DEF Filled
<1>1. Shape(v) /\ Held(v) /\ Upward(v) /\ Permanents(v) /\ Ids(v, f, c) /\ Tabled(v)
      /\ Zoned(v) /\ Homes(v, f, c)
  BY DEF World
<1>2. /\ top \in Nat \ {0} /\ DOMAIN v.at[k] = 0 .. top /\ i \in 0 .. top
      /\ Const[k] \in Nat \ {0} /\ Const[k] <= i /\ Const[k] <= top
  BY <1>1, Sizes DEF Shape
<1>3. \A g \in Kinds : \A j \in DOMAIN v.at[g] : v.at[g][j] \in Entries
  BY <1>1 DEF Shape
<1>4. v.at[k] \in [0 .. top -> Entries] /\ v.at = [g \in Kinds |-> v.at[g]]
  BY <1>1 DEF Shape
<1>5. /\ \A g \in Kinds : DOMAIN w.at[g] = IF g = k THEN 0 .. top - 1 ELSE DOMAIN v.at[g]
      /\ \A g \in Kinds : \A j \in DOMAIN w.at[g] : w.at[g][j] = v.at[g][From(g, j)]
      /\ w.table = TableAfter(v, k, i) /\ w.zset = ZonesAfter(v, k, i)
      /\ w = [at |-> w.at, table |-> w.table, zset |-> w.zset, pretend |-> w.pretend]
      /\ w.at = [g \in Kinds |-> w.at[g]]
  BY <1>4
<1>6. a \in [0 .. top - 1 -> Entries] /\ w.at[k] = a /\ \A g \in Kinds \ {k} : w.at[g] = v.at[g]
  BY <1>2, <1>3, <1>4
<1> HIDE DEF a, w
<1>7. Top(w, k) = top - 1 /\ \A g \in Kinds \ {k} : Top(w, g) = Top(v, g)
  <2>1. top - 1 \in Int /\ top - 1 >= -1 /\ DOMAIN w.at[k] = 0 .. top - 1
    BY <1>2, <1>5
  <2> HIDE DEF top
  <2>2. Top(w, k) = top - 1
    BY <2>1, Counted
  <2> QED BY <1>6, <2>2 DEF Top
<1> HIDE DEF top
<1>8. w.zset \in [Zones -> [Kinds -> SUBSET Int]]
  <2>1. \A z \in Zones, g \in Kinds : v.zset[z][g] \in SUBSET Int
    BY <1>1 DEF Shape
  <2>2. \A z \in Zones : v.zset[z] \in [Kinds -> SUBSET Int] /\ i \in Int
    BY <1>1, <1>2 DEF Shape
  <2>3. ZonesAfter(v, k, i) \in [Zones -> [Kinds -> SUBSET Int]]
    BY <2>1, <2>2 DEF ZonesAfter
  <2> QED BY <1>5, <2>3
<1>9. Shape(w)
  <2>1. \A g \in Kinds : /\ Top(w, g) \in Nat /\ Const[g] <= Top(w, g) + 1
                         /\ w.at[g] \in [0 .. Top(w, g) -> Entries]
    BY <1>1, <1>2, <1>6, <1>7 DEF Shape
  <2> QED BY <1>5, <1>8, <2>1 DEF Shape
<1>10. /\ Shape(r) /\ r.table = w.table /\ r.zset = w.zset
       /\ \A g \in Kinds :
            /\ DOMAIN r.at[g] = DOMAIN w.at[g]
            /\ \A j \in DOMAIN w.at[g] :
                 /\ r.at[g][j].id = w.at[g][j].id /\ r.at[g][j].zone = w.at[g][j].zone
                 /\ r.at[g][j].temp = w.at[g][j].temp /\ r.at[g][j].home = w.at[g][j].home
                 /\ r.at[g][j].in = To(w.at[g][j].in)
  <2>1. CASE i = top
    <3>1. \A g \in Kinds : \A j \in DOMAIN w.at[g] : To(w.at[g][j].in) = w.at[g][j].in
      BY <2>1
    <3> QED BY <1>9, <2>1, <3>1
  <2>2. CASE i # top
    <3>1. <<k, i>> \in Places
      BY <1>2 DEF Places
    <3>2. r = Swept(w, <<k, top>>, <<k, i>>)
      BY <2>2
    <3>3. /\ Alike(w, Swept(w, <<k, top>>, <<k, i>>))
          /\ \A g \in Kinds : \A j \in DOMAIN w.at[g] :
               Swept(w, <<k, top>>, <<k, i>>).at[g][j].in
                 = IF w.at[g][j].in = <<k, top>> THEN <<k, i>> ELSE w.at[g][j].in
      BY <1>9, <3>1, SweptAlike
    <3> HIDE DEF r
    <3> QED BY <3>2, <3>3 DEF Alike
  <2> QED BY <2>1, <2>2
<1> HIDE DEF r
<1>11. ASSUME NEW g \in Kinds, NEW j \in DOMAIN r.at[g]
       PROVE  /\ From(g, j) \in DOMAIN v.at[g] /\ (g = k => From(g, j) # i)
              /\ r.at[g][j].id = v.at[g][From(g, j)].id
              /\ r.at[g][j].zone = v.at[g][From(g, j)].zone
              /\ r.at[g][j].temp = v.at[g][From(g, j)].temp
              /\ r.at[g][j].home = v.at[g][From(g, j)].home
              /\ r.at[g][j].in = To(v.at[g][From(g, j)].in)
              /\ j \in Nat /\ Const[g] \in Nat
              /\ j >= Const[g] <=> From(g, j) >= Const[g]
              /\ From(g, j) = j \/ (g = k /\ j = i)
  <2>1. j \in DOMAIN w.at[g]
    BY <1>10, <1>11
  <2>2. j \in Nat /\ Const[g] \in Nat
    BY <1>10, <1>11, Sizes DEF Shape
  <2>3. From(g, j) \in DOMAIN v.at[g] /\ (g = k => From(g, j) # i)
    BY <1>2, <1>5, <2>1
  <2>4. w.at[g][j] = v.at[g][From(g, j)]
    BY <1>5, <2>1
  <2> QED BY <1>2, <1>10, <2>1, <2>2, <2>3, <2>4
<1>12. ASSUME NEW g \in Kinds, NEW o \in DOMAIN v.at[g], ~(g = k /\ o = i)
       PROVE  LET j == IF g = k /\ o = top THEN i ELSE o
              IN  j \in DOMAIN r.at[g] /\ From(g, j) = o
  BY <1>2, <1>5, <1>10, <1>12
<1>13. Held(r)
  <2>1. ASSUME NEW g \in Kinds, NEW h \in Places, FitsIn(v, g, h), h # <<k, i>>
        PROVE  FitsIn(r, g, To(h))
    <3>1. CASE h = Limbo
      BY <1>2, <3>1 DEF FitsIn, Limbo
    <3>2. CASE h # Limbo /\ h = <<k, top>>
      <4>1. h[1] = k /\ h[2] = top /\ To(h)[1] = k /\ To(h)[2] = i
        BY <3>2
      <4>2. i # top
        BY <2>1, <3>2
      <4>3. i \in DOMAIN r.at[k]
        BY <1>2, <1>5, <1>10, <4>2
      <4> QED BY <2>1, <3>2, <4>1, <4>3 DEF FitsIn
    <3>3. CASE h # Limbo /\ h # <<k, top>>
      <4>1. h = <<h[1], h[2]>> /\ h[1] \in Kinds
        BY DEF Places
      <4>2. h[2] \in DOMAIN v.at[h[1]] /\ h[1] \in Holders[g]
        BY <2>1, <3>3 DEF FitsIn
      <4>3. h[1] = k => h[2] # top /\ h[2] # i
        BY <2>1, <3>3, <4>1
      <4>4. h[2] \in DOMAIN r.at[h[1]]
        BY <1>2, <1>5, <1>10, <4>1, <4>2, <4>3
      <4>5. To(h) = h
        BY <3>3
      <4> QED BY <4>2, <4>4, <4>5 DEF FitsIn
    <3> QED BY <3>1, <3>2, <3>3
  <2>2. ASSUME NEW g \in Kinds, NEW j \in DOMAIN r.at[g]
        PROVE  FitsIn(r, g, r.at[g][j].in)
    <3> DEFINE o == From(g, j)
               h == v.at[g][o].in
    <3>1. o \in DOMAIN v.at[g] /\ r.at[g][j].in = To(h)
      BY <1>11
    <3> HIDE DEF o
    <3>2. FitsIn(v, g, h)
      BY <1>1, <3>1 DEF Held
    <3>3. h \in Places
      BY <1>3, <3>1 DEF Entries
    <3>4. h # <<k, i>>
      BY <3>1
    <3> QED BY <2>1, <3>1, <3>2, <3>3, <3>4
  <2> QED BY <2>2 DEF Held
<1>14. Upward(r)
  <2>1. "obj" \in Kinds
    BY DEF Kinds
  <2>2. ASSUME NEW j \in DOMAIN r.at["obj"]
        PROVE  Above(r, r.at["obj"][j].id, r.at["obj"][j].in)
    <3> DEFINE o == From("obj", j)
               h == v.at["obj"][o].in
    <3>1. o \in DOMAIN v.at["obj"] /\ r.at["obj"][j].in = To(h)
          /\ r.at["obj"][j].id = v.at["obj"][o].id
      BY <1>11, <2>1
    <3> HIDE DEF o
    <3>2. FitsIn(v, "obj", h) /\ Above(v, v.at["obj"][o].id, h)
      BY <1>1, <2>1, <3>1 DEF Held, Upward
    <3>3. h \in Places /\ h # <<k, i>>
      BY <1>3, <2>1, <3>1 DEF Entries
    <3>4. SUFFICES ASSUME To(h)[1] = "obj"
                   PROVE  v.at["obj"][o].id < r.at["obj"][To(h)[2]].id
      BY <3>1 DEF Above
    <3>5. h[1] = "obj"
      BY <3>4
    <3>6. v.at["obj"][o].id < v.at["obj"][h[2]].id
      BY <3>2, <3>5 DEF Above
    <3>7. h[2] \in DOMAIN v.at["obj"]
      BY <3>2, <3>5 DEF FitsIn, Limbo
    <3>8. ~("obj" = k /\ h[2] = i)
      BY <3>3, <3>5 DEF Places
    <3>9. To(h)[2] = IF "obj" = k /\ h[2] = top THEN i ELSE h[2]
      <4>1. h = <<h[1], h[2]>>
        BY <3>3 DEF Places
      <4> QED BY <3>5, <4>1
    <3>10. To(h)[2] \in DOMAIN r.at["obj"] /\ From("obj", To(h)[2]) = h[2]
      BY <1>12, <2>1, <3>7, <3>8, <3>9
    <3>11. r.at["obj"][To(h)[2]].id = v.at["obj"][h[2]].id
      BY <1>11, <2>1, <3>10
    <3> QED BY <3>6, <3>11
  <2> QED BY <2>2 DEF Upward
<1>15. Permanents(r)
  <2>1. ASSUME NEW g \in Kinds, NEW j \in 0 .. Const[g] - 1
        PROVE  r.at[g][j].id = j /\ r.at[g][j].zone = 0
    <3>1. j \in DOMAIN r.at[g]
      BY <1>10, Sizes DEF Shape
    <3>2. From(g, j) = j
      BY <1>2
    <3> QED BY <1>1, <1>11, <3>1, <3>2 DEF Permanents
  <2> QED BY <2>1 DEF Permanents
<1>16. Ids(r, f, c)
  <2>1. ASSUME NEW g \in Kinds, NEW j \in DOMAIN r.at[g], j >= Const[g]
        PROVE  r.at[g][j].id \in IdStart .. c - 1 /\ f[r.at[g][j].id] = g
    <3>1. From(g, j) \in DOMAIN v.at[g] /\ From(g, j) >= Const[g]
          /\ r.at[g][j].id = v.at[g][From(g, j)].id
      BY <1>11, <2>1
    <3> HIDE DEF From
    <3> QED BY <1>1, <3>1 DEF Ids
  <2> QED BY <2>1 DEF Ids
<1> DEFINE gone == v.at[k][i].id
           last == v.at[k][top].id
<1>17. r.table = [n \in DOMAIN v.table \ {gone} |-> IF n = last THEN i ELSE v.table[n]]
  BY <1>5, <1>10 DEF TableAfter, top
<1>18. /\ gone \in DOMAIN v.table /\ v.table[gone] = i /\ f[gone] = k
       /\ last \in DOMAIN v.table /\ v.table[last] = top /\ f[last] = k
  <2>1. i >= Const[k] /\ top \in DOMAIN v.at[k] /\ top >= Const[k]
    BY <1>2
  <2> QED BY <1>1, <2>1 DEF Tabled, Ids
<1> HIDE DEF gone, last
<1>19. Tabled(r)
  <2>1. ASSUME NEW n \in DOMAIN r.table
        PROVE  \E g \in Kinds : \E j \in DOMAIN r.at[g] : j >= Const[g] /\ n = r.at[g][j].id
    <3>1. n \in DOMAIN v.table /\ n # gone
      BY <1>17
    <3>a. PICK g \in Kinds : \E o \in DOMAIN v.at[g] : o >= Const[g] /\ n = v.at[g][o].id
      BY <1>1, <3>1 DEF Tabled
    <3>2. PICK o \in DOMAIN v.at[g] : o >= Const[g] /\ n = v.at[g][o].id
      BY <3>a
    <3>3. ~(g = k /\ o = i)
      BY <3>1, <3>2 DEF gone
    <3>4. PICK j \in DOMAIN r.at[g] : From(g, j) = o
      BY <1>12, <3>3
    <3>5. j >= Const[g] /\ n = r.at[g][j].id
      BY <1>11, <3>2, <3>4
    <3> QED BY <3>5
  <2>2. ASSUME NEW g \in Kinds, NEW j \in DOMAIN r.at[g], j >= Const[g]
        PROVE  r.at[g][j].id \in DOMAIN r.table /\ r.table[r.at[g][j].id] = j
    <3> DEFINE o == From(g, j)
               n == v.at[g][o].id
    <3>1. /\ o \in DOMAIN v.at[g] /\ (g = k => o # i) /\ o >= Const[g]
          /\ r.at[g][j].id = n
          /\ o = IF g = k /\ j = i THEN top ELSE j
          /\ g = k => j # top
      <4>1. g = k => j # top
        BY <1>2, <1>5, <1>10
      <4> QED BY <1>11, <2>2, <4>1
    <3> HIDE DEF o
    <3>2. n \in DOMAIN v.table /\ v.table[n] = o /\ f[n] = g
      BY <1>1, <3>1 DEF Tabled, Ids
    <3> HIDE DEF n
    <3>3. n # gone
      BY <1>18, <3>1, <3>2
    <3>4. n = last => g = k /\ o = top
      BY <1>18, <3>2
    <3>5. n \in DOMAIN r.table /\ r.table[n] = IF n = last THEN i ELSE v.table[n]
      BY <1>17, <3>2, <3>3
    <3>6. g = k /\ o = top => n = last
      BY DEF n, last
    <3>7. r.table[n] = j
      <4>1. CASE g = k /\ j = i
        BY <3>1, <3>5, <3>6, <4>1
      <4>2. CASE ~(g = k /\ j = i)
        BY <3>1, <3>2, <3>4, <3>5, <4>2
      <4> QED BY <4>1, <4>2
    <3> QED BY <3>1, <3>5, <3>2, <3>3, <3>7
  <2> QED BY <2>1, <2>2 DEF Tabled
<1>20. \A g \in Kinds, j \in Nat : j >= Const[g] => ~Player(g, j)
  BY Sizes DEF Player, Kinds
<1>21. ASSUME NEW z \in Zones
       PROVE  /\ r.zset[z][k] = LET out == v.zset[z][k] \ {top} IN
                CASE i # top /\ z = v.at[k][top].zone -> out \cup {i}
                  [] i # top /\ z # v.at[k][top].zone -> out \ {i}
                  [] OTHER -> out
              /\ \A g \in Kinds \ {k} : r.zset[z][g] = v.zset[z][g]
  <2>1. v.zset[z] \in [Kinds -> SUBSET Int]
    BY <1>1 DEF Shape
  <2>2. r.zset = ZonesAfter(v, k, i)
    BY <1>5, <1>10
  <2> QED BY <2>1, <2>2 DEF ZonesAfter, top
<1>22. Zoned(r)
  <2>1. ASSUME NEW z \in Zones, NEW g \in Kinds
        PROVE  r.zset[z][g] = {j \in DOMAIN r.at[g] : r.at[g][j].zone = z /\ ~Player(g, j)}
    <3>1. v.zset[z][g] = {j \in DOMAIN v.at[g] : v.at[g][j].zone = z /\ ~Player(g, j)}
      BY <1>1 DEF Zoned
    <3>2. CASE g # k
      <4>1. r.zset[z][g] = v.zset[z][g]
        BY <1>21, <3>2
      <4>2. DOMAIN r.at[g] = DOMAIN v.at[g]
        BY <1>5, <1>10, <3>2
      <4>3. \A j \in DOMAIN r.at[g] : r.at[g][j].zone = v.at[g][j].zone
        BY <1>11, <3>2
      <4> QED BY <3>1, <4>1, <4>2, <4>3
    <3>3. CASE g = k
      <4>1. DOMAIN r.at[k] = 0 .. top - 1 /\ ~Player(k, i) /\ ~Player(k, top)
        BY <1>2, <1>5, <1>10, <1>20
      <4>2. \A j \in DOMAIN r.at[k] :
              r.at[k][j].zone = IF j = i THEN v.at[k][top].zone ELSE v.at[k][j].zone
        BY <1>11
      <4>3. v.zset[z][k] = {j \in 0 .. top : v.at[k][j].zone = z /\ ~Player(k, j)}
        BY <1>2, <3>1, <3>3
      <4>4. CASE i # top /\ z = v.at[k][top].zone
        <5>1. r.zset[z][k] = (v.zset[z][k] \ {top}) \cup {i}
          BY <1>21, <4>4
        <5> QED BY <1>2, <3>3, <4>1, <4>2, <4>3, <4>4, <5>1
      <4>5. CASE i # top /\ z # v.at[k][top].zone
        <5>1. r.zset[z][k] = (v.zset[z][k] \ {top}) \ {i}
          BY <1>21, <4>5
        <5> QED BY <1>2, <3>3, <4>1, <4>2, <4>3, <4>5, <5>1
      <4>6. CASE i = top
        <5>1. r.zset[z][k] = v.zset[z][k] \ {top}
          BY <1>21, <4>6
        <5> QED BY <1>2, <3>3, <4>1, <4>2, <4>3, <4>6, <5>1
      <4> QED BY <4>4, <4>5, <4>6
    <3> QED BY <3>2, <3>3
  <2> QED BY <2>1 DEF Zoned
<1>23. Homes(r, f, c)
  <2>1. ASSUME NEW g \in Kinds, NEW j \in DOMAIN r.at[g], ~r.at[g][j].temp
        PROVE  HomeOK(f, c, g, r.at[g][j].id, r.at[g][j].home)
    <3>1. From(g, j) \in DOMAIN v.at[g] /\ r.at[g][j].id = v.at[g][From(g, j)].id
          /\ r.at[g][j].temp = v.at[g][From(g, j)].temp
          /\ r.at[g][j].home = v.at[g][From(g, j)].home
      BY <1>11
    <3> HIDE DEF From
    <3> QED BY <1>1, <2>1, <3>1 DEF Homes
  <2> QED BY <2>1 DEF Homes
<1>24. World(r, f, c)
  BY <1>10, <1>13, <1>14, <1>15, <1>16, <1>19, <1>22, <1>23 DEF World
<1>25. \A z \in Zones : i # top /\ v.at[k][top].zone = z => i \in r.zset[z][k]
  BY <1>21
<1>26. \A g \in Kinds : DOMAIN r.at[g] = IF g = k THEN 0 .. top - 1 ELSE DOMAIN v.at[g]
  BY <1>5, <1>10
<1>27. Refilled(v, r, k, i)
  <2>1. ASSUME NEW g \in Kinds, NEW j \in DOMAIN r.at[g]
        PROVE  Was(v, k, i, g, j) = From(g, j) /\ \A h : Now(v, k, i, h) = To(h)
    BY DEF Was, Now, top
  <2> HIDE DEF From, To
  <2> QED BY <1>11, <1>26, <2>1 DEF Refilled, top
<1> QED BY <1>0, <1>24, <1>25, <1>27 DEF top

\* What a whole destruction does to the numbers, and to where things are.
Renumbered(w, v, k, i) ==
  /\ \A g \in Kinds : DOMAIN v.at[g] = IF g = k THEN 0 .. Top(w, k) - 1 ELSE DOMAIN w.at[g]
  /\ \A g \in Kinds : \A j \in DOMAIN v.at[g] :
       LET o == Was(w, k, i, g, j) IN
       /\ o \in DOMAIN w.at[g] /\ (g = k => o # i)
       /\ v.at[g][j].id = w.at[g][o].id /\ v.at[g][j].zone = w.at[g][o].zone
       /\ v.at[g][j].temp = w.at[g][o].temp
       /\ v.at[g][j].in = Now(w, k, i, InGap(w, k, i, g, o))

\* Emptied, taken out, forgotten, the gap filled: a whole destruct().
LEMMA DestructedWorld ==
  ASSUME NEW w, NEW f, NEW c, World(w, f, c), c \in Nat,
         NEW k \in Kinds, NEW i \in DOMAIN w.at[k], Const[k] <= i
  PROVE  LET v == Destructed(w, k, i) IN
         /\ World(v, f, c)
         /\ \A z \in Zones :
              i # Top(w, k) /\ w.at[k][Top(w, k)].zone = z => i \in v.zset[z][k]
         /\ Renumbered(w, v, k, i)
<1> DEFINE g == Gap(w, k, i)
           v == Filled(g, k, i)
<1>1. /\ World(g, f, c)
      /\ \A h \in Kinds : /\ DOMAIN g.at[h] = DOMAIN w.at[h]
                         /\ \A j \in DOMAIN w.at[h] :
                              /\ g.at[h][j].in # <<k, i>>
                              /\ g.at[h][j].id = w.at[h][j].id
                              /\ g.at[h][j].zone = w.at[h][j].zone
                              /\ g.at[h][j].temp = w.at[h][j].temp
                              /\ g.at[h][j].in = InGap(w, k, i, h, j)
  BY GapWorld
<1>2. Destructed(w, k, i) = v
  BY DEF Destructed
<1> HIDE DEF g
<1>3. i \in DOMAIN g.at[k]
  BY <1>1
<1>4. /\ World(v, f, c)
      /\ \A z \in Zones :
           i # Top(g, k) /\ g.at[k][Top(g, k)].zone = z => i \in v.zset[z][k]
      /\ Refilled(g, v, k, i)
  <2>1. \A h \in Kinds : \A j \in DOMAIN g.at[h] : g.at[h][j].in # <<k, i>>
    BY <1>1
  <2> QED BY <1>1, <1>3, <2>1, FilledWorld
<1>5. Top(g, k) = Top(w, k) /\ Top(w, k) \in DOMAIN w.at[k]
  <2>1. DOMAIN w.at[k] = 0 .. Top(w, k) /\ Top(w, k) \in Nat
    BY DEF World, Shape
  <2> QED BY <1>1, <2>1 DEF Top
<1> HIDE DEF v
<1>6. g.at[k][Top(w, k)].zone = w.at[k][Top(w, k)].zone
  BY <1>1, <1>5
<1>7. Renumbered(w, v, k, i)
  <2>1. \A h \in Kinds : DOMAIN v.at[h] = IF h = k THEN 0 .. Top(w, k) - 1 ELSE DOMAIN w.at[h]
    BY <1>1, <1>4, <1>5 DEF Refilled
  <2>2. ASSUME NEW h \in Kinds, NEW j \in DOMAIN v.at[h]
        PROVE  LET o == Was(w, k, i, h, j) IN
               /\ o \in DOMAIN w.at[h] /\ (h = k => o # i)
               /\ v.at[h][j].id = w.at[h][o].id /\ v.at[h][j].zone = w.at[h][o].zone
               /\ v.at[h][j].temp = w.at[h][o].temp
               /\ v.at[h][j].in = Now(w, k, i, InGap(w, k, i, h, o))
    <3> DEFINE o == Was(w, k, i, h, j)
    <3>1. /\ o \in DOMAIN g.at[h] /\ (h = k => o # i)
          /\ v.at[h][j].id = g.at[h][o].id /\ v.at[h][j].zone = g.at[h][o].zone
          /\ v.at[h][j].temp = g.at[h][o].temp
          /\ v.at[h][j].in = Now(w, k, i, g.at[h][o].in)
      BY <1>4, <1>5 DEF Refilled, Was, Now
    <3> HIDE DEF o
    <3>2. /\ o \in DOMAIN w.at[h] /\ g.at[h][o].id = w.at[h][o].id
          /\ g.at[h][o].zone = w.at[h][o].zone /\ g.at[h][o].temp = w.at[h][o].temp
          /\ g.at[h][o].in = InGap(w, k, i, h, o)
      BY <1>1, <3>1
    <3> QED BY <3>1, <3>2 DEF o
  <2> QED BY <2>1, <2>2 DEF Renumbered
<1> QED BY <1>2, <1>4, <1>5, <1>6, <1>7

\* The place an ID stands for: find_loc_by_id() and its like give something that may
\* hold what was stored with that home.
LEMMA FoundFits ==
  ASSUME NEW w, NEW f, NEW c, World(w, f, c), c \in Nat, NEW k \in Kinds, NEW n,
         NEW h \in Places, HomeOK(f, c, k, n, h)
  PROVE  LET p == Find(w, h) IN
         p \in Places /\ FitsIn(w, k, p) /\ Above(w, n, p)
<1>1. Shape(w) /\ Permanents(w) /\ Ids(w, f, c) /\ Tabled(w)
  BY DEF World
<1>2. Kinds = {"loc", "mob", "obj"} /\ (\A g \in Kinds : Holders[g] \subseteq Kinds)
      /\ h = <<h[1], h[2]>> /\ h[1] \in Kinds /\ h[2] \in Int
  BY DEF Kinds, Holders, Places
<1>3. ASSUME NEW m \in DOMAIN w.table
      PROVE  m \in Nat /\ m >= IdStart
  BY <1>1, <1>3, Sizes DEF Tabled, Ids
<1>4. Find(w, h) = IF h[2] < IdStart THEN h
                   ELSE IF h[2] \in DOMAIN w.table THEN <<h[1], w.table[h[2]]>> ELSE Limbo
  <2>1. h[2] \in DOMAIN w.table => ~(h[2] < IdStart)
    BY <1>3, Sizes
  <2> QED BY <2>1 DEF Find
<1>5. Limbo \in Places /\ FitsIn(w, k, Limbo) /\ Above(w, n, Limbo) /\ Limbo[2] = -1
  BY DEF Limbo, Places, Kinds, FitsIn, Above
<1>6. CASE h = Limbo
  BY <1>4, <1>5, <1>6, Sizes
<1>7. CASE h # Limbo /\ h[2] \in 0 .. Const[h[1]] - 1
  <2>1. h[1] \in Holders[k] /\ (h[1] = "obj" => n < h[2])
    BY <1>7 DEF HomeOK
  <2>2. h[2] < IdStart /\ Find(w, h) = h
    BY <1>2, <1>4, <1>7, Sizes
  <2>3. h[2] \in DOMAIN w.at[h[1]] /\ w.at[h[1]][h[2]].id = h[2]
    <3>1. DOMAIN w.at[h[1]] = 0 .. Top(w, h[1]) /\ Top(w, h[1]) \in Nat
          /\ Const[h[1]] <= Top(w, h[1]) + 1 /\ Const[h[1]] \in Nat
      BY <1>1, <1>2, Sizes DEF Shape
    <3>2. h[2] \in DOMAIN w.at[h[1]]
      BY <1>7, <3>1
    <3>3. w.at[h[1]][h[2]].id = h[2]
      BY <1>1, <1>2, <1>7 DEF Permanents
    <3> QED BY <3>2, <3>3
  <2> QED BY <2>1, <2>2, <2>3 DEF FitsIn, Above
<1>8. CASE h # Limbo /\ h[2] \notin 0 .. Const[h[1]] - 1
  <2>1. h[1] \in Holders[k] /\ (h[1] = "obj" => n < h[2])
        /\ h[2] \in IdStart .. c - 1 /\ f[h[2]] = h[1]
    BY <1>8 DEF HomeOK
  <2>2. CASE h[2] \in DOMAIN w.table
    <3>1. PICK g \in Kinds : \E j \in DOMAIN w.at[g] : j >= Const[g] /\ h[2] = w.at[g][j].id
      BY <1>1, <2>2 DEF Tabled
    <3>2. PICK j \in DOMAIN w.at[g] : j >= Const[g] /\ h[2] = w.at[g][j].id
      BY <3>1
    <3>3. g = h[1] /\ w.table[h[2]] = j
      BY <1>1, <2>1, <3>2 DEF Ids, Tabled
    <3>4. Find(w, h) = <<h[1], j>>
      BY <1>3, <1>4, <2>1, <2>2, <3>3, Sizes
    <3>5. j \in Int
      BY <1>1 DEF Shape
    <3> QED BY <1>2, <2>1, <3>2, <3>3, <3>4, <3>5 DEF FitsIn, Above, Places
  <2>3. CASE h[2] \notin DOMAIN w.table
    BY <1>4, <1>5, <2>1, <2>3, Sizes
  <2> QED BY <2>2, <2>3
<1> QED BY <1>6, <1>7, <1>8

\* A thing that is reset goes to its home, if that is there and may hold it.
LEMMA ResetWorld ==
  ASSUME NEW w, NEW f, NEW c, World(w, f, c), c \in Nat, NEW k \in Kinds,
         NEW i \in DOMAIN w.at[k], ~w.at[k][i].temp
  PROVE  World(ResetThing(w, k, i), f, c) /\ ResetThing(w, k, i).zset = w.zset
<1>1. CASE k = "loc"
  BY <1>1 DEF ResetThing
<1>2. CASE k # "loc"
  <2> DEFINE p == Find(w, w.at[k][i].home)
             e == [w.at[k][i] EXCEPT !.in = p, !.occ = w.at[k][i].occReset]
  <2>1. w.at[k][i] \in Entries /\ Shape(w) /\ Homes(w, f, c)
    BY DEF World, Shape
  <2>2. w.at[k][i].home \in Places /\ HomeOK(f, c, k, w.at[k][i].id, w.at[k][i].home)
    BY <2>1 DEF Entries, Homes
  <2>3. p \in Places /\ FitsIn(w, k, p) /\ Above(w, w.at[k][i].id, p)
    BY <2>2, FoundFits
  <2>4. ResetThing(w, k, i) = Put(w, k, i, e)
    BY <1>2 DEF ResetThing, Put
  <2> HIDE DEF p
  <2>5. e \in Entries /\ Same(e, w.at[k][i]) /\ e.in = p
    BY <2>1, <2>3 DEF Entries, Same
  <2> HIDE DEF e
  <2>6. World(Put(w, k, i, e), f, c)
    BY <2>3, <2>5, PutWorld
  <2>7. Alike(w, Put(w, k, i, e))
    BY <2>1, <2>5, PutAlike
  <2> QED BY <2>4, <2>6, <2>7 DEF Alike
<1> QED BY <1>1, <1>2

\* The permanents, as bootstrap() loads them.
LEMMA BootedWorld ==
  ASSUME NEW f, NEW c, c \in Nat
  PROVE  World(Booted, f, c)
<1> DEFINE w == Booted
           e(k, i) == [Born(i, 0, Home[k][i], FALSE) EXCEPT !.in = Home[k][i]]
<1>1. /\ w.at = [k \in Kinds |-> [i \in 0 .. Const[k] - 1 |-> e(k, i)]]
      /\ w.table = << >>
      /\ w.zset = [z \in Zones |-> [k \in Kinds |->
                    IF z = 0 THEN {i \in 0 .. Const[k] - 1 : ~Player(k, i)} ELSE {}]]
      /\ w = [at |-> w.at, table |-> w.table, zset |-> w.zset, pretend |-> w.pretend]
  BY DEF Booted
<1>2. \A g \in Kinds : Holders[g] \subseteq Kinds
  BY DEF Kinds, Holders
<1>3. ASSUME NEW k \in Kinds, NEW i \in 0 .. Const[k] - 1
      PROVE  /\ Home[k][i] \in Places
             /\ \/ Home[k][i] = Limbo
                \/ /\ Home[k][i][1] \in Holders[k]
                   /\ Home[k][i][2] \in 0 .. Const[Home[k][i][1]] - 1
                   /\ Home[k][i][1] = "obj" => i < Home[k][i][2]
  <2>1. Limbo \in Places
    BY DEF Limbo, Places, Kinds
  <2>2. \A h \in Kinds : 0 .. Const[h] - 1 \subseteq Int
    BY Sizes
  <2> QED BY <1>2, <2>1, <2>2, HomesAssumption DEF Places
<1>4. ASSUME NEW k \in Kinds, NEW i \in 0 .. Const[k] - 1
      PROVE  /\ e(k, i) \in Entries /\ e(k, i).id = i /\ e(k, i).zone = 0
             /\ e(k, i).home = Home[k][i] /\ e(k, i).in = Home[k][i]
  <2>1. i \in Nat /\ Limbo \in Places /\ 0 \in Zones /\ Home[k][i] \in Places
    BY <1>3, Sizes DEF Limbo, Places, Kinds, Zones
  <2> QED BY <2>1 DEF Born, Entries
<1> HIDE DEF w, e
<1>5. \A k \in Kinds : /\ DOMAIN w.at[k] = 0 .. Const[k] - 1 /\ Top(w, k) = Const[k] - 1
                       /\ \A i \in 0 .. Const[k] - 1 : w.at[k][i] = e(k, i)
  <2>1. ASSUME NEW k \in Kinds
        PROVE  DOMAIN w.at[k] = 0 .. Const[k] - 1 /\ Top(w, k) = Const[k] - 1
    <3>1. Const[k] - 1 \in Int /\ Const[k] - 1 >= -1 /\ DOMAIN w.at[k] = 0 .. Const[k] - 1
      BY <1>1, Sizes
    <3> QED BY <3>1, Counted
  <2> QED BY <1>1, <2>1
<1>e. ASSUME NEW k \in Kinds, NEW i \in DOMAIN w.at[k]
      PROVE  /\ i \in 0 .. Const[k] - 1 /\ w.at[k][i].id = i /\ w.at[k][i].zone = 0
             /\ w.at[k][i].home = Home[k][i] /\ w.at[k][i].in = Home[k][i]
  <2>1. i \in 0 .. Const[k] - 1
    BY <1>5, <1>e
  <2>2. w.at[k][i] = e(k, i)
    BY <1>5, <2>1
  <2>3. /\ e(k, i).id = i /\ e(k, i).zone = 0
        /\ e(k, i).home = Home[k][i] /\ e(k, i).in = Home[k][i]
    BY <1>4, <2>1
  <2> QED BY <2>1, <2>2, <2>3
<1>6. Shape(w)
  <2>1. \A k \in Kinds : /\ Top(w, k) \in Nat /\ Const[k] <= Top(w, k) + 1
                         /\ w.at[k] \in [0 .. Top(w, k) -> Entries]
    BY <1>1, <1>4, <1>5, Sizes
  <2>2. w.zset \in [Zones -> [Kinds -> SUBSET Int]]
    BY <1>1, Sizes
  <2> QED BY <1>1, <2>1, <2>2 DEF Shape
<1>7. Held(w)
  <2>1. \A k \in Kinds : \A i \in 0 .. Const[k] - 1 : FitsIn(w, k, Home[k][i])
    BY <1>2, <1>3, <1>5 DEF FitsIn
  <2> QED BY <1>e, <2>1 DEF Held
<1>8. Upward(w)
  <2>1. "obj" \in Kinds
    BY DEF Kinds
  <2>2. ASSUME NEW i \in 0 .. Const["obj"] - 1
        PROVE  Above(w, i, Home["obj"][i])
    <3>1. SUFFICES ASSUME Home["obj"][i][1] = "obj"
                   PROVE  i < w.at["obj"][Home["obj"][i][2]].id
      BY DEF Above
    <3>2. Home["obj"][i][2] \in 0 .. Const["obj"] - 1 /\ i < Home["obj"][i][2]
      BY <1>3, <2>1, <3>1 DEF Limbo
    <3> QED BY <1>4, <1>5, <2>1, <3>2
  <2> QED BY <1>e, <2>1, <2>2 DEF Upward
<1>9. Permanents(w)
  BY <1>4, <1>5 DEF Permanents
<1>10. Ids(w, f, c)
  BY <1>5, Sizes DEF Ids
<1>11. Tabled(w)
  BY <1>1, <1>5, Sizes DEF Tabled
<1>12. Zoned(w)
  <2>1. ASSUME NEW z \in Zones, NEW k \in Kinds
        PROVE  w.zset[z][k] = {i \in DOMAIN w.at[k] : w.at[k][i].zone = z /\ ~Player(k, i)}
    BY <1>1, <1>4, <1>5
  <2> QED BY <2>1 DEF Zoned
<1>13. Homes(w, f, c)
  <2>1. \A k \in Kinds : \A i \in 0 .. Const[k] - 1 : HomeOK(f, c, k, i, Home[k][i])
    BY <1>3 DEF HomeOK
  <2> QED BY <1>e, <2>1 DEF Homes
<1> QED BY <1>6, <1>7, <1>8, <1>9, <1>10, <1>11, <1>12, <1>13 DEF World, w

\* A home stays one while the counter grows.
LEMMA HomeStays ==
  ASSUME NEW f, NEW g, NEW s \in Nat, NEW c \in Nat, s <= c, NEW k \in Kinds, NEW n,
         NEW h \in Places, HomeOK(f, s, k, n, h), \A m \in Nat : m < s => g[m] = f[m]
  PROVE  HomeOK(g, c, k, n, h)
<1>1. CASE h = Limbo
  BY <1>1 DEF HomeOK
<1>2. CASE h # Limbo /\ h[2] \in 0 .. Const[h[1]] - 1
  BY <1>2 DEF HomeOK
<1>3. CASE h # Limbo /\ h[2] \notin 0 .. Const[h[1]] - 1
  <2>1. h[2] \in IdStart .. s - 1 /\ f[h[2]] = h[1] /\ h[1] \in Holders[k] /\ (h[1] = "obj" => n < h[2])
    BY <1>3 DEF HomeOK
  <2>2. h[2] \in Nat /\ h[2] < s /\ h[2] \in IdStart .. c - 1
    BY <2>1, Sizes
  <2> QED BY <2>1, <2>2 DEF HomeOK
<1> QED BY <1>1, <1>2, <1>3

\* A copy at the end of the array, with the ID that the counter gives: it is the
\* kinds of IDs that are extended, by one that no home has named yet.
LEMMA ClonedWorld ==
  ASSUME NEW f \in [Nat -> Kinds], World(W, f, counter), counter \in Nat, IdStart <= counter,
         NEW k \in Kinds, NEW i \in DOMAIN at[k], NEW z \in Zones, NEW h \in Places,
         FitsIn(W, k, h), h[1] # "obj", Cloned(k, i, z, h)
  PROVE  LET g == [f EXCEPT ![counter] = k] IN
         g \in [Nat -> Kinds] /\ World(W', g, counter') /\ \A m \in Nat : m < counter => g[m] = f[m]
<1> DEFINE g == [f EXCEPT ![counter] = k]
           w == W
           v == W'
           n == Top(w, k) + 1
           e == [at[k][i] EXCEPT !.id = counter, !.temp = TRUE, !.zone = z, !.in = h,
                                 !.occ = at[k][i].occReset]
<1>1. /\ v.at = [at EXCEPT ![k] = [j \in 0 .. n |-> IF j = n THEN e ELSE at[k][j]]]
      /\ v.table = [m \in DOMAIN table \cup {counter} |-> IF m = counter THEN n ELSE table[m]]
      /\ v.zset = [zset EXCEPT ![z][k] = @ \cup {n}]
      /\ v = [at |-> v.at, table |-> v.table, zset |-> v.zset, pretend |-> v.pretend]
      /\ counter' = counter + 1
  BY DEF Cloned, W
<1>2. w.at = at /\ w.table = table /\ w.zset = zset
  BY DEF W
<1>3. /\ g \in [Nat -> Kinds] /\ g[counter] = k
      /\ \A m \in Nat : m < counter => g[m] = f[m]
  OBVIOUS
<1> HIDE DEF g, w, v
<1>4. /\ Shape(w) /\ Held(w) /\ Upward(w) /\ Permanents(w) /\ Ids(w, f, counter) /\ Tabled(w)
      /\ Zoned(w) /\ Homes(w, f, counter)
  BY DEF World, w
<1>5. /\ n \in Nat /\ DOMAIN w.at[k] = 0 .. n - 1 /\ Const[k] <= n /\ Const[k] \in Nat \ {0}
      /\ w.at[k][i] \in Entries /\ w.at = [l \in Kinds |-> w.at[l]]
      /\ w.at[k] \in [0 .. n - 1 -> Entries]
  <2>1. /\ Top(w, k) \in Nat /\ Const[k] <= Top(w, k) + 1
        /\ w.at[k] \in [0 .. Top(w, k) -> Entries] /\ w.at = [l \in Kinds |-> w.at[l]]
    BY <1>4 DEF Shape
  <2>2. n - 1 = Top(w, k)
    BY <2>1 DEF w
  <2>3. w.at[k] \in [0 .. n - 1 -> Entries]
    BY <2>1, <2>2
  <2>4. Const[k] <= n /\ n \in Nat
    BY <2>1 DEF w
  <2> HIDE DEF n
  <2> QED BY <1>2, <2>1, <2>3, <2>4, Sizes
<1> HIDE DEF n
<1>7. /\ e \in Entries /\ e.id = counter /\ e.temp = TRUE /\ e.zone = z /\ e.in = h
  BY <1>2, <1>5 DEF Entries
<1> HIDE DEF e
<1>8. /\ \A l \in Kinds : DOMAIN v.at[l] = IF l = k THEN 0 .. n ELSE DOMAIN w.at[l]
      /\ \A l \in Kinds : \A j \in DOMAIN w.at[l] : v.at[l][j] = w.at[l][j]
      /\ v.at[k][n] = e /\ v.at[k] \in [0 .. n -> Entries]
      /\ v.at = [l \in Kinds |-> v.at[l]]
      /\ \A l \in Kinds \ {k} : v.at[l] = w.at[l]
  <2>1. v.at = [w.at EXCEPT ![k] = [j \in 0 .. n |-> IF j = n THEN e ELSE w.at[k][j]]]
    BY <1>1, <1>2
  <2>2. \A j \in 0 .. n : j # n => j \in DOMAIN w.at[k] /\ w.at[k][j] \in Entries
    <3>1. \A j \in 0 .. n : j # n => j \in 0 .. n - 1
      BY <1>5
    <3> QED BY <1>5, <3>1
  <2>3. v.at[k] = [j \in 0 .. n |-> IF j = n THEN e ELSE w.at[k][j]]
        /\ \A l \in Kinds \ {k} : v.at[l] = w.at[l]
    BY <1>5, <2>1
  <2>4. v.at = [l \in Kinds |-> v.at[l]]
    BY <1>5, <2>1
  <2>5. \A j \in 0 .. n - 1 : j # n /\ j \in 0 .. n
    BY <1>5
  <2>6. DOMAIN v.at[k] = 0 .. n /\ v.at[k][n] = e /\ v.at[k] \in [0 .. n -> Entries]
    BY <1>5, <1>7, <2>2, <2>3
  <2>7. \A j \in DOMAIN w.at[k] : v.at[k][j] = w.at[k][j]
    BY <1>5, <2>3, <2>5
  <2> QED BY <2>3, <2>4, <2>6, <2>7
<1>9. ASSUME NEW l \in Kinds, NEW j \in DOMAIN v.at[l], ~(l = k /\ j = n)
      PROVE  j \in DOMAIN w.at[l] /\ v.at[l][j] = w.at[l][j]
  BY <1>5, <1>8, <1>9
<1>10. \A l \in Kinds : Top(v, l) = IF l = k THEN n ELSE Top(w, l)
  <2>1. n \in Int /\ n >= -1 /\ DOMAIN v.at[k] = 0 .. n
    BY <1>5, <1>8
  <2>2. Top(v, k) = n
    BY <2>1, Counted
  <2> QED BY <1>8, <2>2 DEF Top
<1>11. v.zset \in [Zones -> [Kinds -> SUBSET Int]]
       /\ \A y \in Zones, l \in Kinds :
            v.zset[y][l] = IF y = z /\ l = k THEN w.zset[y][l] \cup {n} ELSE w.zset[y][l]
  <2>1. w.zset \in [Zones -> [Kinds -> SUBSET Int]] /\ n \in Int
    BY <1>4, <1>5 DEF Shape
  <2>2. v.zset = [w.zset EXCEPT ![z] = [w.zset[z] EXCEPT ![k] = w.zset[z][k] \cup {n}]]
    BY <1>1, <1>2
  <2>3. w.zset[z] \in [Kinds -> SUBSET Int] /\ w.zset[z][k] \cup {n} \in SUBSET Int
    BY <2>1
  <2>4. [w.zset[z] EXCEPT ![k] = w.zset[z][k] \cup {n}] \in [Kinds -> SUBSET Int]
    BY <2>3
  <2>5. \A y \in Zones : v.zset[y] = IF y = z THEN [w.zset[z] EXCEPT ![k] = w.zset[z][k] \cup {n}]
                                     ELSE w.zset[y]
    BY <2>1, <2>2
  <2>6. v.zset \in [Zones -> [Kinds -> SUBSET Int]]
    BY <2>1, <2>2, <2>4
  <2>7. ASSUME NEW y \in Zones, NEW l \in Kinds
        PROVE  v.zset[y][l] = IF y = z /\ l = k THEN w.zset[y][l] \cup {n} ELSE w.zset[y][l]
    BY <2>3, <2>5
  <2> QED BY <2>6, <2>7
<1>12. Shape(v)
  <2>1. \A l \in Kinds : /\ Top(v, l) \in Nat /\ Const[l] <= Top(v, l) + 1
                         /\ v.at[l] \in [0 .. Top(v, l) -> Entries]
    <3>1. ASSUME NEW l \in Kinds, l # k
          PROVE  /\ Top(v, l) \in Nat /\ Const[l] <= Top(v, l) + 1
                 /\ v.at[l] \in [0 .. Top(v, l) -> Entries]
      <4>1. Top(v, l) = Top(w, l) /\ v.at[l] = w.at[l]
        BY <1>8, <1>10, <3>1
      <4> QED BY <1>4, <4>1 DEF Shape
    <3>2. /\ Top(v, k) \in Nat /\ Const[k] <= Top(v, k) + 1
          /\ v.at[k] \in [0 .. Top(v, k) -> Entries]
      BY <1>5, <1>8, <1>10
    <3> QED BY <3>1, <3>2
  <2> QED BY <1>1, <1>8, <1>11, <2>1 DEF Shape
<1>13. \A l \in Kinds : \A p : FitsIn(w, l, p) => FitsIn(v, l, p)
  <2>1. \A l \in Kinds : Holders[l] \subseteq Kinds
    BY DEF Kinds, Holders
  <2>2. \A l \in Kinds : DOMAIN w.at[l] \subseteq DOMAIN v.at[l]
    BY <1>5, <1>8
  <2> QED BY <2>1, <2>2 DEF FitsIn
<1>14. Held(v)
  <2>1. ASSUME NEW l \in Kinds, NEW j \in DOMAIN v.at[l]
        PROVE  FitsIn(v, l, v.at[l][j].in)
    <3>1. CASE l = k /\ j = n
      BY <1>7, <1>8, <1>13, <3>1 DEF w
    <3>2. CASE ~(l = k /\ j = n)
      BY <1>4, <1>9, <1>13, <3>2 DEF Held
    <3> QED BY <3>1, <3>2
  <2> QED BY <2>1 DEF Held
<1>15. Upward(v)
  <2>1. "obj" \in Kinds
    BY DEF Kinds
  <2>2. ASSUME NEW j \in DOMAIN v.at["obj"]
        PROVE  Above(v, v.at["obj"][j].id, v.at["obj"][j].in)
    <3>1. CASE "obj" = k /\ j = n
      BY <1>7, <1>8, <3>1 DEF Above
    <3>2. CASE ~("obj" = k /\ j = n)
      <4>1. j \in DOMAIN w.at["obj"] /\ v.at["obj"][j] = w.at["obj"][j]
        BY <1>9, <2>1, <3>2
      <4> DEFINE p == w.at["obj"][j].in
      <4>2. Above(w, w.at["obj"][j].id, p) /\ FitsIn(w, "obj", p)
        BY <1>4, <2>1, <4>1 DEF Upward, Held
      <4>3. p[1] = "obj" => p[2] \in DOMAIN w.at["obj"] /\ v.at["obj"][p[2]] = w.at["obj"][p[2]]
        BY <1>8, <2>1, <4>2 DEF FitsIn, Limbo
      <4> QED BY <4>1, <4>2, <4>3 DEF Above
    <3> QED BY <3>1, <3>2
  <2> QED BY <2>2 DEF Upward
<1>16. Permanents(v)
  <2>1. ASSUME NEW l \in Kinds, NEW j \in 0 .. Const[l] - 1
        PROVE  v.at[l][j].id = j /\ v.at[l][j].zone = 0
    <3>1. j \in DOMAIN w.at[l]
      <4>1. DOMAIN w.at[l] = 0 .. Top(w, l) /\ Const[l] <= Top(w, l) + 1 /\ Top(w, l) \in Nat
        BY <1>4 DEF Shape
      <4> QED BY <4>1, Sizes
    <3> QED BY <1>4, <1>8, <3>1 DEF Permanents
  <2> QED BY <2>1 DEF Permanents
<1>17. Ids(v, g, counter + 1)
  <2>1. ASSUME NEW l \in Kinds, NEW j \in DOMAIN v.at[l], j >= Const[l]
        PROVE  v.at[l][j].id \in IdStart .. (counter + 1) - 1 /\ g[v.at[l][j].id] = l
    <3>1. CASE l = k /\ j = n
      BY <1>3, <1>7, <1>8, <3>1, Sizes
    <3>2. CASE ~(l = k /\ j = n)
      <4>1. w.at[l][j].id \in IdStart .. counter - 1 /\ f[w.at[l][j].id] = l
        BY <1>4, <1>9, <2>1, <3>2 DEF Ids
      <4>2. w.at[l][j].id \in Nat /\ w.at[l][j].id < counter /\ w.at[l][j].id \in IdStart .. (counter + 1) - 1
        BY <4>1, Sizes
      <4> QED BY <1>3, <1>9, <3>2, <4>1, <4>2
    <3> QED BY <3>1, <3>2
  <2> QED BY <2>1 DEF Ids
<1>18. Tabled(v)
  <2>1. ASSUME NEW m \in DOMAIN v.table
        PROVE  \E l \in Kinds : \E j \in DOMAIN v.at[l] : j >= Const[l] /\ m = v.at[l][j].id
    <3>1. CASE m = counter
      <4>1. n \in DOMAIN v.at[k] /\ n >= Const[k] /\ m = v.at[k][n].id
        BY <1>5, <1>7, <1>8, <3>1
      <4> QED BY <4>1
    <3>2. CASE m # counter
      <4>1. m \in DOMAIN w.table
        BY <1>1, <1>2, <3>2
      <4>2. PICK l \in Kinds : \E j \in DOMAIN w.at[l] : j >= Const[l] /\ m = w.at[l][j].id
        BY <1>4, <4>1 DEF Tabled
      <4>3. PICK j \in DOMAIN w.at[l] : j >= Const[l] /\ m = w.at[l][j].id
        BY <4>2
      <4>4. j \in DOMAIN v.at[l] /\ m = v.at[l][j].id
        BY <1>5, <1>8, <4>3
      <4> QED BY <4>3, <4>4
    <3> QED BY <3>1, <3>2
  <2>2. ASSUME NEW l \in Kinds, NEW j \in DOMAIN v.at[l], j >= Const[l]
        PROVE  v.at[l][j].id \in DOMAIN v.table /\ v.table[v.at[l][j].id] = j
    <3>1. CASE l = k /\ j = n
      BY <1>1, <1>7, <1>8, <3>1
    <3>2. CASE ~(l = k /\ j = n)
      <4>1. /\ w.at[l][j].id \in IdStart .. counter - 1 /\ w.at[l][j].id \in DOMAIN w.table
            /\ w.table[w.at[l][j].id] = j /\ v.at[l][j].id = w.at[l][j].id
        BY <1>4, <1>9, <2>2, <3>2 DEF Ids, Tabled
      <4>2. w.at[l][j].id # counter
        BY <4>1, Sizes
      <4> QED BY <1>1, <1>2, <4>1, <4>2
    <3> QED BY <3>1, <3>2
  <2> QED BY <2>1, <2>2 DEF Tabled
<1>19. Zoned(v)
  <2>1. ~Player(k, n)
    BY <1>5, Sizes DEF Player
  <2>2. ASSUME NEW y \in Zones, NEW l \in Kinds
        PROVE  v.zset[y][l] = {j \in DOMAIN v.at[l] : v.at[l][j].zone = y /\ ~Player(l, j)}
    <3>1. w.zset[y][l] = {j \in DOMAIN w.at[l] : w.at[l][j].zone = y /\ ~Player(l, j)}
      BY <1>4 DEF Zoned
    <3>2. CASE l # k
      <4>1. v.at[l] = w.at[l] /\ v.zset[y][l] = w.zset[y][l]
        BY <1>8, <1>11, <3>2
      <4> QED BY <3>1, <4>1
    <3>3. CASE l = k
      <4>1. DOMAIN v.at[k] = DOMAIN w.at[k] \cup {n} /\ n \notin DOMAIN w.at[k]
        BY <1>5, <1>8
      <4>2. \A j \in DOMAIN w.at[k] : v.at[k][j].zone = w.at[k][j].zone
        BY <1>8
      <4>3. v.at[k][n].zone = z
        BY <1>7, <1>8
      <4>4. v.zset[y][k] = IF y = z THEN w.zset[y][k] \cup {n} ELSE w.zset[y][k]
        BY <1>11
      <4> QED BY <2>1, <3>1, <3>3, <4>1, <4>2, <4>3, <4>4
    <3> QED BY <3>2, <3>3
  <2> QED BY <2>2 DEF Zoned
<1>20. Homes(v, g, counter + 1)
  <2>1. ASSUME NEW l \in Kinds, NEW j \in DOMAIN v.at[l], ~v.at[l][j].temp
        PROVE  HomeOK(g, counter + 1, l, v.at[l][j].id, v.at[l][j].home)
    <3>1. ~(l = k /\ j = n)
      BY <1>7, <1>8, <2>1
    <3>2. j \in DOMAIN w.at[l] /\ v.at[l][j] = w.at[l][j]
      BY <1>9, <3>1
    <3>3. HomeOK(f, counter, l, w.at[l][j].id, w.at[l][j].home) /\ w.at[l][j] \in Entries
      BY <1>4, <2>1, <3>2 DEF Homes, Shape
    <3>4. w.at[l][j].home \in Places
      BY <3>3 DEF Entries
    <3>5. counter + 1 \in Nat /\ counter <= counter + 1
      OBVIOUS
    <3> DEFINE id == w.at[l][j].id
               hm == w.at[l][j].home
    <3>6. hm \in Places /\ HomeOK(f, counter, l, id, hm)
      BY <3>3, <3>4
    <3> HIDE DEF id, hm
    <3>7. HomeOK(g, counter + 1, l, id, hm)
      BY <1>3, <3>5, <3>6, HomeStays
    <3> QED BY <3>2, <3>7 DEF id, hm
  <2> QED BY <2>1 DEF Homes
<1>21. World(v, g, counter')
  BY <1>1, <1>12, <1>14, <1>15, <1>16, <1>17, <1>18, <1>19, <1>20 DEF World
<1> QED BY <1>3, <1>21 DEF g, v

\* What is stored as the home of something.
LEMMA NamedHome ==
  ASSUME NEW w, NEW f, NEW c, World(w, f, c), c \in Nat, NEW k \in Kinds, NEW i \in DOMAIN w.at[k]
  PROVE  LET h == Name(w, w.at[k][i].in) IN
         h \in Places /\ HomeOK(f, c, k, w.at[k][i].id, h)
<1> DEFINE p == w.at[k][i].in
           h == Name(w, p)
<1>1. Shape(w) /\ Held(w) /\ Upward(w) /\ Permanents(w) /\ Ids(w, f, c)
  BY DEF World
<1>2. w.at[k][i] \in Entries
  BY <1>1 DEF Shape
<1>3. p \in Places /\ FitsIn(w, k, p)
  BY <1>1, <1>2 DEF Entries, Held
<1> HIDE DEF p
<1>4. CASE p = Limbo
  <2>1. h = Limbo
    BY <1>4 DEF Name
  <2>2. Limbo \in Places
    BY DEF Limbo, Places, Kinds
  <2>3. h \in Places /\ HomeOK(f, c, k, w.at[k][i].id, h)
    BY <2>1, <2>2 DEF HomeOK
  <2> QED BY <2>3 DEF p
<1>5. CASE p # Limbo
  <2>1. p[1] \in Holders[k] /\ p[1] \in Kinds /\ p[2] \in DOMAIN w.at[p[1]]
    BY <1>3, <1>5 DEF FitsIn, Places
  <2>2. h = <<p[1], w.at[p[1]][p[2]].id>>
    BY <1>5 DEF Name, Entry
  <2>3. w.at[p[1]][p[2]] \in Entries
    BY <1>1, <2>1 DEF Shape
  <2> DEFINE m == w.at[p[1]][p[2]].id
  <2>4. m \in Nat /\ h = <<p[1], m>> /\ h[1] = p[1] /\ h[2] = m
    BY <2>2, <2>3 DEF Entries
  <2>5. p[2] \in Nat
    BY <1>1, <2>1 DEF Shape
  <2>6. m \in 0 .. Const[p[1]] - 1 \/ (m \in IdStart .. c - 1 /\ f[m] = p[1])
    <3>1. CASE p[2] < Const[p[1]]
      <4>1. p[2] \in 0 .. Const[p[1]] - 1
        BY <2>1, <2>5, <3>1, Sizes
      <4> QED BY <1>1, <2>1, <4>1 DEF Permanents
    <3>2. CASE ~(p[2] < Const[p[1]])
      <4>1. p[2] >= Const[p[1]]
        BY <2>1, <2>5, <3>2, Sizes
      <4> QED BY <1>1, <2>1, <4>1 DEF Ids
    <3> QED BY <3>1, <3>2
  <2> HIDE DEF m
  <2>7. p[1] = "obj" => w.at[k][i].id < m
    <3>1. p[1] = "obj" => k = "obj"
      BY <2>1 DEF Holders, Kinds
    <3> QED BY <1>1, <3>1 DEF Upward, Above, p, m
  <2>8. h \in Places
    BY <2>1, <2>4 DEF Places
  <2> HIDE DEF h
  <2> QED BY <2>1, <2>4, <2>6, <2>7, <2>8 DEF HomeOK, h, p
<1> QED BY <1>4, <1>5 DEF p

\* What STORE writes about one kind.
LEMMA WrittenOK ==
  ASSUME NEW f, World(W, f, counter), counter \in Nat, NEW k \in Kinds
  PROVE  /\ IsFiniteSet(Written(k))
         /\ \A r \in Written(k) : /\ r.home \in Places /\ r.occ \in BOOLEAN
                                 /\ r.id \in IdStart .. counter - 1 /\ f[r.id] = k
                                 /\ HomeOK(f, counter, k, r.id, r.home)
         /\ \A r, q \in Written(k) : r.id = q.id => r = q
<1> DEFINE S == zset[1][k]
           rec(i) == [id |-> at[k][i].id, home |-> Name(W, at[k][i].in), occ |-> at[k][i].occ]
<1>0. W.at = at /\ W.zset = zset /\ W.table = table
  BY DEF W
<1>1. Shape(W) /\ Permanents(W) /\ Ids(W, f, counter) /\ Tabled(W) /\ Zoned(W)
  BY DEF World
<1>2. DOMAIN at[k] = 0 .. Top(W, k) /\ Top(W, k) \in Nat
  BY <1>0, <1>1 DEF Shape
<1>3. \A i \in S : i \in DOMAIN at[k] /\ at[k][i].zone = 1
  BY <1>0, <1>1 DEF Zoned, Zones
<1>4. \A i \in S : i >= Const[k]
  <2>1. \A i \in 0 .. Const[k] - 1 : at[k][i].zone = 0
    BY <1>0, <1>1 DEF Permanents
  <2>2. Const[k] \in Nat
    BY Sizes
  <2> QED BY <1>2, <1>3, <2>1, <2>2
<1>5. IsFiniteSet(S)
  <2>1. IsFiniteSet(0 .. Top(W, k))
    BY <1>2, FS_Interval
  <2>2. S \in SUBSET (0 .. Top(W, k))
    BY <1>2, <1>3
  <2> QED BY <2>1, <2>2, FS_Subset
<1>6. Written(k) = {rec(i) : i \in S}
  BY DEF Written
<1>7. IsFiniteSet(Written(k))
  <2> DEFINE F == [i \in S |-> rec(i)]
  <2> HIDE DEF S, rec
  <2>1. F \in Surjection(S, Written(k))
    BY <1>6 DEF Surjection
  <2> QED BY <1>5, <2>1, FS_Surjection
<1>8. ASSUME NEW i \in S
      PROVE  /\ rec(i).home \in Places /\ rec(i).occ \in BOOLEAN
             /\ rec(i).id \in IdStart .. counter - 1 /\ f[rec(i).id] = k
             /\ HomeOK(f, counter, k, rec(i).id, rec(i).home)
             /\ rec(i).id = at[k][i].id /\ table[at[k][i].id] = i
  <2>1. i \in DOMAIN at[k] /\ i >= Const[k]
    BY <1>3, <1>4
  <2>2. /\ at[k][i].id \in IdStart .. counter - 1 /\ f[at[k][i].id] = k
        /\ table[at[k][i].id] = i
    BY <1>0, <1>1, <2>1 DEF Ids, Tabled
  <2>3. Name(W, at[k][i].in) \in Places /\ HomeOK(f, counter, k, at[k][i].id, Name(W, at[k][i].in))
    BY <1>0, <2>1, NamedHome
  <2>4. at[k][i].occ \in BOOLEAN
    BY <1>0, <1>1, <2>1 DEF Shape, Entries
  <2> QED BY <2>2, <2>3, <2>4
<1> HIDE DEF S
<1>9. \A i, j \in S : rec(i).id = rec(j).id => i = j
  BY <1>8
<1> HIDE DEF rec
<1> QED BY <1>6, <1>7, <1>8, <1>9

\* STORE makes what is in the zone permanent, with its place as its home.
LEMMA StoredWorld ==
  ASSUME NEW f, World(W, f, counter), counter \in Nat, Store
  PROVE  World(W', f, counter)
<1> DEFINE w == W
           v == W'
           e(k, i) == StoredEntry(<<k, i>>)
           h(k, i) == Name(w, w.at[k][i].in)
<1>1. /\ v.at = [k \in Kinds |-> [i \in DOMAIN at[k] |->
                  IF i \in zset[1][k] THEN e(k, i) ELSE at[k][i]]]
      /\ v.table = table /\ v.zset = zset
      /\ v = [at |-> v.at, table |-> v.table, zset |-> v.zset, pretend |-> v.pretend]
      /\ w.at = at /\ w.table = table /\ w.zset = zset
  BY DEF Store, W
<1>2. \A k \in Kinds : \A i \in DOMAIN at[k] :
        e(k, i) = [w.at[k][i] EXCEPT !.temp = FALSE, !.home = h(k, i),
                             !.occReset = w.at[k][i].occ]
  BY DEF StoredEntry, Entry, W
<1> HIDE DEF w, v, e
<1>3. /\ World(w, f, counter) /\ Shape(w) /\ Held(w) /\ Upward(w) /\ Permanents(w)
      /\ Ids(w, f, counter) /\ Tabled(w) /\ Zoned(w) /\ Homes(w, f, counter)
  BY DEF World, w
<1>4. ASSUME NEW k \in Kinds, NEW i \in DOMAIN w.at[k]
      PROVE  h(k, i) \in Places /\ HomeOK(f, counter, k, w.at[k][i].id, h(k, i))
  BY <1>3, NamedHome
<1> HIDE DEF h
<1>5. ASSUME NEW k \in Kinds, NEW i \in DOMAIN w.at[k]
      PROVE  /\ v.at[k][i] \in Entries
             /\ v.at[k][i].id = w.at[k][i].id /\ v.at[k][i].in = w.at[k][i].in
             /\ v.at[k][i].zone = w.at[k][i].zone
             /\ ~v.at[k][i].temp => HomeOK(f, counter, k, v.at[k][i].id, v.at[k][i].home)
  <2>1. w.at[k][i] \in Entries /\ (~w.at[k][i].temp => HomeOK(f, counter, k, w.at[k][i].id, w.at[k][i].home))
    BY <1>3 DEF Shape, Homes
  <2>2. CASE i \in zset[1][k]
    <3>1. v.at[k][i] = [w.at[k][i] EXCEPT !.temp = FALSE, !.home = h(k, i),
                             !.occReset = w.at[k][i].occ]
      <4>1. v.at[k][i] = e(k, i)
        BY <1>1, <2>2
      <4>2. i \in DOMAIN at[k]
        BY <1>1
      <4> QED BY <1>2, <4>1, <4>2
    <3>2. v.at[k][i].home = h(k, i) /\ v.at[k][i].id = w.at[k][i].id
      BY <2>1, <3>1 DEF Entries
    <3> QED BY <1>4, <2>1, <3>1, <3>2 DEF Entries
  <2>3. CASE i \notin zset[1][k]
    BY <1>1, <2>1, <2>3
  <2> QED BY <2>2, <2>3
<1>6. \A k \in Kinds : DOMAIN v.at[k] = DOMAIN w.at[k] /\ Top(v, k) = Top(w, k)
  BY <1>1 DEF Top
<1>7. Shape(v)
  <2>1. \A k \in Kinds : v.at[k] \in [0 .. Top(w, k) -> Entries]
    BY <1>1, <1>3, <1>5 DEF Shape
  <2>2. v.at = [k \in Kinds |-> v.at[k]]
    BY <1>1
  <2> QED BY <1>1, <1>3, <1>6, <2>1, <2>2 DEF Shape
<1>8. Held(v)
  <2>1. \A k \in Kinds : Holders[k] \subseteq Kinds
    BY DEF Kinds, Holders
  <2>2. \A k \in Kinds : \A p : FitsIn(w, k, p) => FitsIn(v, k, p)
    BY <1>6, <2>1 DEF FitsIn
  <2>3. ASSUME NEW k \in Kinds, NEW i \in DOMAIN w.at[k]
        PROVE  FitsIn(w, k, v.at[k][i].in)
    BY <1>3, <1>5 DEF Held
  <2> QED BY <1>6, <2>2, <2>3 DEF Held
<1>9. Upward(v)
  <2>1. "obj" \in Kinds
    BY DEF Kinds
  <2>2. ASSUME NEW i \in DOMAIN w.at["obj"]
        PROVE  Above(v, v.at["obj"][i].id, v.at["obj"][i].in)
    <3> DEFINE p == w.at["obj"][i].in
    <3>1. Above(w, w.at["obj"][i].id, p) /\ FitsIn(w, "obj", p)
      BY <1>3, <2>1 DEF Upward, Held
    <3>2. p[1] = "obj" => p[2] \in DOMAIN w.at["obj"]
      BY <3>1 DEF FitsIn, Limbo
    <3>3. v.at["obj"][i].in = p /\ v.at["obj"][i].id = w.at["obj"][i].id
      BY <1>5, <2>1
    <3> HIDE DEF p
    <3> QED BY <1>5, <2>1, <3>1, <3>2, <3>3 DEF Above
  <2> QED BY <1>6, <2>1, <2>2 DEF Upward
<1>10. Permanents(v)
  <2>1. ASSUME NEW k \in Kinds, NEW i \in 0 .. Const[k] - 1
        PROVE  v.at[k][i].id = i /\ v.at[k][i].zone = 0
    <3>1. i \in DOMAIN w.at[k]
      <4>1. DOMAIN w.at[k] = 0 .. Top(w, k) /\ Const[k] <= Top(w, k) + 1 /\ Top(w, k) \in Nat
        BY <1>3 DEF Shape
      <4> QED BY <4>1, Sizes
    <3> QED BY <1>3, <1>5, <3>1 DEF Permanents
  <2> QED BY <2>1 DEF Permanents
<1>11. Ids(v, f, counter)
  BY <1>3, <1>5, <1>6 DEF Ids
<1>s. v.table = w.table /\ v.zset = w.zset
  BY <1>1
<1>12. Tabled(v)
  <2>1. /\ \A n \in DOMAIN w.table :
             \E k \in Kinds : \E i \in DOMAIN w.at[k] : i >= Const[k] /\ n = w.at[k][i].id
        /\ \A k \in Kinds : \A i \in DOMAIN w.at[k] :
             i >= Const[k] => w.at[k][i].id \in DOMAIN w.table /\ w.table[w.at[k][i].id] = i
    BY <1>3 DEF Tabled
  <2>2. \A k \in Kinds : DOMAIN v.at[k] = DOMAIN w.at[k]
                        /\ \A i \in DOMAIN w.at[k] : v.at[k][i].id = w.at[k][i].id
    BY <1>5, <1>6
  <2> QED BY <1>s, <2>1, <2>2 DEF Tabled
<1>13. Zoned(v)
  <2>1. ASSUME NEW z \in Zones, NEW k \in Kinds
        PROVE  v.zset[z][k] = {i \in DOMAIN v.at[k] : v.at[k][i].zone = z /\ ~Player(k, i)}
    <3>1. w.zset[z][k] = {i \in DOMAIN w.at[k] : w.at[k][i].zone = z /\ ~Player(k, i)}
      BY <1>3 DEF Zoned
    <3>2. \A i \in DOMAIN w.at[k] : v.at[k][i].zone = w.at[k][i].zone
      BY <1>5
    <3>3. DOMAIN v.at[k] = DOMAIN w.at[k]
      BY <1>6
    <3> QED BY <1>s, <3>1, <3>2, <3>3
  <2> QED BY <2>1 DEF Zoned
<1>14. Homes(v, f, counter)
  BY <1>5, <1>6 DEF Homes
<1> QED BY <1>7, <1>8, <1>9, <1>10, <1>11, <1>12, <1>13, <1>14 DEF World, v

\* Each order of a set names every element once.
LEMMA Ordered ==
  ASSUME NEW S, IsFiniteSet(S), NEW s \in SetToSeqs(S)
  PROVE  /\ Len(s) \in Nat /\ s \in [1 .. Len(s) -> S]
         /\ \A i, j \in 1 .. Len(s) : s[i] = s[j] => i = j
         /\ \A x \in S : \E i \in 1 .. Len(s) : s[i] = x
<1> DEFINE n == Cardinality(S)
<1>1. n \in Nat
  BY FS_CardinalityType
<1>2. s \in [1 .. n -> S] /\ \A i, j \in 1 .. n : i # j => s[i] # s[j]
  BY DEF SetToSeqs
<1>3. IsFiniteSet(1 .. n) /\ Cardinality(1 .. n) = n
  BY <1>1, FS_Interval
<1>4. s \in Injection(1 .. n, S)
  BY <1>2 DEF Injection, IsInjective
<1>5. s \in Surjection(1 .. n, S)
  BY <1>3, <1>4, FS_Injection
<1>6. \A x \in S : \E i \in 1 .. n : s[i] = x
  BY <1>5 DEF Surjection
<1> HIDE DEF n
<1>7. Len(s) = n
  BY <1>1, <1>2
<1> QED BY <1>1, <1>2, <1>6, <1>7

\* What the files have and the game has not is added, in any order of its kind.
LEMMA LoadedWorld ==
  ASSUME NEW f, World(W, f, counter), counter \in Nat, saved \in Nat, saved <= counter,
         Disk(disk, f, saved), Load
  PROVE  World(W', f, counter)
<1>1. PICK ls \in SetToSeqs(New("loc")), ms \in SetToSeqs(New("mob")), os \in SetToSeqs(New("obj")) :
        LET new == [loc |-> ls, mob |-> ms, obj |-> os]
            top(k) == Top(W, k)
            added(k) == top(k) + 1 .. top(k) + Len(new[k])
            rec(k, i) == new[k][i - top(k)]
        IN /\ at' = [k \in Kinds |-> [i \in DOMAIN at[k] \cup added(k) |->
                       IF i \in added(k)
                       THEN Born(rec(k, i).id, 1, rec(k, i).home, rec(k, i).occ)
                       ELSE at[k][i]]]
           /\ table' = [n \in DOMAIN table \cup {r.id : r \in UNION {New(k) : k \in Kinds}} |->
                          IF n \in DOMAIN table THEN table[n]
                          ELSE CHOOSE i \in UNION {added(k) : k \in Kinds} :
                                 \E k \in Kinds : i \in added(k) /\ rec(k, i).id = n]
           /\ zset' = [zset EXCEPT ![1] = [k \in Kinds |-> @[k] \cup added(k)]]
  BY DEF Load
<1> DEFINE w == W
           v == W'
           new == [loc |-> ls, mob |-> ms, obj |-> os]
           top(k) == Top(w, k)
           added(k) == top(k) + 1 .. top(k) + Len(new[k])
           rec(k, i) == new[k][i - top(k)]
           e(k, i) == Born(rec(k, i).id, 1, rec(k, i).home, rec(k, i).occ)
           ids == {r.id : r \in UNION {New(k) : k \in Kinds}}
           num(n) == CHOOSE i \in UNION {added(k) : k \in Kinds} :
                       \E k \in Kinds : i \in added(k) /\ rec(k, i).id = n
<1>2. /\ v.at = [k \in Kinds |-> [i \in DOMAIN at[k] \cup added(k) |->
                  IF i \in added(k) THEN e(k, i) ELSE at[k][i]]]
      /\ v.table = [n \in DOMAIN table \cup ids |-> IF n \in DOMAIN table THEN table[n] ELSE num(n)]
      /\ v.zset = [zset EXCEPT ![1] = [k \in Kinds |-> zset[1][k] \cup added(k)]]
      /\ v = [at |-> v.at, table |-> v.table, zset |-> v.zset, pretend |-> v.pretend]
      /\ w.at = at /\ w.table = table /\ w.zset = zset
  BY <1>1 DEF W
<1>3. \A k \in Kinds : new[k] \in SetToSeqs(New(k))
  BY <1>1 DEF Kinds
<1> HIDE DEF w, v, new, e, ids, num
<1>4. /\ World(w, f, counter) /\ Shape(w) /\ Held(w) /\ Upward(w) /\ Permanents(w)
      /\ Ids(w, f, counter) /\ Tabled(w) /\ Zoned(w) /\ Homes(w, f, counter)
  BY DEF World, w
<1>5. ASSUME NEW k \in Kinds
      PROVE  /\ New(k) \subseteq disk[k] /\ IsFiniteSet(New(k))
             /\ \A r \in New(k) : r.id \notin DOMAIN table
  <2>1. New(k) \in SUBSET disk[k] /\ \A r \in New(k) : r.id \notin DOMAIN table
    BY DEF New
  <2>2. IsFiniteSet(disk[k])
    BY DEF Disk
  <2> QED BY <2>1, <2>2, FS_Subset
<1>6. ASSUME NEW k \in Kinds
      PROVE  /\ Len(new[k]) \in Nat /\ new[k] \in [1 .. Len(new[k]) -> New(k)]
             /\ \A i, j \in 1 .. Len(new[k]) : new[k][i] = new[k][j] => i = j
             /\ \A x \in New(k) : \E i \in 1 .. Len(new[k]) : new[k][i] = x
  BY <1>3, <1>5, Ordered
<1>7. ASSUME NEW k \in Kinds
      PROVE  /\ top(k) \in Nat /\ Const[k] \in Nat \ {0} /\ Const[k] <= top(k) + 1
             /\ w.at[k] \in [0 .. top(k) -> Entries] /\ DOMAIN w.at[k] = 0 .. top(k)
  BY <1>4, Sizes DEF Shape
<1> HIDE DEF top
<1>8. ASSUME NEW k \in Kinds, NEW i \in added(k)
      PROVE  /\ rec(k, i) \in New(k) /\ i \in Nat /\ i \notin DOMAIN w.at[k] /\ i >= Const[k]
             /\ \A j \in added(k) : rec(k, i) = rec(k, j) => i = j
  <2>1. i \in Nat /\ i - top(k) \in 1 .. Len(new[k]) /\ i \notin DOMAIN w.at[k] /\ i >= Const[k]
    BY <1>6, <1>7
  <2>2. rec(k, i) \in New(k)
    BY <1>6, <2>1
  <2>3. ASSUME NEW j \in added(k), rec(k, i) = rec(k, j)
        PROVE  i = j
    <3>1. j - top(k) \in 1 .. Len(new[k]) /\ j \in Int
      BY <1>6, <1>7
    <3>2. i - top(k) = j - top(k)
      BY <1>6, <2>1, <2>3, <3>1
    <3> QED BY <1>7, <2>1, <3>1, <3>2
  <2> QED BY <2>1, <2>2, <2>3
<1>9. ASSUME NEW k \in Kinds, NEW r \in New(k)
      PROVE  \E i \in added(k) : rec(k, i) = r
  <2>1. PICK j \in 1 .. Len(new[k]) : new[k][j] = r
    BY <1>6
  <2>2. top(k) + j \in added(k) /\ (top(k) + j) - top(k) = j
    BY <1>6, <1>7
  <2> QED BY <2>1, <2>2
<1>10. ASSUME NEW k \in Kinds, NEW r \in New(k)
       PROVE  /\ r.home \in Places /\ r.occ \in BOOLEAN /\ r.id \in Nat
              /\ r.id \in IdStart .. counter - 1 /\ f[r.id] = k
              /\ HomeOK(f, counter, k, r.id, r.home)
              /\ r.id \notin DOMAIN w.table
              /\ \A q \in New(k) : q.id = r.id => q = r
  <2>1. r \in disk[k] /\ r.id \notin DOMAIN table /\ New(k) \subseteq disk[k]
    BY <1>5
  <2>2. /\ r.home \in Places /\ r.occ \in BOOLEAN /\ r.id \in IdStart .. saved - 1 /\ f[r.id] = k
        /\ HomeOK(f, saved, k, r.id, r.home)
        /\ \A q \in disk[k] : q.id = r.id => q = r
    BY <2>1 DEF Disk
  <2>3. HomeOK(f, counter, k, r.id, r.home)
    BY <2>2, HomeStays
  <2> QED BY <1>2, <2>1, <2>2, <2>3, Sizes
<1> HIDE DEF rec, added
<1>11. ASSUME NEW k \in Kinds, NEW i \in added(k)
       PROVE  /\ e(k, i) \in Entries /\ e(k, i).id = rec(k, i).id /\ e(k, i).zone = 1
              /\ e(k, i).in = Limbo /\ e(k, i).home = rec(k, i).home
  <2>1. rec(k, i).id \in Nat /\ rec(k, i).home \in Places /\ rec(k, i).occ \in BOOLEAN /\ Limbo \in Places /\ 1 \in Zones
    BY <1>8, <1>10 DEF Limbo, Places, Kinds, Zones
  <2> QED BY <2>1 DEF e, Born, Entries
<1>12. ASSUME NEW k \in Kinds
       PROVE  /\ DOMAIN v.at[k] = 0 .. top(k) + Len(new[k])
              /\ DOMAIN v.at[k] = DOMAIN w.at[k] \cup added(k)
              /\ Top(v, k) = top(k) + Len(new[k]) /\ Top(v, k) >= top(k) /\ Top(v, k) \in Nat
              /\ \A i \in DOMAIN w.at[k] : v.at[k][i] = w.at[k][i]
              /\ \A i \in added(k) : v.at[k][i] = e(k, i)
              /\ v.at[k] \in [0 .. Top(v, k) -> Entries]
  <2> DEFINE m == top(k) + Len(new[k])
  <2>1. DOMAIN v.at[k] = DOMAIN w.at[k] \cup added(k)
    BY <1>2
  <2>2. m \in Nat /\ m >= top(k) /\ 0 .. m = (0 .. top(k)) \cup added(k)
    BY <1>6, <1>7 DEF added
  <2>3. DOMAIN v.at[k] = 0 .. m
    BY <1>7, <2>1, <2>2
  <2> HIDE DEF m
  <2>4. m \in Int /\ m >= -1
    BY <2>2
  <2>5. Top(v, k) = m
    BY <2>3, <2>4, Counted
  <2>6. \A i \in added(k) : v.at[k][i] = e(k, i)
    BY <1>2
  <2>7. \A i \in DOMAIN w.at[k] : v.at[k][i] = w.at[k][i]
    BY <1>2, <1>8
  <2>8. v.at[k] \in [0 .. m -> Entries]
    <3>1. \A i \in DOMAIN v.at[k] : v.at[k][i] \in Entries
      BY <1>7, <1>11, <2>1, <2>6, <2>7
    <3>2. v.at[k] = [i \in DOMAIN at[k] \cup added(k) |-> IF i \in added(k) THEN e(k, i) ELSE at[k][i]]
      BY <1>2
    <3> QED BY <2>3, <3>1, <3>2
  <2> QED BY <2>1, <2>2, <2>3, <2>5, <2>6, <2>7, <2>8 DEF m
<1>13. /\ v.zset \in [Zones -> [Kinds -> SUBSET Int]]
       /\ \A z \in Zones, k \in Kinds :
            v.zset[z][k] = IF z = 1 THEN w.zset[z][k] \cup added(k) ELSE w.zset[z][k]
  <2>1. w.zset \in [Zones -> [Kinds -> SUBSET Int]] /\ \A k \in Kinds : added(k) \in SUBSET Int
    BY <1>4, <1>8 DEF Shape
  <2>2. 1 \in Zones
    BY DEF Zones
  <2>3. v.zset = [w.zset EXCEPT ![1] = [k \in Kinds |-> w.zset[1][k] \cup added(k)]]
    BY <1>2
  <2>4. [k \in Kinds |-> w.zset[1][k] \cup added(k)] \in [Kinds -> SUBSET Int]
    BY <2>1, <2>2
  <2>5. v.zset \in [Zones -> [Kinds -> SUBSET Int]]
    BY <2>1, <2>3, <2>4
  <2>6. v.zset[1] = [k \in Kinds |-> w.zset[1][k] \cup added(k)]
    BY <2>1, <2>2, <2>3
  <2>7. \A z \in Zones : z # 1 => v.zset[z] = w.zset[z]
    BY <2>1, <2>3
  <2> QED BY <2>5, <2>6, <2>7
<1>14. Shape(v)
  <2>1. v.at = [k \in Kinds |-> v.at[k]]
    BY <1>2
  <2>2. \A k \in Kinds : Const[k] <= Top(v, k) + 1
    BY <1>7, <1>12
  <2> QED BY <1>2, <1>12, <1>13, <2>1, <2>2 DEF Shape
<1>15. Held(v)
  <2>1. \A k \in Kinds : Holders[k] \subseteq Kinds
    BY DEF Kinds, Holders
  <2>2. \A k \in Kinds : \A p : FitsIn(w, k, p) => FitsIn(v, k, p)
    BY <1>12, <2>1 DEF FitsIn
  <2>3. ASSUME NEW k \in Kinds, NEW i \in DOMAIN v.at[k]
        PROVE  FitsIn(v, k, v.at[k][i].in)
    <3>1. CASE i \in DOMAIN w.at[k]
      BY <1>4, <1>12, <2>2, <3>1 DEF Held
    <3>2. CASE i \in added(k)
      BY <1>11, <1>12, <3>2 DEF FitsIn
    <3> QED BY <1>12, <3>1, <3>2
  <2> QED BY <2>3 DEF Held
<1>16. Upward(v)
  <2>1. "obj" \in Kinds
    BY DEF Kinds
  <2>2. ASSUME NEW i \in DOMAIN v.at["obj"]
        PROVE  Above(v, v.at["obj"][i].id, v.at["obj"][i].in)
    <3>1. CASE i \in DOMAIN w.at["obj"]
      <4> DEFINE p == w.at["obj"][i].in
      <4>1. Above(w, w.at["obj"][i].id, p) /\ FitsIn(w, "obj", p)
        BY <1>4, <2>1, <3>1 DEF Upward, Held
      <4>2. p[1] = "obj" => p[2] \in DOMAIN w.at["obj"]
        BY <4>1 DEF FitsIn, Limbo
      <4>3. v.at["obj"][i] = w.at["obj"][i]
        BY <1>12, <2>1, <3>1
      <4> QED BY <1>12, <2>1, <4>1, <4>2, <4>3 DEF Above
    <3>2. CASE i \in added("obj")
      BY <1>11, <1>12, <2>1, <3>2 DEF Above, Limbo
    <3> QED BY <1>12, <2>1, <2>2, <3>1, <3>2
  <2> QED BY <2>2 DEF Upward
<1>17. Permanents(v)
  <2>1. ASSUME NEW k \in Kinds, NEW i \in 0 .. Const[k] - 1
        PROVE  v.at[k][i].id = i /\ v.at[k][i].zone = 0
    <3>1. i \in DOMAIN w.at[k]
      BY <1>7
    <3> QED BY <1>4, <1>12, <3>1 DEF Permanents
  <2> QED BY <2>1 DEF Permanents
<1>18. Ids(v, f, counter)
  <2>1. ASSUME NEW k \in Kinds, NEW i \in DOMAIN v.at[k], i >= Const[k]
        PROVE  v.at[k][i].id \in IdStart .. counter - 1 /\ f[v.at[k][i].id] = k
    <3>1. CASE i \in DOMAIN w.at[k]
      BY <1>4, <1>12, <2>1, <3>1 DEF Ids
    <3>2. CASE i \in added(k)
      BY <1>8, <1>10, <1>11, <1>12, <3>2
    <3> QED BY <1>12, <3>1, <3>2
  <2> QED BY <2>1 DEF Ids
<1>19. ASSUME NEW k \in Kinds, NEW i \in added(k)
       PROVE  rec(k, i).id \in ids /\ num(rec(k, i).id) = i
  <2>1. rec(k, i) \in New(k)
    BY <1>8
  <2>2. rec(k, i).id \in ids
    BY <2>1 DEF ids
  <2>3. \A j \in UNION {added(l) : l \in Kinds} :
          (\E l \in Kinds : j \in added(l) /\ rec(l, j).id = rec(k, i).id) => j = i
    <3>1. ASSUME NEW l \in Kinds, NEW j \in added(l), rec(l, j).id = rec(k, i).id
          PROVE  j = i
      <4>1. rec(l, j) \in New(l)
        BY <1>8
      <4>2. f[rec(l, j).id] = l /\ f[rec(k, i).id] = k
        BY <1>10, <2>1, <4>1
      <4>3. l = k
        BY <3>1, <4>2
      <4>4. rec(k, j) = rec(k, i)
        BY <1>10, <2>1, <3>1, <4>1, <4>3
      <4> QED BY <1>8, <4>3, <4>4
    <3> QED BY <3>1
  <2>4. i \in UNION {added(l) : l \in Kinds}
        /\ \E l \in Kinds : i \in added(l) /\ rec(l, i).id = rec(k, i).id
    OBVIOUS
  <2>5. num(rec(k, i).id) = i
    BY <2>3, <2>4 DEF num
  <2> QED BY <2>2, <2>5
<1>20. Tabled(v)
  <2>1. ASSUME NEW n \in DOMAIN v.table
        PROVE  \E k \in Kinds : \E i \in DOMAIN v.at[k] : i >= Const[k] /\ n = v.at[k][i].id
    <3>1. CASE n \in DOMAIN w.table
      <4>1. PICK k \in Kinds : \E i \in DOMAIN w.at[k] : i >= Const[k] /\ n = w.at[k][i].id
        BY <1>4, <3>1 DEF Tabled
      <4>2. PICK i \in DOMAIN w.at[k] : i >= Const[k] /\ n = w.at[k][i].id
        BY <4>1
      <4>3. i \in DOMAIN v.at[k] /\ v.at[k][i] = w.at[k][i]
        BY <1>12
      <4> QED BY <4>2, <4>3
    <3>2. CASE n \in ids
      <4>1. PICK k \in Kinds : \E r \in New(k) : r.id = n
        BY <3>2 DEF ids
      <4>2. PICK r \in New(k) : r.id = n
        BY <4>1
      <4>3. PICK i \in added(k) : rec(k, i) = r
        BY <1>9
      <4>4. i \in DOMAIN v.at[k] /\ i >= Const[k] /\ n = v.at[k][i].id
        BY <1>8, <1>11, <1>12, <4>2, <4>3
      <4> QED BY <4>4
    <3> QED BY <1>2, <3>1, <3>2
  <2>2. ASSUME NEW k \in Kinds, NEW i \in DOMAIN v.at[k], i >= Const[k]
        PROVE  v.at[k][i].id \in DOMAIN v.table /\ v.table[v.at[k][i].id] = i
    <3>1. CASE i \in DOMAIN w.at[k]
      <4>1. w.at[k][i].id \in DOMAIN w.table /\ w.table[w.at[k][i].id] = i
        BY <1>4, <2>2, <3>1 DEF Tabled
      <4>2. v.at[k][i] = w.at[k][i]
        BY <1>12, <3>1
      <4> QED BY <1>2, <4>1, <4>2
    <3>2. CASE i \in added(k)
      <4> DEFINE n == rec(k, i).id
      <4>1. v.at[k][i].id = n
        BY <1>11, <1>12, <3>2
      <4>2. n \in ids /\ num(n) = i /\ n \notin DOMAIN w.table
        BY <1>8, <1>10, <1>19, <3>2
      <4> HIDE DEF n
      <4> QED BY <1>2, <4>1, <4>2
    <3> QED BY <1>12, <3>1, <3>2
  <2> QED BY <2>1, <2>2 DEF Tabled
<1>21. Zoned(v)
  <2>1. ASSUME NEW z \in Zones, NEW k \in Kinds
        PROVE  v.zset[z][k] = {i \in DOMAIN v.at[k] : v.at[k][i].zone = z /\ ~Player(k, i)}
    <3>1. w.zset[z][k] = {i \in DOMAIN w.at[k] : w.at[k][i].zone = z /\ ~Player(k, i)}
      BY <1>4 DEF Zoned
    <3>2. \A i \in added(k) : ~Player(k, i) /\ v.at[k][i].zone = 1
      BY <1>8, <1>11, <1>12, Sizes DEF Player
    <3>3. \A i \in DOMAIN w.at[k] : v.at[k][i].zone = w.at[k][i].zone
      BY <1>12
    <3>4. DOMAIN v.at[k] = DOMAIN w.at[k] \cup added(k)
      BY <1>12
    <3>5. v.zset[z][k] = IF z = 1 THEN w.zset[z][k] \cup added(k) ELSE w.zset[z][k]
      BY <1>13
    <3> QED BY <3>1, <3>2, <3>3, <3>4, <3>5
  <2> QED BY <2>1 DEF Zoned
<1>22. Homes(v, f, counter)
  <2>1. ASSUME NEW k \in Kinds, NEW i \in DOMAIN v.at[k], ~v.at[k][i].temp
        PROVE  HomeOK(f, counter, k, v.at[k][i].id, v.at[k][i].home)
    <3>1. CASE i \in DOMAIN w.at[k]
      BY <1>4, <1>12, <2>1, <3>1 DEF Homes
    <3>2. CASE i \in added(k)
      <4>1. v.at[k][i].id = rec(k, i).id /\ v.at[k][i].home = rec(k, i).home /\ rec(k, i) \in New(k)
        BY <1>8, <1>11, <1>12, <3>2
      <4> QED BY <1>10, <4>1
    <3> QED BY <1>12, <3>1, <3>2
  <2> QED BY <2>1 DEF Homes
<1> QED BY <1>14, <1>15, <1>16, <1>17, <1>18, <1>20, <1>21, <1>22 DEF World, v

\* The game starts as after bootstrap().
LEMMA Initial == Init => IInv
<1> SUFFICES ASSUME Init PROVE IInv
  OBVIOUS
<1>1. saved = IdStart /\ counter = IdStart /\ IdStart \in Nat
  BY Sizes DEF Init
<1>2. PICK f \in [Nat -> Kinds] : TRUE
  <2>1. [n \in Nat |-> "loc"] \in [Nat -> Kinds]
    BY DEF Kinds
  <2> QED BY <2>1
<1>3. World(W, f, counter)
  <2>1. W = Booted
    BY DEF Init, W, Booted
  <2> QED BY <1>1, <2>1, BootedWorld
<1>4. Disk(disk, f, saved)
  BY FS_EmptySet DEF Init, Disk
<1>5. Sweeping(sweep, zset)
  BY DEF Init, Sweeping
<1> QED BY <1>1, <1>3, <1>4, <1>5 DEF IInv

\* The variables are those of the world that is named.
LEMMA BecomesIt ==
  ASSUME NEW u, Shape(u), Becomes(u)
  PROVE  W' = u /\ zset' = u.zset
BY DEF Shape, Becomes, W

\* After a crash the counter is the one that was saved, and nothing but the files is left.
LEMMA Restarted ==
  ASSUME NEW s \in Nat, NEW d, IdStart <= s, NEW f \in [Nat -> Kinds], Disk(d, f, s),
         Restart([saved |-> s, disk |-> d])
  PROVE  IInv'
<1>1. Becomes(Booted) /\ sweep' = Idle /\ saved' = s /\ disk' = d /\ counter' = s
  BY DEF Restart
<1>2. World(Booted, f, s)
  BY BootedWorld
<1>3. W' = Booted
  BY <1>1, <1>2, BecomesIt DEF World
<1>4. World(W', f, counter') /\ Disk(disk', f, saved')
  BY <1>1, <1>2, <1>3
<1>5. Sweeping(sweep', zset')
  BY <1>1 DEF Sweeping
<1> QED BY <1>1, <1>4, <1>5 DEF IInv

\* What a command leaves in the world and on the disk.
LEMMA Commanded ==
  ASSUME IInv, Command
  PROVE  sweep = Idle
BY DEF IInv, Command, Sweeping

\* Each action keeps the inductive invariant: GET, DROP and GIVE.
LEMMA CarryStep == IInv /\ Carry => IInv'
<1> SUFFICES ASSUME IInv, Carry PROVE IInv'
  OBVIOUS
<1>1. PICK f \in [Nat -> Kinds] : World(W, f, counter) /\ Disk(disk, f, saved)
  BY DEF IInv
<1>2. PICK o \in DOMAIN at["obj"], h \in Things(W) :
        /\ h[1] \in Holders["obj"]
        /\ h[1] = "obj" => at["obj"][o].id < at["obj"][h[2]].id
        /\ Becomes(Moved(W, <<"obj", o>>, h))
  BY DEF Carry
<1>3. W.at = at /\ "obj" \in Kinds /\ Shape(W)
  BY <1>1 DEF W, Kinds, World
<1>4. h \in Places /\ FitsIn(W, "obj", h) /\ Above(W, at["obj"][o].id, h)
  <2>1. PICK k \in Kinds : h \in {<<k, i>> : i \in DOMAIN at[k]}
    BY <1>2, <1>3 DEF Things
  <2>2. PICK i \in DOMAIN at[k] : h = <<k, i>>
    BY <2>1
  <2>3. i \in DOMAIN W.at[k]
    BY <1>3
  <2>4. i \in Int
    BY <1>3, <2>3, Numbered
  <2> QED BY <1>2, <1>3, <2>2, <2>4 DEF Places, FitsIn, Above
<1>5. World(Moved(W, <<"obj", o>>, h), f, counter)
  BY <1>1, <1>3, <1>4, MovedWorld
<1>6. W' = Moved(W, <<"obj", o>>, h)
  BY <1>2, <1>5, BecomesIt DEF World
<1>7. sweep = Idle /\ UNCHANGED <<counter, saved, disk, sweep>>
  BY Commanded DEF Carry, files
<1> QED BY <1>1, <1>5, <1>6, <1>7 DEF IInv, Sweeping

\* A player goes elsewhere.
LEMMA GotoStep == IInv /\ Goto => IInv'
<1> SUFFICES ASSUME IInv, Goto PROVE IInv'
  OBVIOUS
<1>1. PICK f \in [Nat -> Kinds] : World(W, f, counter) /\ Disk(disk, f, saved)
  BY DEF IInv
<1>0. Walkers \subseteq DOMAIN at["mob"]
  <2>1. /\ W.at = at /\ Shape(W) /\ "mob" \in Kinds /\ P \in Nat /\ Walkers \subseteq 0 .. P - 1
        /\ Const["mob"] \in Nat /\ P <= Const["mob"]
    BY <1>1, Sizes, SizesAssumption DEF W, Kinds, World
  <2>2. /\ Top(W, "mob") \in Nat /\ Const["mob"] <= Top(W, "mob") + 1
        /\ DOMAIN at["mob"] = 0 .. Top(W, "mob")
    BY <2>1 DEF Shape
  <2> QED BY <2>1, <2>2
<1>2. PICK m \in DOMAIN at["mob"], l \in DOMAIN at["loc"] :
        Becomes(Moved(W, <<"mob", m>>, <<"loc", l>>))
  BY <1>0 DEF Goto, Restless
<1>3. W.at = at /\ "mob" \in Kinds /\ "loc" \in Kinds /\ Shape(W)
  BY <1>1 DEF W, Kinds, World
<1>4. l \in Int
  <2>1. l \in DOMAIN W.at["loc"]
    BY <1>3
  <2> QED BY <1>3, <2>1, Numbered
<1>5. <<"loc", l>> \in Places /\ FitsIn(W, "mob", <<"loc", l>>)
  BY <1>3, <1>4 DEF Places, FitsIn, Holders
<1>6. World(Moved(W, <<"mob", m>>, <<"loc", l>>), f, counter)
  BY <1>1, <1>3, <1>5, MovedWorld
<1>7. W' = Moved(W, <<"mob", m>>, <<"loc", l>>)
  BY <1>2, <1>6, BecomesIt DEF World
<1>8. sweep = Idle /\ UNCHANGED <<counter, saved, disk, sweep>>
  BY Commanded DEF Goto, files
<1> QED BY <1>1, <1>6, <1>7, <1>8 DEF IInv, Sweeping

\* Somebody is marked, or no longer.
LEMMA MarkedWorld ==
  ASSUME NEW f, NEW c, World(W, f, c), NEW m \in DOMAIN at["mob"], NEW b \in BOOLEAN,
         at' = [at EXCEPT !["mob"][m].occ = b], UNCHANGED <<table, zset>>
  PROVE  World(W', f, c)
<1> DEFINE e == [at["mob"][m] EXCEPT !.occ = b]
           u == Put(W, "mob", m, e)
<1>1. W.at = at /\ W.table = table /\ W.zset = zset /\ "mob" \in Kinds /\ Shape(W) /\ Held(W)
  BY DEF W, Kinds, World
<1>2. at["mob"][m] \in Entries /\ FitsIn(W, "mob", at["mob"][m].in)
  BY <1>1 DEF Shape, Held
<1>3. e \in Entries /\ Same(e, at["mob"][m]) /\ e.in = at["mob"][m].in
  BY <1>2 DEF Entries, Same
<1>4. at' = [at EXCEPT !["mob"] = [at["mob"] EXCEPT ![m] = e]]
  OBVIOUS
<1> HIDE DEF e
<1>5. World(u, f, c)
  BY <1>1, <1>2, <1>3, PutWorld
<1>6. u.at = at' /\ u.table = table /\ u.zset = zset
  BY <1>1, <1>4 DEF Put, W
<1> HIDE DEF u
<1> DEFINE v == W'
<1>7. /\ v = [at |-> v.at, table |-> v.table, zset |-> v.zset, pretend |-> v.pretend]
      /\ v.at = u.at /\ v.table = u.table /\ v.zset = u.zset
  BY <1>6 DEF W
<1> HIDE DEF v
<1>8. World(v, f, c)
  BY <1>5, <1>7, SameWorld
<1> QED BY <1>8 DEF v

\* One takes another body.
LEMMA AliasStep == IInv /\ Alias => IInv'
<1> SUFFICES ASSUME IInv, Alias PROVE IInv'
  OBVIOUS
<1>1. PICK f \in [Nat -> Kinds] : World(W, f, counter) /\ Disk(disk, f, saved)
  BY DEF IInv
<1>2. PICK m \in DOMAIN at["mob"] : at' = [at EXCEPT !["mob"][m].occ = TRUE]
  BY DEF Alias, Restless
<1>3. World(W', f, counter)
  BY <1>1, <1>2, MarkedWorld DEF Alias
<1>4. sweep = Idle /\ UNCHANGED <<counter, saved, disk, sweep>>
  BY Commanded DEF Alias, files
<1> QED BY <1>1, <1>3, <1>4 DEF IInv, Sweeping

\* One leaves it.
LEMMA UnaliasStep == IInv /\ Unalias => IInv'
<1> SUFFICES ASSUME IInv, Unalias PROVE IInv'
  OBVIOUS
<1>1. PICK f \in [Nat -> Kinds] : World(W, f, counter) /\ Disk(disk, f, saved)
  BY DEF IInv
<1>2. PICK p \in 0 .. P - 1 :
        at' = IF pretend[p] \in DOMAIN at["mob"]
              THEN [at EXCEPT !["mob"][pretend[p]].occ = FALSE] ELSE at
  BY DEF Unalias
<1>3. World(W', f, counter)
  <2>1. CASE pretend[p] \in DOMAIN at["mob"]
    BY <1>1, <1>2, <2>1, MarkedWorld DEF Unalias
  <2>2. CASE pretend[p] \notin DOMAIN at["mob"]
    <3> DEFINE v == W'
    <3>1. /\ v = [at |-> v.at, table |-> v.table, zset |-> v.zset, pretend |-> v.pretend]
          /\ v.at = W.at /\ v.table = W.table /\ v.zset = W.zset
      BY <1>2, <2>2 DEF Unalias, W
    <3> HIDE DEF v
    <3>2. World(v, f, counter)
      BY <1>1, <3>1, SameWorld
    <3> QED BY <3>2 DEF v
  <2> QED BY <2>1, <2>2
<1>4. sweep = Idle /\ UNCHANGED <<counter, saved, disk, sweep>>
  BY Commanded DEF Unalias, files
<1> QED BY <1>1, <1>3, <1>4 DEF IInv, Sweeping

\* One in a place may be a place itself: a room, or a player.
LEMMA CloneStep == IInv /\ (Clone \/ Found) => IInv'
<1> SUFFICES ASSUME IInv, Clone \/ Found PROVE IInv'
  OBVIOUS
<1>1. PICK f \in [Nat -> Kinds] : World(W, f, counter) /\ Disk(disk, f, saved)
  BY DEF IInv
<1>2. /\ counter \in Nat /\ saved \in Nat /\ IdStart <= saved /\ saved <= counter
      /\ IdStart \in Nat /\ IdStart <= counter
  BY Sizes DEF IInv
<1>3. W.at = at /\ Shape(W) /\ Held(W) /\ Kinds = {"loc", "mob", "obj"}
  BY <1>1 DEF W, World, Kinds
<1>4. sweep = Idle
  BY Commanded DEF Clone, Found
<1>5. ASSUME NEW k \in Kinds, NEW i \in DOMAIN at[k], NEW z \in Zones, NEW h \in Places,
             FitsIn(W, k, h), h[1] # "obj", Cloned(k, i, z, h)
      PROVE  IInv'
  <2> DEFINE g == [f EXCEPT ![counter] = k]
  <2>1. /\ g \in [Nat -> Kinds] /\ World(W', g, counter')
        /\ \A m \in Nat : m < counter => g[m] = f[m]
    BY <1>1, <1>2, <1>5, ClonedWorld
  <2> HIDE DEF g
  <2>2. counter' = counter + 1 /\ UNCHANGED <<saved, disk, sweep>>
    BY <1>5 DEF Cloned, files
  <2>3. Disk(disk', g, saved')
    <3>1. ASSUME NEW l \in Kinds, NEW r \in disk[l]
          PROVE  /\ r.home \in Places /\ r.occ \in BOOLEAN /\ r.id \in IdStart .. saved - 1 /\ g[r.id] = l
                 /\ HomeOK(g, saved, l, r.id, r.home)
      <4>1. /\ r.home \in Places /\ r.occ \in BOOLEAN /\ r.id \in IdStart .. saved - 1 /\ f[r.id] = l
            /\ HomeOK(f, saved, l, r.id, r.home)
        BY <1>1 DEF Disk
      <4>2. \A m \in Nat : m < saved => g[m] = f[m]
        BY <1>2, <2>1
      <4>3. g[r.id] = l
        BY <1>2, <4>1, <4>2
      <4> DEFINE hm == r.home
                 id == r.id
      <4>4. hm \in Places /\ HomeOK(f, saved, l, id, hm) /\ saved \in Nat /\ saved <= saved
        BY <1>2, <4>1
      <4> HIDE DEF hm, id
      <4>5. HomeOK(g, saved, l, id, hm)
        BY <4>2, <4>4, HomeStays
      <4> QED BY <4>1, <4>3, <4>5 DEF hm, id
    <3> QED BY <1>1, <2>2, <3>1 DEF Disk
  <2>4. Sweeping(sweep', zset')
    BY <1>4, <2>2 DEF Sweeping
  <2>5. saved' \in Nat /\ counter' \in Nat /\ IdStart <= saved' /\ saved' <= counter'
    BY <1>2, <2>2
  <2> QED BY <2>1, <2>3, <2>4, <2>5 DEF IInv
<1>6. Limbo \in Places /\ Limbo[1] # "obj" /\ \A k \in Kinds : FitsIn(W, k, Limbo)
  BY DEF Limbo, Places, Kinds, FitsIn
<1>7. 0 \in Zones /\ 1 \in Zones
  BY DEF Zones
<1>8. ASSUME NEW p \in 0 .. P - 1
      PROVE  /\ p \in DOMAIN at["mob"] /\ Room(p) \in Places /\ Room(p)[1] # "obj"
             /\ FitsIn(W, "mob", Room(p)) /\ FitsIn(W, "obj", Room(p))
             /\ <<"mob", p>> \in Places /\ FitsIn(W, "obj", <<"mob", p>>)
  <2>1. DOMAIN at["mob"] = 0 .. Top(W, "mob") /\ Const["mob"] <= Top(W, "mob") + 1
        /\ Top(W, "mob") \in Nat
    BY <1>3 DEF Shape
  <2>2. p \in DOMAIN at["mob"]
    <3>1. P \in Nat /\ P <= Const["mob"] /\ Const["mob"] \in Nat
      BY <1>3, Sizes
    <3> QED BY <1>8, <2>1, <3>1
  <2>3. at["mob"][p] \in Entries
    BY <1>3, <2>2 DEF Shape
  <2>4. Room(p) \in Places /\ FitsIn(W, "mob", Room(p))
    BY <1>3, <2>2, <2>3 DEF Room, Entries, Held
  <2>5. Holders["mob"] = {"loc"} /\ Holders["obj"] = {"loc", "mob", "obj"}
    BY DEF Holders
  <2>6. Room(p)[1] # "obj" /\ FitsIn(W, "obj", Room(p))
    BY <2>4, <2>5 DEF FitsIn, Limbo
  <2>7. <<"mob", p>> \in Places /\ FitsIn(W, "obj", <<"mob", p>>)
    BY <1>3, <2>2, <2>5 DEF Places, FitsIn
  <2> QED BY <2>2, <2>4, <2>6, <2>7
<1>9. ASSUME NEW p \in 0 .. P - 1, NEW i \in DOMAIN at["loc"], CloneLocation(i)
      PROVE  IInv'
  BY <1>3, <1>5, <1>6, <1>7, <1>9 DEF CloneLocation
<1>10. ASSUME NEW p \in 0 .. P - 1, NEW i \in DOMAIN at["mob"], CloneMobile(p, i)
       PROVE  IInv'
  BY <1>3, <1>5, <1>7, <1>8, <1>10 DEF CloneMobile
<1>11. ASSUME NEW p \in 0 .. P - 1, NEW i \in DOMAIN at["obj"], CloneObject(p, i)
       PROVE  IInv'
  BY <1>3, <1>5, <1>7, <1>8, <1>11 DEF CloneObject
<1>12. ASSUME NEW p \in 0 .. P - 1, NEW i \in 0 .. Const["obj"] - 1, Cloned("obj", i, 0, <<"mob", p>>)
       PROVE  IInv'
  <2>1. DOMAIN at["obj"] = 0 .. Top(W, "obj") /\ Const["obj"] <= Top(W, "obj") + 1
        /\ Top(W, "obj") \in Nat
    BY <1>3 DEF Shape
  <2>2. i \in DOMAIN at["obj"] /\ <<"mob", p>>[1] # "obj"
    BY <1>3, <2>1, Sizes
  <2> QED BY <1>3, <1>5, <1>7, <1>8, <1>12, <2>2
<1> QED BY <1>9, <1>10, <1>11, <1>12 DEF Clone, Found

\* A destruction, or the loop without end, out of any state that is as it should be.
LEMMA DestroysWorld ==
  ASSUME NEW f, NEW c, World(W, f, c), c \in Nat,
         NEW k \in Kinds, NEW i \in DOMAIN at[k], DestructThing(k, i)
  PROVE  /\ World(W', f, c)
         /\ \A z \in Zones : i \in zset[z][k] /\ Reused(W, k, i) => i \in zset'[z][k]
<1>1. ~Permanent(k, i) /\ Destroys(k, i)
  BY DEF DestructThing, DestructObject, DestructMobile, DestructLocation
<1>2. W.at = at /\ W.zset = zset /\ Shape(W) /\ Zoned(W)
  BY DEF W, World
<1>3. i \in Nat
  BY <1>2, Numbered
<1>4. Const[k] <= i
  BY <1>1, <1>3, Sizes DEF Permanent
<1>5. /\ World(Destructed(W, k, i), f, c)
      /\ \A z \in Zones :
           i # Top(W, k) /\ W.at[k][Top(W, k)].zone = z => i \in Destructed(W, k, i).zset[z][k]
  BY <1>2, <1>4, DestructedWorld
<1>6. CASE Becomes(Destructed(W, k, i))
  <2>1. W' = Destructed(W, k, i) /\ zset' = Destructed(W, k, i).zset
    BY <1>5, <1>6, BecomesIt DEF World
  <2>2. \A z \in Zones : i \in zset[z][k] => W.at[k][i].zone = z
    BY <1>2 DEF Zoned
  <2> QED BY <1>5, <2>1, <2>2 DEF Reused
<1>7. CASE UNCHANGED world
  <2>1. W' = W /\ zset' = zset
    BY <1>7 DEF world, W
  <2> QED BY <2>1
<1> QED BY <1>1, <1>6, <1>7 DEF Destroys

\* DESTRUCT, or the loop that does not end.
LEMMA DestructStep == IInv /\ Destruct => IInv'
<1> SUFFICES ASSUME IInv, Destruct PROVE IInv'
  OBVIOUS
<1>1. PICK f \in [Nat -> Kinds] : World(W, f, counter) /\ Disk(disk, f, saved)
  BY DEF IInv
<1>2. PICK k \in Kinds : \E i \in DOMAIN at[k] : DestructThing(k, i)
  BY DEF Destruct
<1>3. PICK i \in DOMAIN at[k] : DestructThing(k, i)
  BY <1>2
<1>4. World(W', f, counter)
  BY <1>1, <1>3, DestroysWorld DEF IInv
<1>5. sweep = Idle /\ UNCHANGED <<counter, saved, disk, sweep>>
  BY Commanded DEF Destruct, files
<1> QED BY <1>1, <1>4, <1>5 DEF IInv, Sweeping

\* Whatever of the files of STORE has been written, the rest is of the last time.
LEMMA StoredDisk ==
  ASSUME IInv, NEW f \in [Nat -> Kinds], World(W, f, counter), Disk(disk, f, saved),
         NEW d, \A k \in Kinds : d[k] \in {Written(k), disk[k]}
  PROVE  Disk(d, f, counter)
<1>1. saved \in Nat /\ counter \in Nat /\ saved <= counter /\ IdStart \in Nat
  BY Sizes DEF IInv
<1>2. ASSUME NEW k \in Kinds
      PROVE  /\ IsFiniteSet(d[k])
             /\ \A r \in d[k] : /\ r.home \in Places /\ r.occ \in BOOLEAN
                              /\ r.id \in IdStart .. counter - 1 /\ f[r.id] = k
                              /\ HomeOK(f, counter, k, r.id, r.home)
             /\ \A r, q \in d[k] : r.id = q.id => r = q
  <2>1. CASE d[k] = Written(k)
    BY <1>1, <2>1, WrittenOK
  <2>2. CASE d[k] = disk[k]
    <3>1. /\ IsFiniteSet(disk[k])
          /\ \A r, q \in disk[k] : r.id = q.id => r = q
      BY DEF Disk
    <3>2. ASSUME NEW r \in disk[k]
          PROVE  /\ r.home \in Places /\ r.occ \in BOOLEAN
                 /\ r.id \in IdStart .. counter - 1 /\ f[r.id] = k
                 /\ HomeOK(f, counter, k, r.id, r.home)
      <4>1. /\ r.home \in Places /\ r.occ \in BOOLEAN /\ r.id \in IdStart .. saved - 1 /\ f[r.id] = k
            /\ HomeOK(f, saved, k, r.id, r.home)
        BY DEF Disk
      <4>2. HomeOK(f, counter, k, r.id, r.home)
        BY <1>1, <4>1, HomeStays
      <4> QED BY <1>1, <4>1, <4>2
    <3> QED BY <2>2, <3>1, <3>2
  <2> QED BY <2>1, <2>2
<1> QED BY <1>2 DEF Disk

\* STORE, and a crash between the files of it.
LEMMA StoreStep == IInv /\ (Store \/ CrashInStore) => IInv'
<1> SUFFICES ASSUME IInv, Store \/ CrashInStore PROVE IInv'
  OBVIOUS
<1>1. PICK f \in [Nat -> Kinds] : World(W, f, counter) /\ Disk(disk, f, saved)
  BY DEF IInv
<1>2. counter \in Nat /\ IdStart <= counter
  BY Sizes DEF IInv
<1>3. ASSUME NEW n \in 1 .. 4
      PROVE  FilesAfter(n).saved = counter /\ Disk(FilesAfter(n).disk, f, counter)
  <2>1. \A k \in Kinds : FilesAfter(n).disk[k] \in {Written(k), disk[k]}
    BY DEF FilesAfter
  <2>2. FilesAfter(n).saved = counter
    BY DEF FilesAfter
  <2> DEFINE d == FilesAfter(n).disk
  <2> HIDE DEF d
  <2>3. \A k \in Kinds : d[k] \in {Written(k), disk[k]}
    BY <2>1 DEF d
  <2>4. Disk(d, f, counter)
    BY <1>1, <2>3, StoredDisk
  <2> QED BY <2>2, <2>4 DEF d
<1>4. CASE Store
  <2>1. sweep = Idle /\ UNCHANGED <<counter, sweep>>
        /\ saved' = FilesAfter(4).saved /\ disk' = FilesAfter(4).disk
    BY <1>4, Commanded DEF Store
  <2>2. saved' = counter /\ Disk(disk', f, saved')
    BY <1>3, <2>1
  <2>3. World(W', f, counter)
    BY <1>1, <1>2, <1>4, StoredWorld
  <2>4. Sweeping(sweep', zset')
    BY <2>1 DEF Sweeping
  <2> QED BY <1>1, <1>2, <2>1, <2>2, <2>3, <2>4 DEF IInv
<1>5. CASE CrashInStore
  <2>1. PICK n \in 1 .. 3 : Restart(FilesAfter(n))
    BY <1>5 DEF CrashInStore
  <2> DEFINE d == FilesAfter(n).disk
  <2>2. FilesAfter(n) = [saved |-> counter, disk |-> d] /\ Disk(d, f, counter)
    <3>1. FilesAfter(n).saved = counter /\ Disk(FilesAfter(n).disk, f, counter)
      BY <1>3
    <3>2. FilesAfter(n) = [saved |-> FilesAfter(n).saved, disk |-> FilesAfter(n).disk]
      BY DEF FilesAfter
    <3> QED BY <3>1, <3>2
  <2> HIDE DEF d
  <2> QED BY <1>1, <1>2, <2>1, <2>2, Restarted
<1> QED BY <1>4, <1>5

\* A crash at any other time.
LEMMA CrashStep == IInv /\ Crash => IInv'
<1> SUFFICES ASSUME IInv, Crash PROVE IInv'
  OBVIOUS
<1>1. PICK f \in [Nat -> Kinds] : World(W, f, counter) /\ Disk(disk, f, saved)
  BY DEF IInv
<1>2. saved \in Nat /\ IdStart <= saved /\ Restart([saved |-> saved, disk |-> disk])
  BY DEF IInv, Crash
<1> QED BY <1>1, <1>2, Restarted

\* LOAD, up to where its reset begins.
LEMMA LoadStep == IInv /\ Load => IInv'
<1> SUFFICES ASSUME IInv, Load PROVE IInv'
  OBVIOUS
<1>1. PICK f \in [Nat -> Kinds] : World(W, f, counter) /\ Disk(disk, f, saved)
  BY DEF IInv
<1>2. /\ counter \in Nat /\ saved \in Nat /\ IdStart <= saved /\ saved <= counter
      /\ UNCHANGED <<counter, saved, disk>>
  BY DEF IInv, Load, files
<1>3. World(W', f, counter)
  BY <1>1, <1>2, LoadedWorld
<1>4. Sweeping(sweep', zset')
  <2>1. PICK known \in BOOLEAN :
          sweep' = [on |-> TRUE, zone |-> 1, keep |-> known, now |-> FALSE,
                    todo |-> IF known THEN <<"mob", "obj", "loc">> ELSE <<"obj", "mob", "loc">>,
                    left |-> zset'[1][IF known THEN "mob" ELSE "obj"], again |-> {}]
    BY DEF Load
  <2> DEFINE t == IF known THEN <<"mob", "obj", "loc">> ELSE <<"obj", "mob", "loc">>
             l == zset'[1][IF known THEN "mob" ELSE "obj"]
  <2>2. 1 \in Zones /\ {} \subseteq l
    BY DEF Zones
  <2>3. t \in Seq(Kinds) /\ t # << >> /\ l \subseteq zset'[1][Head(t)]
    BY Orders
  <2>4. sweep' = [on |-> TRUE, zone |-> 1, keep |-> known, now |-> FALSE, todo |-> t,
                  left |-> l, again |-> {}]
    BY <2>1
  <2> HIDE DEF t, l
  <2> QED BY <2>2, <2>3, <2>4, Stands
<1> QED BY <1>1, <1>2, <1>3, <1>4 DEF IInv

\* A reset begins.
LEMMA ResetStep == IInv /\ Reset => IInv'
<1> SUFFICES ASSUME IInv, Reset PROVE IInv'
  OBVIOUS
<1>1. PICK f \in [Nat -> Kinds] : World(W, f, counter) /\ Disk(disk, f, saved)
  BY DEF IInv
<1>2. UNCHANGED <<counter, saved, disk, zset>> /\ W' = W
  BY DEF Reset, files, world, W
<1>3. Sweeping(sweep', zset')
  <2>1. PICK z \in Zones : \E known \in BOOLEAN :
          LET keep == Kept(z, known) IN
          sweep' = [on |-> TRUE, zone |-> z, keep |-> keep, now |-> TRUE,
                    todo |-> IF keep THEN <<"mob", "obj", "loc">> ELSE <<"obj", "mob", "loc">>,
                    left |-> zset[z][IF keep THEN "mob" ELSE "obj"], again |-> {}]
    BY DEF Reset
  <2>2. PICK known \in BOOLEAN :
          LET keep == Kept(z, known) IN
          sweep' = [on |-> TRUE, zone |-> z, keep |-> keep, now |-> TRUE,
                    todo |-> IF keep THEN <<"mob", "obj", "loc">> ELSE <<"obj", "mob", "loc">>,
                    left |-> zset[z][IF keep THEN "mob" ELSE "obj"], again |-> {}]
    BY <2>1
  <2> DEFINE keep == Kept(z, known)
             t == IF keep THEN <<"mob", "obj", "loc">> ELSE <<"obj", "mob", "loc">>
             l == zset[z][IF keep THEN "mob" ELSE "obj"]
  <2>3. sweep' = [on |-> TRUE, zone |-> z, keep |-> keep, now |-> TRUE, todo |-> t,
                  left |-> l, again |-> {}]
    BY <2>2
  <2> HIDE DEF keep
  <2>4. t \in Seq(Kinds) /\ t # << >> /\ l \subseteq zset'[z][Head(t)] /\ {} \subseteq l
    BY <1>2, Orders
  <2> HIDE DEF t, l
  <2> QED BY <2>3, <2>4, Stands
<1> QED BY <1>1, <1>2, <1>3 DEF IInv

\* The element that is next is a member of the set as it is now.
LEMMA SweepStepStep == IInv /\ SweepStep => IInv'
<1> SUFFICES ASSUME IInv, SweepStep PROVE IInv'
  OBVIOUS
<1>1. PICK f \in [Nat -> Kinds] : World(W, f, counter) /\ Disk(disk, f, saved)
  BY DEF IInv
<1>2. /\ counter \in Nat /\ saved \in Nat /\ IdStart <= saved /\ saved <= counter
      /\ UNCHANGED <<counter, saved, disk>>
  BY DEF IInv, SweepStep, files
<1> DEFINE k == SweepKind
           z == sweep.zone
<1>3. /\ DOMAIN sweep = Fields /\ sweep.on = TRUE
      /\ z \in Zones /\ sweep.todo \in Seq(Kinds) /\ sweep.todo # << >>
      /\ sweep.left \subseteq zset[z][k] /\ sweep.again \subseteq sweep.left
  BY DEF IInv, Sweeping, SweepStep, Idle, SweepKind
<1>4. k \in Kinds /\ k = Head(sweep.todo)
  BY <1>3 DEF SweepKind
<1>5. W.at = at /\ W.zset = zset /\ Shape(W) /\ Zoned(W)
  BY <1>1 DEF W, World
<1>6. PICK i \in Current :
        \/ /\ Resets(k, i) /\ Becomes(ResetThing(W, k, i)) /\ Passed(i)
        \/ UNCHANGED world /\ Passed(i)
        \/ DestructThing(k, i) /\ Onward(i)
  BY DEF SweepStep
<1> HIDE DEF k, z
<1>7. i \in sweep.left /\ i \in zset[z][k] /\ i \in DOMAIN at[k]
  <2>1. i \in sweep.left
    BY <1>3 DEF Current
  <2>2. zset[z][k] = {j \in DOMAIN at[k] : at[k][j].zone = z /\ ~Player(k, j)}
    BY <1>3, <1>4, <1>5 DEF Zoned
  <2> QED BY <1>3, <2>1, <2>2
<1>8. ASSUME /\ DOMAIN sweep' = DOMAIN sweep /\ sweep'.on = sweep.on
             /\ sweep'.zone = sweep.zone /\ sweep'.todo = sweep.todo,
             sweep'.left \subseteq zset'[z][k], sweep'.again \subseteq sweep'.left
      PROVE  Sweeping(sweep', zset')
  BY <1>3, <1>4, <1>8 DEF Sweeping, z
<1>9. ASSUME Passed(i), zset' = zset
      PROVE  Sweeping(sweep', zset')
  <2>1. sweep' = [sweep EXCEPT !.left = sweep.left \ {i}, !.again = {}]
    BY <1>9 DEF Passed
  <2> DEFINE l == sweep.left \ {i}
  <2>2. l \subseteq zset'[z][k] /\ {} \subseteq l
    BY <1>3, <1>9
  <2>3. sweep' = [sweep EXCEPT !.left = l, !.again = {}]
    BY <2>1
  <2> HIDE DEF l
  <2>4. /\ DOMAIN sweep' = DOMAIN sweep /\ sweep'.on = sweep.on /\ sweep'.zone = sweep.zone
        /\ sweep'.todo = sweep.todo /\ sweep'.left = l /\ sweep'.again = {}
    BY <1>3, <2>3, GoesOn
  <2> QED BY <1>8, <2>2, <2>4
<1>10. CASE Resets(k, i) /\ Becomes(ResetThing(W, k, i)) /\ Passed(i)
  <2>1. ~at[k][i].temp
    BY <1>10 DEF Resets
  <2>2. World(ResetThing(W, k, i), f, counter) /\ ResetThing(W, k, i).zset = zset
    BY <1>1, <1>2, <1>4, <1>5, <1>7, <2>1, ResetWorld
  <2>3. W' = ResetThing(W, k, i) /\ zset' = zset
    BY <1>10, <2>2, BecomesIt DEF World
  <2> QED BY <1>1, <1>2, <1>9, <1>10, <2>2, <2>3 DEF IInv
<1>11. CASE UNCHANGED world /\ Passed(i)
  <2>1. W' = W /\ zset' = zset
    BY <1>11 DEF world, W
  <2> QED BY <1>1, <1>2, <1>9, <1>11, <2>1 DEF IInv
<1>12. CASE DestructThing(k, i) /\ Onward(i)
  <2>1. /\ World(W', f, counter)
        /\ \A y \in Zones : i \in zset[y][k] /\ Reused(W, k, i) => i \in zset'[y][k]
    BY <1>1, <1>2, <1>4, <1>7, <1>12, DestroysWorld
  <2>2. Sweeping(sweep', zset')
    <3> DEFINE l == sweep.left \cap zset'[z][k]
    <3>1. CASE Reused(W, k, i)
      <4>1. sweep' = [sweep EXCEPT !.left = l, !.again = {i}]
        BY <1>12, <3>1 DEF Onward, k, z
      <4>2. {i} \subseteq l /\ l \subseteq zset'[z][k]
        BY <1>3, <1>7, <2>1, <3>1
      <4> HIDE DEF l
      <4>3. /\ DOMAIN sweep' = DOMAIN sweep /\ sweep'.on = sweep.on /\ sweep'.zone = sweep.zone
            /\ sweep'.todo = sweep.todo /\ sweep'.left = l /\ sweep'.again = {i}
        BY <1>3, <4>1, GoesOn
      <4> QED BY <1>8, <4>2, <4>3
    <3>2. CASE ~Reused(W, k, i)
      <4> DEFINE m == l \ {i}
      <4>1. sweep' = [sweep EXCEPT !.left = m, !.again = {}]
        BY <1>12, <3>2 DEF Onward, k, z
      <4>2. m \subseteq zset'[z][k] /\ {} \subseteq m
        OBVIOUS
      <4> HIDE DEF l, m
      <4>3. /\ DOMAIN sweep' = DOMAIN sweep /\ sweep'.on = sweep.on /\ sweep'.zone = sweep.zone
            /\ sweep'.todo = sweep.todo /\ sweep'.left = m /\ sweep'.again = {}
        BY <1>3, <4>1, GoesOn
      <4> QED BY <1>8, <4>2, <4>3
    <3> QED BY <3>1, <3>2
  <2> QED BY <1>1, <1>2, <2>1, <2>2 DEF IInv
<1> QED BY <1>6, <1>10, <1>11, <1>12

\* The reset goes on to the next set, or ends.
LEMMA SweepOnStep == IInv /\ (SweepNext \/ SweepEnd) => IInv'
<1> SUFFICES ASSUME IInv, SweepNext \/ SweepEnd PROVE IInv'
  OBVIOUS
<1>1. PICK f \in [Nat -> Kinds] : World(W, f, counter) /\ Disk(disk, f, saved)
  BY DEF IInv
<1>2. UNCHANGED <<counter, saved, disk, zset>> /\ W' = W
  BY DEF SweepNext, SweepEnd, files, world, W
<1>3. Sweeping(sweep', zset')
  <2>1. CASE SweepNext
    <3> DEFINE t == Tail(sweep.todo)
               l == zset[sweep.zone][sweep.todo[2]]
    <3>1. /\ DOMAIN sweep = Fields /\ sweep.on = TRUE
          /\ sweep.zone \in Zones /\ sweep.todo \in Seq(Kinds) /\ sweep.again \subseteq sweep.left
      BY <2>1 DEF IInv, Sweeping, SweepNext, Idle
    <3>2. sweep.left = {} /\ Len(sweep.todo) > 1 /\ sweep' = [sweep EXCEPT !.todo = t, !.left = l]
      BY <2>1 DEF SweepNext
    <3>3. t \in Seq(Kinds) /\ t # << >> /\ Head(t) = sweep.todo[2]
      <4> DEFINE q == sweep.todo
      <4>1. q \in Seq(Kinds) /\ Len(q) > 1
        BY <3>1, <3>2
      <4> HIDE DEF q
      <4>2. Len(q) \in Nat /\ q # << >>
        BY <4>1
      <4>3. Tail(q) \in Seq(Kinds) /\ Len(Tail(q)) = Len(q) - 1
        BY <4>1, <4>2
      <4>4. Tail(q)[1] = q[2]
        BY <4>1, <4>2, <4>3
      <4>5. Tail(q) # << >> /\ Head(Tail(q)) = Tail(q)[1]
        <5> DEFINE r == Tail(q)
        <5>1. r \in Seq(Kinds) /\ Len(r) > 0
          BY <4>1, <4>2, <4>3
        <5> HIDE DEF r
        <5>2. r # << >> /\ Head(r) = r[1]
          BY <5>1
        <5> QED BY <5>2 DEF r
      <4> QED BY <4>3, <4>4, <4>5 DEF q
    <3>4. l = zset[sweep.zone][Head(t)]
      BY <3>3
    <3> HIDE DEF t, l
    <3>5. /\ DOMAIN sweep' = Fields /\ sweep'.on = TRUE /\ sweep'.zone = sweep.zone
          /\ sweep'.todo = t /\ sweep'.left = l /\ sweep'.again = sweep.again
      BY <3>1, <3>2, GoesOn
    <3> QED BY <1>2, <3>1, <3>2, <3>3, <3>4, <3>5 DEF Sweeping
  <2>2. CASE SweepEnd
    BY <2>2 DEF SweepEnd, Sweeping
  <2> QED BY <2>1, <2>2
<1> QED BY <1>1, <1>2, <1>3 DEF IInv

\* So the invariant is inductive.
LEMMA Inductive == IInv /\ [Next]_vars => IInv'
<1>1. IInv /\ UNCHANGED vars => IInv'
  <2> SUFFICES ASSUME IInv, UNCHANGED vars PROVE IInv'
    OBVIOUS
  <2>1. W' = W /\ UNCHANGED <<saved, counter, disk, sweep, zset>>
    BY DEF vars, W
  <2> QED BY <2>1 DEF IInv
<1> QED BY <1>1, CarryStep, GotoStep, AliasStep, UnaliasStep, CloneStep, DestructStep, StoreStep,
           LoadStep, CrashStep, ResetStep, SweepStepStep, SweepOnStep DEF Next

\* And every state has it.
LEMMA Invariance == Spec => []IInv
BY Initial, Inductive, PTL DEF Spec

\* Whatever is cloned, destructed, stored, loaded and reset, in any order and with any
\* crashes: the table and the sets of the zones have the numbers as they are now, and
\* everything is in something that exists (clone.c:137, clone.c:280).
THEOREM NumbersCorrect == Spec => []NumbersTrue
<1>1. IInv => NumbersTrue
  <2> SUFFICES ASSUME IInv PROVE NumbersTrue
    OBVIOUS
  <2>1. PICK f \in [Nat -> Kinds] : World(W, f, counter)
    BY DEF IInv
  <2>2. W.at = at /\ W.table = table /\ W.zset = zset
    BY DEF W
  <2>3. Shape(W) /\ Held(W) /\ Tabled(W) /\ Zoned(W)
    BY <2>1 DEF World
  <2>4. ASSUME NEW k \in Kinds, NEW i \in DOMAIN at[k]
        PROVE  i \in Made(k) <=> i >= Const[k]
    <3>1. i \in Nat
      BY <2>2, <2>3, Numbered
    <3> QED BY <3>1, Sizes DEF Made, Permanent
  <2>5. \A k \in Kinds : Made(k) \subseteq DOMAIN at[k]
    BY DEF Made
  <2>6. \A k \in Kinds : \A i \in Made(k) :
          at[k][i].id \in DOMAIN table /\ table[at[k][i].id] = i
    BY <2>2, <2>3, <2>4, <2>5 DEF Tabled
  <2>7. DOMAIN table = UNION {{at[k][i].id : i \in Made(k)} : k \in Kinds}
    <3>1. ASSUME NEW n \in DOMAIN table
          PROVE  n \in UNION {{at[k][i].id : i \in Made(k)} : k \in Kinds}
      <4>1. PICK k \in Kinds : \E i \in DOMAIN at[k] : i >= Const[k] /\ n = at[k][i].id
        BY <2>2, <2>3 DEF Tabled
      <4>2. PICK i \in DOMAIN at[k] : i >= Const[k] /\ n = at[k][i].id
        BY <4>1
      <4>3. i \in Made(k)
        BY <2>4, <4>2
      <4> QED BY <4>2, <4>3
    <3>2. ASSUME NEW k \in Kinds, NEW i \in Made(k)
          PROVE  at[k][i].id \in DOMAIN table
      BY <2>6
    <3>3. UNION {{at[k][i].id : i \in Made(k)} : k \in Kinds} \subseteq DOMAIN table
      BY <3>2
    <3> QED BY <3>1, <3>3
  <2>8. \A z \in Zones, k \in Kinds :
          zset[z][k] = {i \in DOMAIN at[k] : at[k][i].zone = z /\ ~Player(k, i)}
    BY <2>2, <2>3 DEF Zoned
  <2>9. ASSUME NEW x \in Things(W)
        PROVE  Entry(W, x).in \in Things(W) \cup {Limbo}
    <3>1. PICK k \in Kinds : x \in {<<k, i>> : i \in DOMAIN W.at[k]}
      BY DEF Things
    <3>2. PICK i \in DOMAIN W.at[k] : x = <<k, i>>
      BY <3>1
    <3> DEFINE h == W.at[k][i].in
    <3>3. Entry(W, x).in = h
      BY <3>2 DEF Entry
    <3>4. W.at[k][i] \in Entries /\ FitsIn(W, k, h)
      BY <2>3 DEF Shape, Held
    <3>5. h \in Places
      BY <3>4 DEF Entries
    <3> HIDE DEF h
    <3>6. h = Limbo \/ h \in Things(W)
      <4>1. h = <<h[1], h[2]>> /\ h[1] \in Kinds
        BY <3>5 DEF Places
      <4> QED BY <3>4, <4>1 DEF FitsIn, Things
    <3> QED BY <3>3, <3>6
  <2> QED BY <2>6, <2>7, <2>8, <2>9 DEF NumbersTrue
<1> QED BY <1>1, Invariance, PTL

\* No ID is given out that something in the game, or something in the files of the zone,
\* or the home of either, already has, crashes in the midst of STORE included
\* (zones.c:617, bootstrap.c:139).
THEOREM IdsCorrect == Spec => []IdsBelowCounter
<1>1. IInv => IdsBelowCounter
  <2> SUFFICES ASSUME IInv PROVE IdsBelowCounter
    OBVIOUS
  <2>1. PICK f \in [Nat -> Kinds] : World(W, f, counter) /\ Disk(disk, f, saved)
    BY DEF IInv
  <2>2. saved \in Nat /\ counter \in Nat /\ IdStart <= saved /\ saved <= counter /\ IdStart \in Nat
    BY Sizes DEF IInv
  <2>3. W.table = table /\ Tabled(W) /\ Ids(W, f, counter)
    BY <2>1 DEF W, World
  <2>4. ASSUME NEW n \in DOMAIN table
        PROVE  n < counter
    <3>1. PICK k \in Kinds : \E i \in DOMAIN W.at[k] : i >= Const[k] /\ n = W.at[k][i].id
      BY <2>3 DEF Tabled
    <3>2. n \in IdStart .. counter - 1
      BY <2>3, <3>1 DEF Ids
    <3> QED BY <2>2, <3>2
  <2>5. ASSUME NEW k \in Kinds, NEW r \in disk[k]
        PROVE  r.id < saved /\ r.home[2] < saved
    <3>1. r.home \in Places /\ r.occ \in BOOLEAN /\ r.id \in IdStart .. saved - 1 /\ HomeOK(f, saved, k, r.id, r.home)
      BY <2>1 DEF Disk
    <3> DEFINE h == r.home
    <3>2. h \in Places /\ HomeOK(f, saved, k, r.id, h)
      BY <3>1
    <3> HIDE DEF h
    <3>3. h[1] \in Kinds /\ h[2] \in Int
      BY <3>2 DEF Places
    <3>4. h[2] < saved
      <4>1. CASE h = Limbo
        BY <2>2, <4>1 DEF Limbo
      <4>2. CASE h[2] \in 0 .. Const[h[1]] - 1
        <5>1. Const[h[1]] \in Nat /\ Const[h[1]] <= IdStart
          BY <3>3, Sizes
        <5> QED BY <2>2, <3>3, <4>2, <5>1
      <4>3. CASE h[2] \in IdStart .. saved - 1
        BY <2>2, <3>3, <4>3
      <4> QED BY <3>2, <4>1, <4>2, <4>3 DEF HomeOK
    <3> QED BY <2>2, <3>1, <3>4 DEF h
  <2> QED BY <2>2, <2>4, <2>5 DEF IdsBelowCounter, StoredIds
<1> QED BY <1>1, Invariance, PTL

-----------------------------------------------------------------------------
\* Either the numbers are moved up and all tables follow, or the server hangs.
LEMMA Destroyed ==
  ASSUME NEW f, NEW c, World(W, f, c), c \in Nat,
         NEW k \in Kinds, NEW i \in DOMAIN at[k], DestructThing(k, i)
  PROVE  /\ Const[k] <= i /\ (k = "loc" => ~Inhabited(W, i))
         /\ \/ W' = W /\ stuck' = TRUE
            \/ /\ W' = Destructed(W, k, i) /\ zset' = W'.zset /\ World(W', f, c)
               /\ Renumbered(W, W', k, i) /\ UNCHANGED stuck
<1>1. ~Permanent(k, i) /\ Destroys(k, i) /\ (k = "loc" => ~Inhabited(W, i))
  BY DEF DestructThing, DestructObject, DestructMobile, DestructLocation
<1>2. W.at = at /\ Shape(W)
  BY DEF W, World
<1>3. i \in Nat
  BY <1>2, Numbered
<1>4. Const[k] <= i
  BY <1>1, <1>3, Sizes DEF Permanent
<1>5. World(Destructed(W, k, i), f, c) /\ Renumbered(W, Destructed(W, k, i), k, i)
  BY <1>2, <1>4, DestructedWorld
<1>6. CASE Becomes(Destructed(W, k, i)) /\ UNCHANGED stuck
  <2>1. W' = Destructed(W, k, i) /\ zset' = Destructed(W, k, i).zset
    BY <1>5, <1>6, BecomesIt DEF World
  <2> QED BY <1>1, <1>4, <1>5, <1>6, <2>1
<1>7. CASE UNCHANGED world /\ stuck' = TRUE
  <2>1. W' = W
    BY <1>7 DEF world, W
  <2> QED BY <1>1, <1>4, <1>7, <2>1
<1> QED BY <1>1, <1>6, <1>7 DEF Destroys

\* What a reset leaves in a set: what refuses, and what is spared or goes home.
Fine(w, keep, now, k, i) == Refuses(w, k, i) \/ (keep /\ (~w.at[k][i].temp \/ ~now))
GoneOver(w, sw) ==
  \A k \in Kinds : \A i \in w.zset[sw.zone][k] :
    \/ \A j \in 1 .. Len(sw.todo) : sw.todo[j] # k
    \/ k = Head(sw.todo) /\ i \notin sw.left
    => Fine(w, sw.keep, sw.now, k, i)
\* While a reset runs and does not hang, what it has gone over is as it should be.
Complete == sweep.on /\ ~stuck => GoneOver(W, sweep)

\* Something else may be destructed: what was left is left under its number.
LEMMA FineStays ==
  ASSUME NEW w, NEW v, NEW f, NEW c, World(w, f, c), World(v, f, c),
         NEW k \in Kinds, NEW i \in DOMAIN w.at[k], Const[k] <= i,
         k = "loc" => ~Inhabited(w, i), Renumbered(w, v, k, i),
         NEW g \in Kinds, NEW j \in DOMAIN v.at[g], ~(g = k /\ j = i),
         NEW keep, NEW now, Fine(w, keep, now, g, j)
  PROVE  Fine(v, keep, now, g, j)
<1>1. Was(w, k, i, g, j) = j
  BY DEF Was
<1>2. v.at[g][j].temp = w.at[g][j].temp
  BY <1>1 DEF Renumbered
<1>3. CASE g = "loc" /\ Inhabited(w, j)
  <2>1. PICK p \in 0 .. P - 1 : w.at["mob"][p].in = <<"loc", j>>
    BY <1>3 DEF Inhabited
  <2>2. "mob" \in Kinds /\ p \in Nat /\ p < Const["mob"] /\ Const["mob"] \in Nat
    BY Sizes DEF Kinds
  <2>3. p \in DOMAIN v.at["mob"]
    BY <2>2 DEF World, Shape
  <2>4. ~("mob" = k /\ p = i)
    BY <2>2
  <2>5. Was(w, k, i, "mob", p) = p
    BY <2>4 DEF Was
  <2>6. InGap(w, k, i, "mob", p) = <<"loc", j>>
    BY <1>3, <2>1, <2>4 DEF InGap
  <2>7. Now(w, k, i, <<"loc", j>>) = <<"loc", j>>
    <3>1. k = "loc" => j # Top(w, k)
      BY <1>3 DEF Renumbered, World, Shape
    <3> QED BY <3>1 DEF Now
  <2>8. v.at["mob"][p].in = <<"loc", j>>
    BY <2>2, <2>3, <2>5, <2>6, <2>7 DEF Renumbered
  <2> QED BY <1>3, <2>1, <2>8 DEF Fine, Refuses, Inhabited
<1>4. CASE ~(g = "loc" /\ Inhabited(w, j))
  BY <1>2, <1>4 DEF Fine, Refuses
<1> QED BY <1>3, <1>4

\* Something may go home.
LEMMA FineReset ==
  ASSUME NEW w, NEW f, NEW c, World(w, f, c), NEW k \in Kinds, NEW i \in DOMAIN w.at[k],
         ~Player(k, i), NEW g \in Kinds, NEW j \in DOMAIN w.at[g],
         NEW keep, NEW now, Fine(w, keep, now, g, j)
  PROVE  Fine(ResetThing(w, k, i), keep, now, g, j)
<1> DEFINE v == ResetThing(w, k, i)
<1>1. CASE k = "loc"
  BY <1>1 DEF ResetThing
<1>2. CASE k # "loc"
  <2> DEFINE e == [w.at[k][i] EXCEPT !.in = Find(w, w.at[k][i].home),
                                !.occ = w.at[k][i].occReset]
  <2>1. v = [w EXCEPT !.at[k][i] = e]
    BY <1>2 DEF ResetThing
  <2>2. Shape(w) /\ w.at[k][i] \in Entries
    BY DEF World, Shape
  <2>3. e.temp = w.at[k][i].temp
    BY <2>2 DEF Entries
  <2> HIDE DEF e, v
  <2>4. \A h \in Kinds : \A m \in DOMAIN w.at[h] :
          v.at[h][m] = IF h = k /\ m = i THEN e ELSE w.at[h][m]
    BY <2>1, <2>2 DEF Shape
  <2>5. v.at[g][j].temp = w.at[g][j].temp
    BY <2>3, <2>4
  <2>6. \A p \in 0 .. P - 1 : v.at["mob"][p].in = w.at["mob"][p].in
    <3>1. ASSUME NEW p \in 0 .. P - 1
          PROVE  v.at["mob"][p].in = w.at["mob"][p].in
      <4>1. "mob" \in Kinds /\ p \in Nat /\ p < Const["mob"] /\ Const["mob"] \in Nat
        BY Sizes DEF Kinds
      <4>2. p \in DOMAIN w.at["mob"]
        BY <2>2, <4>1 DEF Shape
      <4>3. ~("mob" = k /\ p = i)
        BY Sizes DEF Player
      <4> QED BY <2>4, <4>1, <4>2, <4>3
    <3> QED BY <3>1
  <2>7. Refuses(v, g, j) = Refuses(w, g, j)
    BY <2>6 DEF Refuses, Inhabited
  <2> QED BY <2>5, <2>7 DEF Fine, v
<1> QED BY <1>1, <1>2

\* At the start of a reset no set has been gone over.
LEMMA CompleteStarts ==
  ASSUME NEW w, NEW sw, sw.todo \in {<<"mob", "obj", "loc">>, <<"obj", "mob", "loc">>},
         sw.left = w.zset[sw.zone][Head(sw.todo)]
  PROVE  GoneOver(w, sw)
<1>1. \A k \in Kinds : \E j \in 1 .. Len(sw.todo) : sw.todo[j] = k
  <2>1. CASE sw.todo = <<"mob", "obj", "loc">>
    BY <2>1 DEF Kinds
  <2>2. CASE sw.todo = <<"obj", "mob", "loc">>
    BY <2>2 DEF Kinds
  <2> QED BY <2>1, <2>2
<1> QED BY <1>1 DEF GoneOver

\* An element less to go over, and it may stay.
LEMMA CompletePassed ==
  ASSUME NEW f, World(W, f, counter), sweep.on, sweep.zone \in Zones, SweepKind \in Kinds,
         NEW i, Fine(W', sweep.keep, sweep.now, SweepKind, i), GoneOver(W, sweep),
         zset' = zset, DOMAIN sweep = Fields, Passed(i),
         \A g \in Kinds : \A j \in zset[sweep.zone][g] :
           Fine(W, sweep.keep, sweep.now, g, j) => Fine(W', sweep.keep, sweep.now, g, j)
  PROVE  GoneOver(W', sweep')
<1> DEFINE l == sweep.left \ {i}
<1>1. sweep' = [sweep EXCEPT !.left = l, !.again = {}]
  BY DEF Passed
<1>2. l = sweep.left \ {i}
  OBVIOUS
<1> HIDE DEF l
<1>3. /\ sweep'.zone = sweep.zone /\ sweep'.todo = sweep.todo /\ sweep'.left = l
      /\ sweep'.keep = sweep.keep /\ sweep'.now = sweep.now
  BY <1>1, GoesOn
<1>4. W.zset = zset /\ W'.zset = zset
  BY DEF W
<1> QED BY <1>2, <1>3, <1>4 DEF GoneOver, SweepKind

\* An element goes home, stays, or is destructed and another may take its number.
LEMMA CompleteStep == IInv /\ Complete /\ SweepStep => Complete'
<1> SUFFICES ASSUME IInv, Complete, SweepStep, sweep'.on, ~stuck' PROVE GoneOver(W', sweep')
  BY DEF Complete
<1>1. PICK f \in [Nat -> Kinds] : World(W, f, counter)
  BY DEF IInv
<1> DEFINE k == SweepKind
           z == sweep.zone
<1>2. /\ DOMAIN sweep = Fields /\ sweep.on /\ ~stuck /\ z \in Zones
      /\ sweep.todo \in Seq(Kinds) /\ sweep.todo # << >>
      /\ sweep.left \subseteq zset[z][k] /\ sweep.again \subseteq sweep.left
      /\ counter \in Nat
  BY DEF IInv, Sweeping, SweepStep, Idle, SweepKind
<1>3. k \in Kinds /\ k = Head(sweep.todo) /\ GoneOver(W, sweep)
  BY <1>2 DEF SweepKind, Complete
<1>4. W.at = at /\ W.zset = zset /\ W'.at = at' /\ W'.zset = zset' /\ Shape(W) /\ Zoned(W)
  BY <1>1 DEF W, World
<1>5. PICK i \in Current :
        \/ Resets(k, i) /\ Becomes(ResetThing(W, k, i)) /\ Passed(i)
        \/ ~Resets(k, i) /\ (Spared(k, i) \/ Refuses(W, k, i)) /\ Passed(i) /\ UNCHANGED world
        \/ DestructThing(k, i) /\ Onward(i)
  BY DEF SweepStep
<1> HIDE DEF k, z
<1>6. i \in sweep.left /\ i \in zset[z][k] /\ i \in DOMAIN at[k] /\ at[k][i].zone = z /\ ~Player(k, i)
  <2>1. i \in sweep.left
    BY <1>2 DEF Current
  <2>2. zset[z][k] = {j \in DOMAIN at[k] : at[k][j].zone = z /\ ~Player(k, j)}
    BY <1>2, <1>3, <1>4 DEF Zoned
  <2> QED BY <1>2, <2>1, <2>2
<1>7. \A g \in Kinds : \A j \in zset[z][g] : j \in DOMAIN at[g]
  BY <1>2, <1>4 DEF Zoned
<1>8. CASE Resets(k, i) /\ Becomes(ResetThing(W, k, i)) /\ Passed(i)
  <2>1. ~at[k][i].temp /\ sweep.keep
    BY <1>8 DEF Resets
  <2>2. World(ResetThing(W, k, i), f, counter) /\ ResetThing(W, k, i).zset = zset
    BY <1>1, <1>2, <1>3, <1>4, <1>6, <2>1, ResetWorld
  <2>3. W' = ResetThing(W, k, i) /\ zset' = zset
    BY <1>8, <2>2, BecomesIt DEF World
  <2>4. \A g \in Kinds : \A j \in zset[z][g] :
          Fine(W, sweep.keep, sweep.now, g, j) => Fine(W', sweep.keep, sweep.now, g, j)
    BY <1>1, <1>3, <1>4, <1>6, <1>7, <2>3, FineReset
  <2>5. Fine(W, sweep.keep, sweep.now, k, i)
    BY <1>4, <2>1 DEF Fine
  <2>6. Fine(W', sweep.keep, sweep.now, k, i)
    BY <1>3, <1>6, <2>4, <2>5
  <2> QED BY <1>1, <1>2, <1>3, <1>8, <2>3, <2>4, <2>6, CompletePassed DEF k, z
<1>9. CASE ~Resets(k, i) /\ (Spared(k, i) \/ Refuses(W, k, i)) /\ Passed(i) /\ UNCHANGED world
  <2>1. W' = W /\ zset' = zset
    BY <1>9 DEF world, W
  <2>2. Fine(W', sweep.keep, sweep.now, k, i)
    BY <1>4, <1>9, <2>1 DEF Fine, Spared
  <2> QED BY <1>1, <1>2, <1>3, <1>9, <2>1, <2>2, CompletePassed DEF k, z
<1>10. CASE DestructThing(k, i) /\ Onward(i)
  <2>1. /\ Const[k] <= i /\ (k = "loc" => ~Inhabited(W, i))
        /\ zset' = W'.zset /\ World(W', f, counter) /\ Renumbered(W, W', k, i)
    BY <1>1, <1>2, <1>3, <1>4, <1>6, <1>10, Destroyed
  <2> DEFINE m == sweep.left \cap zset'[z][k]
             l == IF Reused(W, k, i) THEN m ELSE m \ {i}
             a == IF Reused(W, k, i) THEN {i} ELSE {}
  <2>2. sweep' = [sweep EXCEPT !.left = l, !.again = a]
    <3>1. CASE Reused(W, k, i)
      BY <1>10, <3>1 DEF Onward, k, z
    <3>2. CASE ~Reused(W, k, i)
      BY <1>10, <3>2 DEF Onward, k, z
    <3> QED BY <3>1, <3>2
  <2>3. \A j : j \in zset'[z][k] /\ j \notin l => j \notin sweep.left \/ (j = i /\ ~Reused(W, k, i))
    OBVIOUS
  <2> HIDE DEF l, a
  <2>4. /\ sweep'.zone = z /\ sweep'.todo = sweep.todo /\ sweep'.left = l
        /\ sweep'.keep = sweep.keep /\ sweep'.now = sweep.now
    BY <1>2, <2>2, GoesOn DEF z
  <2>5. ASSUME NEW g \in Kinds, NEW j \in zset'[z][g]
        PROVE  /\ j \in DOMAIN at'[g] /\ at'[g][j].zone = z /\ ~Player(g, j)
               /\ ~(g = k /\ j = i) => j \in zset[z][g]
    <3>1. Zoned(W')
      BY <2>1 DEF World
    <3>2. j \in DOMAIN at'[g] /\ at'[g][j].zone = z /\ ~Player(g, j)
      BY <1>2, <1>4, <2>5, <3>1 DEF Zoned
    <3>3. ASSUME ~(g = k /\ j = i)
          PROVE  j \in zset[z][g]
      <4>1. Was(W, k, i, g, j) = j
        BY <3>3 DEF Was
      <4>2. j \in DOMAIN at[g] /\ at[g][j].zone = z
        BY <1>4, <2>1, <3>2, <4>1 DEF Renumbered
      <4> QED BY <1>2, <1>4, <3>2, <4>2 DEF Zoned
    <3> QED BY <3>2, <3>3
  <2>6. i \in zset'[z][k] => Reused(W, k, i)
    <3> SUFFICES ASSUME i \in zset'[z][k] PROVE Reused(W, k, i)
      OBVIOUS
    <3>1. i \in DOMAIN at'[k] /\ at'[k][i].zone = z
      BY <1>3, <2>5
    <3>2. i # Top(W, k) /\ at'[k][i].zone = at[k][Top(W, k)].zone
      BY <1>3, <1>4, <2>1, <3>1 DEF Renumbered, Was
    <3> QED BY <1>4, <1>6, <3>1, <3>2 DEF Reused
  <2>7. ASSUME NEW g \in Kinds, NEW j \in zset'[z][g],
               \/ \A h \in 1 .. Len(sweep.todo) : sweep.todo[h] # g
               \/ g = k /\ j \notin l
        PROVE  Fine(W', sweep.keep, sweep.now, g, j)
    <3>1. ~(g = k /\ j = i)
      <4>1. ASSUME \A h \in 1 .. Len(sweep.todo) : sweep.todo[h] # g
            PROVE  g # k
        BY <1>2, <1>3, <4>1
      <4>2. ASSUME j \notin l, g = k
            PROVE  j # i
        BY <1>6, <2>3, <2>6, <2>7, <4>2
      <4> QED BY <2>7, <4>1, <4>2
    <3>2. j \in zset[z][g] /\ (g = k /\ j \notin l => j \notin sweep.left)
      BY <2>3, <2>5, <2>7, <3>1
    <3>3. Fine(W, sweep.keep, sweep.now, g, j)
      BY <1>3, <1>4, <2>7, <3>2 DEF GoneOver, z
    <3>4. j \in DOMAIN W'.at[g]
      BY <1>4, <2>5, <2>7
    <3> QED BY <1>1, <1>3, <1>4, <1>6, <2>1, <3>1, <3>3, <3>4, FineStays
  <2> QED BY <1>3, <1>4, <2>4, <2>7 DEF GoneOver
<1> QED BY <1>5, <1>8, <1>9, <1>10

\* What has been gone over stays fit to be left, whatever the reset still does.
LEMMA CompleteInductive == IInv /\ Complete /\ [Next]_vars => Complete'
<1> SUFFICES ASSUME IInv, Complete, [Next]_vars PROVE Complete'
  OBVIOUS
<1>1. CASE Command /\ UNCHANGED sweep
  BY <1>1 DEF Complete, Command
<1>2. CASE sweep' = Idle
  BY <1>2 DEF Complete, Idle
<1>3. CASE Load
  <2>1. PICK known \in BOOLEAN :
          sweep' = [on |-> TRUE, zone |-> 1, keep |-> known, now |-> FALSE,
                    todo |-> IF known THEN <<"mob", "obj", "loc">> ELSE <<"obj", "mob", "loc">>,
                    left |-> zset'[1][IF known THEN "mob" ELSE "obj"], again |-> {}]
    BY <1>3 DEF Load
  <2>2. /\ sweep'.todo \in {<<"mob", "obj", "loc">>, <<"obj", "mob", "loc">>}
        /\ sweep'.left = W'.zset[sweep'.zone][Head(sweep'.todo)]
    BY <2>1, Orders DEF W
  <2> QED BY <2>2, CompleteStarts DEF Complete
<1>4. CASE Reset
  <2>1. PICK z \in Zones : \E known \in BOOLEAN :
          LET keep == Kept(z, known) IN
          sweep' = [on |-> TRUE, zone |-> z, keep |-> keep, now |-> TRUE,
                    todo |-> IF keep THEN <<"mob", "obj", "loc">> ELSE <<"obj", "mob", "loc">>,
                    left |-> zset[z][IF keep THEN "mob" ELSE "obj"], again |-> {}]
    BY <1>4 DEF Reset
  <2>2. PICK known \in BOOLEAN :
          LET keep == Kept(z, known) IN
          sweep' = [on |-> TRUE, zone |-> z, keep |-> keep, now |-> TRUE,
                    todo |-> IF keep THEN <<"mob", "obj", "loc">> ELSE <<"obj", "mob", "loc">>,
                    left |-> zset[z][IF keep THEN "mob" ELSE "obj"], again |-> {}]
    BY <2>1
  <2>3. W'.zset = zset
    BY <1>4 DEF Reset, world, W
  <2> DEFINE keep == Kept(z, known)
  <2> HIDE DEF keep
  <2>4. /\ sweep'.todo \in {<<"mob", "obj", "loc">>, <<"obj", "mob", "loc">>}
        /\ sweep'.left = W'.zset[sweep'.zone][Head(sweep'.todo)]
    BY <2>2, <2>3, Orders DEF keep
  <2> QED BY <2>4, CompleteStarts DEF Complete
<1>5. CASE SweepStep
  BY <1>5, CompleteStep
<1>6. CASE SweepNext
  <2> DEFINE t == Tail(sweep.todo)
             l == zset[sweep.zone][sweep.todo[2]]
  <2>1. /\ DOMAIN sweep = Fields /\ sweep.on /\ ~stuck /\ sweep.left = {}
        /\ sweep.todo \in Seq(Kinds) /\ Len(sweep.todo) > 1
        /\ sweep' = [sweep EXCEPT !.todo = t, !.left = l] /\ GoneOver(W, sweep)
    BY <1>6 DEF IInv, Sweeping, SweepNext, Idle, Complete
  <2>2. W' = W /\ W.zset = zset
    BY <1>6 DEF SweepNext, world, W
  <2>3. /\ Head(t) = sweep.todo[2]
        /\ \A g \in Kinds : (\A j \in 1 .. Len(t) : t[j] # g)
             => g = Head(sweep.todo) \/ \A j \in 1 .. Len(sweep.todo) : sweep.todo[j] # g
    <3> DEFINE q == sweep.todo
    <3>1. q \in Seq(Kinds) /\ Len(q) > 1
      BY <2>1
    <3> HIDE DEF q
    <3>2. Len(q) \in Nat /\ Head(q) = q[1]
      BY <3>1
    <3> DEFINE r == Tail(q)
    <3>3. r \in Seq(Kinds) /\ Len(r) = Len(q) - 1 /\ \A j \in 1 .. Len(q) - 1 : r[j] = q[j + 1]
      BY <3>1, <3>2
    <3> HIDE DEF r
    <3>4. Head(r) = q[2]
      <4>1. Head(r) = r[1]
        BY <3>1, <3>2, <3>3
      <4> QED BY <3>1, <3>2, <3>3, <4>1
    <3>5. ASSUME NEW g \in Kinds, \A j \in 1 .. Len(r) : r[j] # g, g # Head(q),
                 NEW j \in 1 .. Len(q)
          PROVE  q[j] # g
      <4>1. CASE j = 1
        BY <3>2, <3>5, <4>1
      <4>2. CASE j # 1
        <5>1. j - 1 \in 1 .. Len(r) /\ r[j - 1] = q[j]
          BY <3>2, <3>3, <4>2
        <5> QED BY <3>5, <5>1
      <4> QED BY <4>1, <4>2
    <3> QED BY <3>4, <3>5 DEF q, r
  <2> HIDE DEF t
  <2>4. l = zset[sweep.zone][Head(t)]
    BY <2>3
  <2> HIDE DEF l
  <2>5. /\ sweep'.zone = sweep.zone /\ sweep'.todo = t /\ sweep'.left = l
        /\ sweep'.keep = sweep.keep /\ sweep'.now = sweep.now
    BY <2>1, GoesOn
  <2> QED BY <2>1, <2>2, <2>3, <2>4, <2>5 DEF GoneOver, Complete
<1>7. CASE UNCHANGED vars
  BY <1>7 DEF vars, Complete, GoneOver, Fine, Refuses, Inhabited, W
<1> QED
  BY <1>1, <1>2, <1>3, <1>4, <1>5, <1>6, <1>7
  DEF Next, Carry, Goto, Alias, Unalias, Clone, Found, Cloned, CloneLocation, CloneMobile,
      CloneObject, Destruct, Store, CrashInStore, Crash, Restart, SweepEnd

\* After a reset nothing is left that should have gone: none is passed over while others
\* take its number (zones.c:155).
THEOREM ResetCorrect == Spec => ResetComplete
<1>1. Init => Complete
  BY DEF Init, Complete, Idle
<1>2. IInv /\ Complete /\ [Next]_vars =>
        [SweepEnd => \A k \in Kinds : \A i \in zset[sweep.zone][k] :
           Refuses(W, k, i) \/ (sweep.keep /\ (~at[k][i].temp \/ ~sweep.now))]_vars
  <2> SUFFICES ASSUME IInv, Complete, SweepEnd, NEW k \in Kinds, NEW i \in zset[sweep.zone][k]
               PROVE  Refuses(W, k, i) \/ (sweep.keep /\ (~at[k][i].temp \/ ~sweep.now))
    OBVIOUS
  <2>1. /\ sweep.left = {} /\ Len(sweep.todo) = 1 /\ sweep.todo \in Seq(Kinds)
        /\ GoneOver(W, sweep) /\ W.zset = zset /\ W.at = at
    BY DEF SweepEnd, Complete, IInv, Sweeping, Idle, W
  <2>2. Head(sweep.todo) = sweep.todo[1]
    BY <2>1
  <2>3. Fine(W, sweep.keep, sweep.now, k, i)
    BY <2>1, <2>2 DEF GoneOver
  <2> QED BY <2>1, <2>3 DEF Fine
<1> QED BY <1>1, <1>2, CompleteInductive, Invariance, PTL DEF Spec, ResetComplete

-----------------------------------------------------------------------------
\* No two things have the same identity.
LEMMA NamesDiffer ==
  ASSUME NEW w, NEW f, NEW c, World(w, f, c), c \in Nat,
         NEW x \in Things(w), NEW y \in Things(w) \cup {Limbo}
  PROVE  /\ x # Limbo /\ Name(w, x) # Limbo
         /\ Name(w, x) = Name(w, y) => x = y
<1>1. ASSUME NEW z \in Things(w)
      PROVE  /\ z = <<z[1], z[2]>> /\ z[1] \in Kinds /\ z[2] \in DOMAIN w.at[z[1]]
             /\ z[2] \in Nat /\ w.at[z[1]][z[2]].id \in Nat
             /\ z # Limbo /\ Name(w, z) = <<z[1], w.at[z[1]][z[2]].id>>
  <2>1. PICK k \in Kinds : \E i \in DOMAIN w.at[k] : z = <<k, i>>
    BY <1>1 DEF Things
  <2>2. PICK i \in DOMAIN w.at[k] : z = <<k, i>>
    BY <2>1
  <2>3. i \in Nat /\ w.at[k][i] \in Entries
    BY DEF World, Shape
  <2>4. w.at[k][i].id \in Nat
    BY <2>3 DEF Entries
  <2>5. z # Limbo
    BY <2>2, <2>3 DEF Limbo
  <2> QED BY <2>2, <2>3, <2>4, <2>5 DEF Name, Entry
<1>2. x # Limbo /\ Name(w, x) # Limbo
  BY <1>1 DEF Limbo
<1>3. ASSUME y \in Things(w), Name(w, x) = Name(w, y)
      PROVE  x = y
  <2> DEFINE k == x[1]
             i == x[2]
             j == y[2]
  <2>1. /\ k \in Kinds /\ i \in DOMAIN w.at[k] /\ i \in Nat
        /\ x = <<k, i>> /\ y = <<k, j>> /\ j \in DOMAIN w.at[k] /\ j \in Nat
        /\ w.at[k][i].id = w.at[k][j].id
    <3>1. x[1] = y[1] /\ w.at[x[1]][x[2]].id = w.at[y[1]][y[2]].id
      BY <1>1, <1>3
    <3> QED BY <1>1, <1>3, <3>1
  <2> HIDE DEF k, i, j
  <2>2. /\ Const[k] \in Nat /\ Const[k] <= IdStart /\ IdStart \in Nat
    BY <2>1, Sizes
  <2>3. \A m \in DOMAIN w.at[k] :
          /\ m \in Nat /\ m < Const[k] => w.at[k][m].id = m
          /\ m >= Const[k] => w.at[k][m].id >= IdStart /\ w.table[w.at[k][m].id] = m
    <3>1. \A m \in DOMAIN w.at[k] : m \in Nat /\ m < Const[k] => m \in 0 .. Const[k] - 1
      BY <2>2
    <3>2. \A m \in DOMAIN w.at[k] : m \in Nat /\ m < Const[k] => w.at[k][m].id = m
      BY <2>1, <3>1 DEF World, Permanents
    <3>3. \A m \in DOMAIN w.at[k] : m >= Const[k] => w.at[k][m].id \in IdStart .. c - 1
      BY <2>1 DEF World, Ids
    <3>4. \A m \in DOMAIN w.at[k] : m >= Const[k] => w.table[w.at[k][m].id] = m
      BY <2>1 DEF World, Tabled
    <3> QED BY <2>2, <3>2, <3>3, <3>4
  <2>4. i = j
    <3>1. CASE i < Const[k] /\ j < Const[k]
      BY <2>1, <2>3, <3>1
    <3>2. CASE i >= Const[k] /\ j >= Const[k]
      BY <2>1, <2>3, <3>2
    <3>3. CASE i < Const[k] /\ j >= Const[k]
      BY <2>1, <2>2, <2>3, <3>3
    <3>4. CASE i >= Const[k] /\ j < Const[k]
      BY <2>1, <2>2, <2>3, <3>4
    <3> QED BY <2>1, <2>2, <3>1, <3>2, <3>3, <3>4
  <2> QED BY <2>1, <2>4
<1>4. ASSUME y = Limbo, Name(w, x) = Name(w, y)
      PROVE  FALSE
  BY <1>2, <1>4 DEF Name
<1> QED BY <1>2, <1>3, <1>4

\* An identity leads back to the thing that has it.
CalledIn(w, n) == CHOOSE x \in Things(w) : Name(w, x) = n
PlaceIn(w, n) == Name(w, Entry(w, CalledIn(w, n)).in)
NamesIn(w) == {Name(w, x) : x \in Things(w)}
LEMMA CalledSo ==
  ASSUME NEW w, NEW f, NEW c, World(w, f, c), c \in Nat, NEW x \in Things(w)
  PROVE  CalledIn(w, Name(w, x)) = x
<1>1. \A y \in Things(w) : Name(w, y) = Name(w, x) => y = x
  BY NamesDiffer
<1> QED BY <1>1 DEF CalledIn

\* Whatever there is after a destruction was there before, under the number Old.
Old(w, k, i, x) == <<x[1], Was(w, k, i, x[1], x[2])>>
LEMMA NamesKept ==
  ASSUME NEW w, NEW v, NEW f, NEW c, World(w, f, c), World(v, f, c), c \in Nat,
         NEW k \in Kinds, NEW i \in DOMAIN w.at[k], Renumbered(w, v, k, i),
         NEW x \in Things(v)
  PROVE  LET o == Old(w, k, i, x) IN
         /\ o \in Things(w) /\ o # <<k, i>> /\ Name(v, x) = Name(w, o)
         /\ Entry(v, x).in = Now(w, k, i, InGap(w, k, i, o[1], o[2]))
         /\ x # Limbo
<1>1. PICK g \in Kinds : \E j \in DOMAIN v.at[g] : x = <<g, j>>
  BY DEF Things
<1>2. PICK j \in DOMAIN v.at[g] : x = <<g, j>>
  BY <1>1
<1> DEFINE o == Was(w, k, i, g, j)
<1>3. /\ o \in DOMAIN w.at[g] /\ (g = k => o # i) /\ v.at[g][j].id = w.at[g][o].id
      /\ v.at[g][j].in = Now(w, k, i, InGap(w, k, i, g, o))
  BY DEF Renumbered
<1> HIDE DEF o
<1>4. <<g, o>> \in Things(w)
  BY <1>3 DEF Things
<1>5. x # Limbo /\ <<g, o>> # Limbo
  BY <1>4, NamesDiffer
<1> QED BY <1>2, <1>3, <1>4, <1>5 DEF Name, Entry, Old, o

\* Whatever else there was is there, under the number Now.
LEMMA NumbersKept ==
  ASSUME NEW w, NEW v, NEW f, NEW c, World(w, f, c), World(v, f, c), c \in Nat,
         NEW k \in Kinds, NEW i \in DOMAIN w.at[k], Renumbered(w, v, k, i),
         NEW y \in Things(w) \cup {Limbo}, y # <<k, i>>
  PROVE  /\ Now(w, k, i, y) \in Things(v) \cup {Limbo}
         /\ Name(v, Now(w, k, i, y)) = Name(w, y)
         /\ y # Limbo => Now(w, k, i, y) \in Things(v)
<1>0. /\ Top(w, k) \in Nat /\ DOMAIN w.at[k] = 0 .. Top(w, k) /\ i \in 0 .. Top(w, k)
      /\ Limbo # <<k, Top(w, k)>> /\ <<k, i>> \in Things(w)
  <2>1. Top(w, k) \in Nat /\ DOMAIN w.at[k] = 0 .. Top(w, k)
    BY DEF World, Shape
  <2>2. Limbo # <<k, Top(w, k)>>
    BY <2>1 DEF Limbo
  <2> QED BY <2>1, <2>2 DEF Things
<1>1. CASE y = Limbo
  BY <1>0, <1>1 DEF Now, Name
<1>2. CASE y # Limbo
  <2>1. PICK g \in Kinds : \E j \in DOMAIN w.at[g] : y = <<g, j>>
    BY <1>2 DEF Things
  <2>2. PICK j \in DOMAIN w.at[g] : y = <<g, j>>
    BY <2>1
  <2> DEFINE n == IF g = k /\ j = Top(w, k) THEN i ELSE j
  <2>3. Now(w, k, i, y) = <<g, n>>
    BY <2>2 DEF Now
  <2>4. n \in DOMAIN v.at[g] /\ Was(w, k, i, g, n) = j
    BY <1>0, <2>2 DEF Renumbered, Was
  <2> HIDE DEF n
  <2>5. <<g, n>> \in Things(v)
    BY <2>4 DEF Things
  <2>6. Old(w, k, i, <<g, n>>) = y
    BY <2>2, <2>4 DEF Old
  <2> QED BY <2>3, <2>5, <2>6, NamesKept
<1> QED BY <1>1, <1>2

\* One identity is gone.
LEMMA OneGone ==
  ASSUME NEW w, NEW v, NEW f, NEW c, World(w, f, c), World(v, f, c), c \in Nat,
         NEW k \in Kinds, NEW i \in DOMAIN w.at[k], Renumbered(w, v, k, i)
  PROVE  NamesIn(w) \ NamesIn(v) = {Name(w, <<k, i>>)} /\ <<k, i>> \in Things(w)
<1>0. <<k, i>> \in Things(w)
  BY DEF Things
<1>1. Name(w, <<k, i>>) \in NamesIn(w)
  BY <1>0 DEF NamesIn
<1>2. ASSUME Name(w, <<k, i>>) \in NamesIn(v)
      PROVE  FALSE
  <2>1. PICK x \in Things(v) : Name(v, x) = Name(w, <<k, i>>)
    BY <1>2 DEF NamesIn
  <2> DEFINE o == Old(w, k, i, x)
  <2>2. o \in Things(w) /\ o # <<k, i>> /\ Name(v, x) = Name(w, o)
    BY <2>1, NamesKept
  <2> HIDE DEF o
  <2> QED BY <1>0, <2>1, <2>2, NamesDiffer
<1>3. ASSUME NEW y \in Things(w), y # <<k, i>>
      PROVE  Name(w, y) \in NamesIn(v)
  <2>1. y # Limbo
    BY NamesDiffer
  <2> QED BY <1>3, <2>1, NumbersKept DEF NamesIn
<1> QED BY <1>1, <1>2, <1>3 DEF NamesIn

\* A step that destructs leaves another world, and it is that of the code.
LEMMA Lost ==
  ASSUME IInv, Loses
  PROVE  \E f \in [Nat -> Kinds] : \E k \in Kinds : \E i \in DOMAIN W.at[k] :
           /\ World(W, f, counter) /\ World(W', f, counter) /\ counter \in Nat
           /\ Const[k] <= i /\ W' = Destructed(W, k, i) /\ Renumbered(W, W', k, i)
<1>1. PICK f \in [Nat -> Kinds] : World(W, f, counter)
  BY DEF IInv
<1>2. counter \in Nat /\ W.at = at /\ W.table = table /\ W'.table = table'
  BY DEF IInv, W
<1>3. \E k \in Kinds : \E i \in DOMAIN at[k] : DestructThing(k, i)
  <2>1. CASE Destruct
    BY <2>1 DEF Destruct
  <2>2. CASE SweepStep
    <3> DEFINE k == SweepKind
    <3>1. /\ sweep.zone \in Zones /\ sweep.todo \in Seq(Kinds) /\ sweep.todo # << >>
          /\ sweep.left \subseteq zset[sweep.zone][k] /\ sweep.again \subseteq sweep.left
      BY <2>2 DEF IInv, Sweeping, SweepStep, Idle, SweepKind
    <3>2. k \in Kinds
      BY <3>1 DEF SweepKind
    <3>3. PICK i \in Current :
            \/ Becomes(ResetThing(W, k, i))
            \/ UNCHANGED world
            \/ DestructThing(k, i)
      BY <2>2 DEF SweepStep
    <3> HIDE DEF k
    <3>4. i \in DOMAIN at[k]
      <4>1. i \in zset[sweep.zone][k]
        BY <3>1 DEF Current
      <4>2. W.zset = zset /\ Zoned(W)
        BY <1>1 DEF W, World
      <4> QED BY <1>2, <3>1, <3>2, <4>1, <4>2 DEF Zoned
    <3>5. CASE Becomes(ResetThing(W, k, i))
      <4>1. ResetThing(W, k, i).table = W.table
        BY DEF ResetThing, W
      <4> QED BY <1>2, <3>5, <4>1 DEF Becomes, Loses
    <3>6. CASE UNCHANGED world
      BY <3>6 DEF world, Loses
    <3> QED BY <3>2, <3>3, <3>4, <3>5, <3>6
  <2> QED BY <2>1, <2>2 DEF Loses
<1>4. PICK k \in Kinds : \E i \in DOMAIN at[k] : DestructThing(k, i)
  BY <1>3
<1>5. PICK i \in DOMAIN at[k] : DestructThing(k, i)
  BY <1>4
<1>6. W' # W
  BY <1>2 DEF Loses
<1>7. /\ Const[k] <= i /\ W' = Destructed(W, k, i) /\ World(W', f, counter)
      /\ Renumbered(W, W', k, i)
  BY <1>1, <1>2, <1>5, <1>6, Destroyed
<1> QED BY <1>1, <1>2, <1>5, <1>7

\* Where everything is after a destruction, by its identity.
LEMMA OthersStayed ==
  ASSUME NEW w, NEW v, NEW f, NEW c, World(w, f, c), World(v, f, c), c \in Nat,
         NEW k \in Kinds, NEW i \in DOMAIN w.at[k], Renumbered(w, v, k, i),
         NEW n \in NamesIn(v)
  PROVE  PlaceIn(v, n) = IF PlaceIn(w, n) \in NamesIn(w) \ NamesIn(v)
                         THEN Name(w, Spill(w, CalledIn(w, PlaceIn(w, n)))) ELSE PlaceIn(w, n)
<1>1. PICK x \in Things(v) : n = Name(v, x)
  BY DEF NamesIn
<1> DEFINE o == Old(w, k, i, x)
           h == Entry(w, o).in
<1>2. /\ o \in Things(w) /\ o # <<k, i>> /\ n = Name(w, o)
      /\ Entry(v, x).in = Now(w, k, i, InGap(w, k, i, o[1], o[2]))
  BY <1>1, NamesKept
<1>0. /\ \E g \in Kinds : \E j \in DOMAIN w.at[g] : o = <<g, j>>
      /\ o[1] \in Kinds
  BY <1>2 DEF Things
<1> HIDE DEF o
<1>3. InGap(w, k, i, o[1], o[2]) = IF h = <<k, i>> THEN Spill(w, <<k, i>>) ELSE h
  BY <1>0, <1>2 DEF InGap, Entry
<1>4. h \in Things(w) \cup {Limbo} /\ (h = <<k, i>> => k \in Holders[o[1]])
  <2>1. PICK g \in Kinds : \E j \in DOMAIN w.at[g] : o = <<g, j>>
    BY <1>0
  <2>2. PICK j \in DOMAIN w.at[g] : o = <<g, j>>
    BY <2>1
  <2>3. FitsIn(w, g, h) /\ h = w.at[g][j].in
    BY <2>2 DEF World, Held, Entry
  <2>4. w.at[g][j] \in Entries
    BY DEF World, Shape
  <2>5. h = <<h[1], h[2]>>
    BY <2>3, <2>4 DEF Entries, Places
  <2>6. Holders[g] \subseteq Kinds
    BY DEF Holders, Kinds
  <2>7. i \in Nat
    BY DEF World, Shape
  <2> QED BY <2>2, <2>3, <2>5, <2>6, <2>7 DEF FitsIn, Things, Limbo
<1> HIDE DEF h
<1>5. PlaceIn(w, n) = Name(w, h) /\ PlaceIn(v, n) = Name(v, Entry(v, x).in)
  <2>1. CalledIn(w, n) = o /\ CalledIn(v, n) = x
    BY <1>1, <1>2, CalledSo
  <2> QED BY <2>1 DEF PlaceIn, h
<1>6. NamesIn(w) \ NamesIn(v) = {Name(w, <<k, i>>)} /\ <<k, i>> \in Things(w)
  BY OneGone
<1>7. CASE h = <<k, i>>
  <2> DEFINE s == Spill(w, <<k, i>>)
  <2>1. s \in Things(w) \cup {Limbo} /\ s # <<k, i>>
    <3>1. s \in Places /\ s # <<k, i>> /\ (k \in Holders[o[1]] => FitsIn(w, o[1], s))
      BY <1>0, SpillFits
    <3>2. FitsIn(w, o[1], s)
      BY <1>4, <1>7, <3>1
    <3>3. Holders[o[1]] \subseteq Kinds
      BY <1>0 DEF Holders, Kinds
    <3> QED BY <3>1, <3>2, <3>3 DEF FitsIn, Things, Places
  <2> HIDE DEF s
  <2>2. Name(v, Now(w, k, i, s)) = Name(w, s)
    BY <2>1, NumbersKept
  <2>3. CalledIn(w, Name(w, <<k, i>>)) = <<k, i>>
    BY <1>6, CalledSo
  <2> QED BY <1>2, <1>3, <1>5, <1>6, <1>7, <2>2, <2>3 DEF s
<1>8. CASE h # <<k, i>>
  <2>1. Name(v, Now(w, k, i, h)) = Name(w, h)
    BY <1>4, <1>8, NumbersKept
  <2>2. Name(w, h) # Name(w, <<k, i>>)
    BY <1>4, <1>6, <1>8, NamesDiffer
  <2> QED BY <1>2, <1>3, <1>5, <1>6, <1>8, <2>1, <2>2
<1> QED BY <1>7, <1>8

\* Nothing is lost with the number of what was destructed, or found in what has got
\* that number (clone.c:280).
THEOREM OthersCorrect == Spec => OthersStay
<1>1. IInv /\ [Next]_vars =>
        [Loses =>
           LET gone == Names \ Names'
           IN \A n \in Names' :
               (Place(n))' = IF Place(n) \in gone THEN Scattered(Place(n)) ELSE Place(n)]_vars
  <2> SUFFICES ASSUME IInv, Loses, NEW n \in Names'
               PROVE  (Place(n))' = IF Place(n) \in Names \ Names'
                                    THEN Scattered(Place(n)) ELSE Place(n)
    OBVIOUS
  <2>1. /\ Names = NamesIn(W) /\ Names' = NamesIn(W')
        /\ Place(n) = PlaceIn(W, n) /\ (Place(n))' = PlaceIn(W', n)
        /\ \A h : Scattered(h) = Name(W, Spill(W, CalledIn(W, h)))
    BY DEF Names, NamesIn, Place, PlaceIn, Called, CalledIn, Scattered
  <2>2. PICK f \in [Nat -> Kinds] : \E k \in Kinds : \E i \in DOMAIN W.at[k] :
           /\ World(W, f, counter) /\ World(W', f, counter) /\ counter \in Nat
           /\ Renumbered(W, W', k, i)
    BY Lost
  <2>3. PICK k \in Kinds : \E i \in DOMAIN W.at[k] :
           /\ World(W, f, counter) /\ World(W', f, counter) /\ counter \in Nat
           /\ Renumbered(W, W', k, i)
    BY <2>2
  <2>4. PlaceIn(W', n) = IF PlaceIn(W, n) \in NamesIn(W) \ NamesIn(W')
                         THEN Name(W, Spill(W, CalledIn(W, PlaceIn(W, n)))) ELSE PlaceIn(W, n)
    BY <2>1, <2>3, OthersStayed
  <2> QED BY <2>1, <2>4
<1> QED BY <1>1, Invariance, PTL DEF Spec, OthersStay

\* Taking something out of the world touches no mark, and nobody but those in it.
LEMMA GapMarks ==
  ASSUME NEW w, Shape(w), NEW k \in Kinds, NEW i \in DOMAIN w.at[k]
  PROVE  LET v == Gap(w, k, i) IN
         /\ v.pretend = Unaliased(w, k, i).pretend
         /\ \A g \in Kinds : /\ DOMAIN v.at[g] = DOMAIN w.at[g]
                             /\ \A j \in DOMAIN w.at[g] : v.at[g][j].occ = w.at[g][j].occ
<1> DEFINE a == Unaliased(w, k, i)
           s == Spill(a, <<k, i>>)
           b == Swept(a, <<k, i>>, s)
           v == Moved(b, <<k, i>>, Limbo)
           e(g, j) == IF a.at[g][j].in = <<k, i>> THEN [a.at[g][j] EXCEPT !.in = s] ELSE a.at[g][j]
<1>0. Gap(w, k, i) = v
  BY DEF Gap, Emptied
<1>1. /\ a.at = w.at
      /\ a = [at |-> a.at, table |-> a.table, zset |-> a.zset, pretend |-> a.pretend]
  BY DEF Unaliased, Shape
<1> HIDE DEF a, s
<1>2. b = [a EXCEPT !.at = [g \in Kinds |-> [j \in DOMAIN a.at[g] |-> e(g, j)]]]
  BY DEF Swept
<1>3. \A g \in Kinds : \A j \in DOMAIN w.at[g] : e(g, j).occ = w.at[g][j].occ
  <2>1. \A g \in Kinds : \A j \in DOMAIN w.at[g] : w.at[g][j] \in Entries
    BY DEF Shape
  <2> QED BY <1>1, <2>1 DEF Entries
<1> HIDE DEF e
<1>4. /\ b.at = [g \in Kinds |-> [j \in DOMAIN w.at[g] |-> e(g, j)]]
      /\ b.pretend = a.pretend
      /\ b = [at |-> b.at, table |-> b.table, zset |-> b.zset, pretend |-> b.pretend]
  BY <1>1, <1>2
<1> HIDE DEF b
<1> DEFINE d == [e(k, i) EXCEPT !.in = Limbo]
<1>5. v = [b EXCEPT !.at = [b.at EXCEPT ![k] = [b.at[k] EXCEPT ![i] = d]]]
  BY <1>4 DEF Moved
<1>6. d.occ = w.at[k][i].occ
  <2>1. w.at[k][i] \in Entries
    BY DEF Shape
  <2>2. [w.at[k][i] EXCEPT !.in = s, !.in = Limbo].occ = w.at[k][i].occ
    BY <2>1 DEF Entries
  <2> QED BY <1>1, <2>1 DEF e, d, Entries
<1> HIDE DEF d
<1>7. /\ v.pretend = a.pretend
      /\ v.at = [b.at EXCEPT ![k] = [b.at[k] EXCEPT ![i] = d]]
  BY <1>4, <1>5
<1> HIDE DEF v
<1>8. \A g \in Kinds : /\ DOMAIN v.at[g] = DOMAIN w.at[g]
                       /\ \A j \in DOMAIN w.at[g] :
                            v.at[g][j] = IF g = k /\ j = i THEN d ELSE e(g, j)
  BY <1>4, <1>7
<1>9. \A g \in Kinds : /\ DOMAIN v.at[g] = DOMAIN w.at[g]
                       /\ \A j \in DOMAIN w.at[g] : v.at[g][j].occ = w.at[g][j].occ
  BY <1>3, <1>6, <1>8
<1> QED BY <1>0, <1>7, <1>9 DEF v, a

\* Who is found to be away in what is destructed comes back, who is found in the last
\* mobile is away in its new number, and all others keep theirs.
LEMMA PretendAfterwards ==
  ASSUME NEW w, Shape(w), NEW k \in Kinds, NEW i \in DOMAIN w.at[k], NEW p \in 0 .. P - 1
  PROVE  Destructed(w, k, i).pretend[p] =
           IF k = "mob" /\ p \in FindPretender(w, i) THEN NoOne
           ELSE IF k = "mob" /\ i # Top(w, k) /\ p \in FindPretender(w, Top(w, k)) THEN i
           ELSE w.pretend[p]
<1> DEFINE v == Gap(w, k, i)
           top == Top(w, k)
           back(q) == IF k = "mob" /\ q \in FindPretender(w, i) THEN NoOne ELSE w.pretend[q]
<1>1. /\ v.pretend = Unaliased(w, k, i).pretend
      /\ \A g \in Kinds : /\ DOMAIN v.at[g] = DOMAIN w.at[g]
                          /\ \A j \in DOMAIN w.at[g] : v.at[g][j].occ = w.at[g][j].occ
  BY GapMarks
<1>2. Destructed(w, k, i).pretend = PretendAfter(v, k, i)
  BY DEF Destructed, Filled, Swept
<1>3. \A q \in 0 .. P - 1 : v.pretend[q] = back(q)
  <2>1. CASE k # "mob"
    BY <1>1, <2>1 DEF Unaliased
  <2>2. CASE k = "mob"
    <3>1. Unaliased(w, k, i).pretend =
            [q \in 0 .. P - 1 |-> IF q \in FindPretender(w, i) THEN NoOne ELSE w.pretend[q]]
      BY <2>2 DEF Unaliased, Shape
    <3> QED BY <1>1, <2>2, <3>1
  <2> QED BY <2>1, <2>2
<1> HIDE DEF v
<1>4. /\ top \in Nat /\ DOMAIN w.at[k] = 0 .. top /\ i \in 0 .. top /\ NoOne = -1
      /\ "mob" \in Kinds
  BY DEF Shape, NoOne, Kinds
<1>5. Top(v, k) = top
  BY <1>1 DEF Top
<1> HIDE DEF top
<1>6. ASSUME k = "mob", i # top
      PROVE  FindPretender(v, top) = FindPretender(w, top)
  <2>1. ASSUME NEW q \in 0 .. P - 1
        PROVE  v.pretend[q] = top <=> w.pretend[q] = top
    <3>1. CASE q \in FindPretender(w, i)
      <4>1. w.pretend[q] = i
        BY <3>1 DEF FindPretender, Pretenders
      <4>2. v.pretend[q] = NoOne
        BY <1>3, <1>6, <3>1
      <4> QED BY <1>4, <1>6, <4>1, <4>2
    <3>2. CASE q \notin FindPretender(w, i)
      BY <1>3, <3>2
    <3> QED BY <3>1, <3>2
  <2>2. v.at["mob"][top].occ = w.at["mob"][top].occ
    BY <1>1, <1>4, <1>6
  <2>3. Pretenders(v, top) = Pretenders(w, top)
    BY <2>1, <2>2 DEF Pretenders
  <2> QED BY <2>3 DEF FindPretender
<1> HIDE DEF back
<1>7. PretendAfter(v, k, i)[p] =
        IF k = "mob" /\ i # top /\ p \in FindPretender(w, top) THEN i ELSE back(p)
  BY <1>3, <1>5, <1>6 DEF PretendAfter
<1>8. k = "mob" /\ p \in FindPretender(w, i) /\ p \in FindPretender(w, top) => i = top
  BY DEF FindPretender, Pretenders
<1> QED BY <1>2, <1>7, <1>8 DEF back, top

\* The one who is found stays with his mobile.
LEMMA AliasFollowed ==
  ASSUME NEW w, NEW v, NEW f, NEW c, World(w, f, c), World(v, f, c), c \in Nat,
         NEW k \in Kinds, NEW i \in DOMAIN w.at[k], Renumbered(w, v, k, i),
         v = Destructed(w, k, i),
         NEW p \in 0 .. P - 1, NEW m \in DOMAIN w.at["mob"], p \in FindPretender(w, m)
  PROVE  Away(v, p) = IF Away(w, p) \in NamesIn(v) THEN Away(w, p) ELSE Limbo
<1> DEFINE x == <<"mob", m>>
<1>1. Shape(w) /\ "mob" \in Kinds /\ NoOne = -1
  BY DEF World, Kinds, NoOne
<1>2. /\ v.pretend[p] = IF k = "mob" /\ m = i THEN NoOne
                        ELSE IF k = "mob" /\ m = Top(w, k) THEN i ELSE m
      /\ w.pretend[p] = m /\ m \in Nat
  <2>1. \A j : p \in FindPretender(w, j) => w.pretend[p] = j
    BY DEF FindPretender, Pretenders
  <2>2. w.pretend[p] = m /\ m \in Nat
    BY <1>1, <2>1, Numbered
  <2>3. v.pretend[p] =
           IF k = "mob" /\ p \in FindPretender(w, i) THEN NoOne
           ELSE IF k = "mob" /\ i # Top(w, k) /\ p \in FindPretender(w, Top(w, k)) THEN i
           ELSE w.pretend[p]
    BY <1>1, PretendAfterwards
  <2> QED BY <2>1, <2>2, <2>3
<1>3. x \in Things(w)
  BY <1>1 DEF Things
<1>4. Away(w, p) = Name(w, x)
  BY <1>1, <1>2 DEF Away
<1>5. NamesIn(w) \ NamesIn(v) = {Name(w, <<k, i>>)} /\ <<k, i>> \in Things(w)
  BY OneGone
<1>6. CASE x = <<k, i>>
  <2>1. Away(v, p) = Limbo
    <3>1. v.pretend[p] = NoOne
      BY <1>2, <1>6
    <3>2. NoOne \notin DOMAIN v.at["mob"]
      BY <1>1, Numbered DEF World
    <3> QED BY <3>1, <3>2 DEF Away
  <2>2. Away(w, p) \notin NamesIn(v)
    BY <1>4, <1>5, <1>6
  <2> QED BY <2>1, <2>2
<1>7. CASE x # <<k, i>>
  <2> DEFINE n == v.pretend[p]
  <2>1. n = IF k = "mob" /\ m = Top(w, k) THEN i ELSE m
    BY <1>2, <1>7
  <2>2. Now(w, k, i, x) = <<"mob", n>>
    BY <2>1 DEF Now
  <2> HIDE DEF n
  <2>3. x # Limbo
    BY <1>3, NamesDiffer
  <2>4. <<"mob", n>> \in Things(v) /\ Name(v, <<"mob", n>>) = Name(w, x)
    BY <1>3, <1>7, <2>2, <2>3, NumbersKept
  <2>5. n \in DOMAIN v.at["mob"]
    BY <2>4 DEF Things
  <2>6. n # NoOne
    BY <1>1, <2>5, Numbered DEF World
  <2>7. Away(v, p) = Name(w, x)
    BY <2>4, <2>5, <2>6 DEF Away, n
  <2>8. Name(w, x) \in NamesIn(v)
    BY <2>4 DEF NamesIn
  <2> QED BY <1>4, <2>7, <2>8
<1> QED BY <1>6, <1>7

\* Whoever find_pretender() finds in a mobile follows it to its new number, and is back
\* when it is gone; nobody else has another number than before (clone.c:251 and 297).
THEOREM AliasCorrect == Spec => AliasFollows
<1>1. IInv /\ [Next]_vars =>
        [Loses => \A p \in 0 .. P - 1 :
           IF FoundAway(p)
           THEN (Away(W, p))' = IF Away(W, p) \in Names' THEN Away(W, p) ELSE Limbo
           ELSE pretend'[p] = pretend[p]]_vars
  <2> SUFFICES ASSUME IInv, Loses, NEW p \in 0 .. P - 1
               PROVE  IF FoundAway(p)
                      THEN (Away(W, p))' = IF Away(W, p) \in Names' THEN Away(W, p) ELSE Limbo
                      ELSE pretend'[p] = pretend[p]
    OBVIOUS
  <2>1. /\ Names' = NamesIn(W') /\ (Away(W, p))' = Away(W', p)
        /\ W.at = at /\ W.pretend = pretend /\ (W').pretend = pretend'
    BY DEF Names, NamesIn, Away, W
  <2>2. PICK f \in [Nat -> Kinds] : \E k \in Kinds : \E i \in DOMAIN W.at[k] :
           /\ World(W, f, counter) /\ World(W', f, counter) /\ counter \in Nat
           /\ W' = Destructed(W, k, i) /\ Renumbered(W, W', k, i)
    BY Lost
  <2>3. PICK k \in Kinds : \E i \in DOMAIN W.at[k] :
           /\ World(W, f, counter) /\ World(W', f, counter) /\ counter \in Nat
           /\ W' = Destructed(W, k, i) /\ Renumbered(W, W', k, i)
    BY <2>2
  <2>4. PICK i \in DOMAIN W.at[k] :
           /\ World(W, f, counter) /\ World(W', f, counter) /\ counter \in Nat
           /\ W' = Destructed(W, k, i) /\ Renumbered(W, W', k, i)
    BY <2>3
  <2>5. CASE FoundAway(p)
    <3>1. PICK m \in DOMAIN W.at["mob"] : p \in FindPretender(W, m)
      BY <2>1, <2>5 DEF FoundAway
    <3>2. Away(W', p) = IF Away(W, p) \in NamesIn(W') THEN Away(W, p) ELSE Limbo
      BY <2>4, <3>1, AliasFollowed
    <3> QED BY <2>1, <2>5, <3>2
  <2>6. CASE ~FoundAway(p)
    <3>1. \A m \in DOMAIN W.at["mob"] : p \notin FindPretender(W, m)
      BY <2>1, <2>6 DEF FoundAway
    <3>2. Shape(W) /\ Top(W, k) \in DOMAIN W.at[k]
      <4>1. Shape(W)
        BY <2>4 DEF World
      <4>2. Top(W, k) \in Nat /\ W.at[k] \in [0 .. Top(W, k) -> Entries]
        BY <4>1 DEF Shape
      <4> DEFINE t == Top(W, k)
                 a == W.at[k]
      <4>3. t \in Nat /\ a \in [0 .. t -> Entries]
        BY <4>2
      <4> HIDE DEF t, a
      <4>4. t \in DOMAIN a
        BY <4>3
      <4> QED BY <4>1, <4>4 DEF t, a
    <3>3. Destructed(W, k, i).pretend[p] = W.pretend[p]
      <4>1. k = "mob" => p \notin FindPretender(W, i) /\ p \notin FindPretender(W, Top(W, k))
        BY <2>4, <3>1, <3>2
      <4> QED BY <3>2, <4>1, PretendAfterwards
    <3> QED BY <2>1, <2>4, <2>6, <3>3
  <2> QED BY <2>5, <2>6
<1> QED BY <1>1, Invariance, PTL DEF Spec, AliasFollows
==============================================================================
