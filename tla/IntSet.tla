------------------------------- MODULE IntSet -------------------------------
(***************************************************************************)
(* The int_set package of utils.c: a set of numbers in a resizable array,  *)
(* with a cursor in the set itself for the loops                           *)
(*   for (i = first_int(p); i != SET_END; i = next_int(p)) ...             *)
(* Rooms, characters, containers and zones keep what is in them this way.  *)
(* The array is the sequence of its used cells: cell i of the code is      *)
(* list[i + 1] here.                                                       *)
(***************************************************************************)
EXTENDS Integers, Sequences

CONSTANTS
  Elems,    \* the numbers that may be in the set
  SetEnd,   \* SET_END
  InitLen   \* the length that init_intset() is called with

ASSUME SetEndAssumption == SetEnd \notin Elems
ASSUME InitLenAssumption == InitLen \in Nat

VARIABLES
  list,     \* p->list, the cells below p->len
  current,  \* p->current
  maxlen,   \* p->maxlen
  got       \* the value of the last first_int() or next_int()

setVars == <<list, current, maxlen, got>>

SetTypeOK ==
  /\ list \in Seq(Elems)
  /\ current \in Nat
  /\ maxlen \in Nat
  /\ got \in Elems \cup {SetEnd}

InitIntset == list = <<>> /\ current = 0 /\ maxlen = InitLen /\ got = SetEnd

CellsOf(s) == {s[i] : i \in 1 .. Len(s)}

\* check_for_possible_resize() for a set with "len" elements and room for "max";
\* a mutant that grows one too late.
ResizedLate(len, max) ==
  IF len > max THEN IF len < 20 THEN 2 * (len + 1) ELSE len + 25
  ELSE IF max > 0 /\ len < max \div 5 THEN max \div 2
  ELSE max

Resized(len, max) ==
  IF len = max THEN IF len < 20 THEN 2 * (len + 1) ELSE len + 25
  ELSE IF max > 0 /\ len < max \div 5 THEN max \div 2
  ELSE max

\* add_int(): the array is made ready for one more in any case.  The mutant does
\* not look whether the number is there.
AppendedBlindly(n) == Append(list, n)
Appended(n) == IF n \in CellsOf(list) THEN list ELSE Append(list, n)

AddInt(n) ==
  /\ maxlen' = Resized(Len(list), maxlen)
  /\ list' = Appended(n)
  /\ UNCHANGED <<current, got>>

WithoutLast(s) == [k \in 1 .. Len(s) - 1 |-> s[k]]

\* remove_int(), of cell i: what the cursor has passed stays before it.  The last
\* cell that it has passed fills the gap, and the last cell of all that one's.  The
\* mutant does not look at the cursor.
GapFilledCarelessly(i) == [list EXCEPT ![i] = list[Len(list)]]
GapFilled(i) ==
  IF i <= current
  THEN [list EXCEPT ![i] = list[current], ![current] = list[Len(list)]]
  ELSE [list EXCEPT ![i] = list[Len(list)]]

\* The cursor steps back only when a cell behind it is given up.
Cursor(i) == IF i <= current THEN current - 1 ELSE current

RemoveInt(n) ==
  \E i \in 1 .. Len(list) :
    /\ list[i] = n
    /\ list' = WithoutLast(GapFilled(i))
    /\ current' = Cursor(i)
    /\ maxlen' = Resized(Len(list) - 1, maxlen)
    /\ UNCHANGED got

\* first_int(): the cursor of an empty set stays where it is.
FirstInt ==
  /\ IF list = <<>>
     THEN got' = SetEnd /\ UNCHANGED current
     ELSE got' = list[1] /\ current' = 1
  /\ UNCHANGED <<list, maxlen>>

\* next_int(): no further than the last element.
NextInt ==
  /\ IF current < Len(list)
     THEN got' = list[current + 1] /\ current' = current + 1
     ELSE got' = SetEnd /\ UNCHANGED current
  /\ UNCHANGED <<list, maxlen>>

SetNext == FirstInt \/ NextInt \/ \E n \in Elems : AddInt(n) \/ RemoveInt(n)

SetSpec == InitIntset /\ [][SetNext]_setVars

-----------------------------------------------------------------------------
\* No cell is written beyond the array (utils.c:380), whatever the order in which it
\* grows and shrinks.
ArrayFits == Len(list) <= maxlen

\* A set: no number twice, and the cursor is not past the end.
IsSet ==
  /\ \A i, j \in 1 .. Len(list) : list[i] = list[j] => i = j
  /\ current <= Len(list)

\* A loop comes by every element once, whatever its body adds and removes.
ToCome == {list[i] : i \in current + 1 .. Len(list)}
Traverse == INSTANCE Traversal WITH members <- CellsOf(list), todo <- ToCome
TraversalSpec == Traverse!Spec
==============================================================================
