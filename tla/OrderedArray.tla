---------------------------- MODULE OrderedArray ----------------------------
(***************************************************************************)
(* The ordered array of kernel/ordered_array.c, the heap's index of holes: *)
(* a sequence whose items are compared by key[item] (less_than).           *)
(* Its capacity, max_size, is stored and never looked at.                  *)
(***************************************************************************)
EXTENDS Integers, Sequences

\* Where insert stops: at the first item that is not less than the new one.
InsertAt(item, array, key) ==
  CHOOSE i \in 1 .. Len(array) + 1 :
    /\ i <= Len(array) => ~(key[array[i]] < key[item])
    /\ \A j \in 1 .. i - 1 : key[array[j]] < key[item]

insert_ordered_array(item, array, key) ==
  LET i == InsertAt(item, array, key)
  IN SubSeq(array, 1, i - 1) \o <<item>> \o SubSeq(array, i, Len(array))

remove_ordered_array(i, array) ==
  SubSeq(array, 1, i - 1) \o SubSeq(array, i + 1, Len(array))

\* The place of an item in the array, or 0: the loops of free.
IndexOf(item, array) ==
  IF \E i \in 1 .. Len(array) : array[i] = item
  THEN CHOOSE i \in 1 .. Len(array) :
         array[i] = item /\ \A j \in 1 .. i - 1 : array[j] # item
  ELSE 0
=============================================================================
