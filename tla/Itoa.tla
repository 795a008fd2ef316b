-------------------------------- MODULE Itoa --------------------------------
(***************************************************************************)
(* itoa (libc/stdlib.c:3-62) and toupper, the conversions behind kprintf's *)
(* %d, %x and %X, on strings as sequences of one-character strings.        *)
(***************************************************************************)
EXTENDS Integers, Sequences, SequencesExt

Glyph == <<"0", "1", "2", "3", "4", "5", "6", "7", "8", "9",
           "a", "b", "c", "d", "e", "f">>
Capital == <<"A", "B", "C", "D", "E", "F">>

\* Base 2 is accepted and divides by 10, as base 10 does.
Divisor(base) == IF base = 16 THEN 16 ELSE 10

\* The digits from the last to the first, as the loop stores them; none for a
\* value that is not positive.
Digits(base) ==
  LET d == Divisor(base)
      from[v \in Nat] ==
        IF v = 0 THEN <<>> ELSE <<Glyph[(v % d) + 1]>> \o from[v \div d]
  IN from

\* Written backwards and then reversed in place.  -value is taken as exact:
\* INT_MIN, whose negation overflows, is not among the values of the model.
itoa(value, base) ==
  LET zero == IF value = 0 THEN <<"0">> ELSE <<>>
      negative == base = 10 /\ value < 0
      left == IF negative THEN -value ELSE value
      digits == IF left > 0 THEN Digits(base)[left] ELSE <<>>
      sign == IF negative THEN <<"-">> ELSE <<>>
      prefix == IF base = 16 THEN <<"x", "0">> ELSE <<>>
  IN IF base \in {2, 10, 16}
     THEN Reverse(zero \o digits \o sign \o prefix)
     ELSE <<>>

toupper(c) ==
  IF \E i \in 1 .. 6 : c = Glyph[i + 10]
  THEN Capital[CHOOSE i \in 1 .. 6 : c = Glyph[i + 10]]
  ELSE c

-----------------------------------------------------------------------------
(* The reference: positional notation, without a loop.                     *)

\* base^k; the provers know nothing of the operator ^.
Power(base) ==
  LET pow[k \in Nat] == IF k = 0 THEN 1 ELSE base * pow[k - 1]
  IN pow

\* The number of digits of v: the least k with v < base^k.
Width(v, base) ==
  CHOOSE k \in 1 .. v + 1 :
    v < Power(base)[k] /\ (k > 1 => Power(base)[k - 1] <= v)

Numeral(v, base) ==
  LET k == Width(v, base)
  IN [i \in 1 .. k |-> Glyph[((v \div Power(base)[k - i]) % base) + 1]]

\* What a reader of kprintf expects of %d and %x.
Decimal(v) == IF v < 0 THEN <<"-">> \o Numeral(-v, 10) ELSE Numeral(v, 10)
Hexadecimal(v) == <<"0", "x">> \o Numeral(v, 16)
=============================================================================
