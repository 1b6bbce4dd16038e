------------------------------- MODULE Caesar -------------------------------
(***************************************************************************)
(* The Caesar cipher, the simplest of the transformers that the churn pipe *)
(* applies to what it sends (src/simple-transformers/caesar.ts).           *)
(***************************************************************************)
EXTENDS Naturals, Integers, Sequences

Bytes == 0 .. 255

\* setKey: the shift is the one byte of the key.
IsKey(key) == Len(key) = 1

Shift(key) == key[1]

transformByte(i, shift_) == (i + shift_) % 256

restoreByte(i, shift_) ==
    (IF i - shift_ < 0 THEN i - shift_ + 256 ELSE i - shift_) % 256

\* map_ with the one and with the other.
transform(buffer, key) == [i \in DOMAIN buffer |-> transformByte(buffer[i], Shift(key))]

restore(buffer, key) == [i \in DOMAIN buffer |-> restoreByte(buffer[i], Shift(key))]
=============================================================================
