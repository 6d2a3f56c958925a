-------------------------------- MODULE MCCodec --------------------------------
(* Bytes of eight values, an int of two of them: numbers up to 63.          *)
EXTENDS Codec

\* The lower half of an int with its end, and two numbers of the upper half.
SomeNumbers == {9, 31, 32, 63}

\* No block, and length fields of 7, 31 and 32.
SomeLengths == {0, 2, 26, 27}

TwoBytes  == <<5, 3>>
SomeHashes == {<<1, 2>>, <<0, 7>>}
================================================================================
