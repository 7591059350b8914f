-------------------------------- MODULE MCRsa --------------------------------
(* Small keys, with bytes of two bits and hash values of two bytes. *)
EXTENDS RsaContext, Bitwise

Key(p, q, e, d) == [N |-> p * q, P |-> p, Q |-> q, E |-> e, D |-> d]
\* 6 bits for the plain operations; 12 bits and 13 bits for the paddings.
SomeKeys == {Key(7, 5, 5, 5), Key(53, 59, 3, 503), Key(61, 89, 7, 943)}
\* A modulus of five bytes and one bit.
OddKeys == {Key(37, 41, 7, 103)}
SomeParts == {{"N", "E"}, {"P", "Q"}, {"D", "E"}, {"N", "P", "Q", "D", "E"}, {"E"}}
SomePaddings == {<<"V15", FALSE>>, <<"V21", TRUE>>}
BitXor(a, b) == a ^^ b
SomeSalts == UNION {{[i \in 1..n |-> 0], [i \in 1..n |-> 4 - i]} : n \in 0..3}
SomeMessages == {<<>>, <<1>>}
SomeDigests == {<<1, 2>>, <<3, 0>>}
Mix(bytes) == LET sum == FoldLeft(LAMBDA n, b : (n * 5 + b + 1) % 97, 7, bytes)
              IN  <<sum % 4, (sum \div 4) % 4>>
=============================================================================
