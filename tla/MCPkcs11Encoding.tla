-------------------------- MODULE MCPkcs11Encoding --------------------------
(* Answers of the chip for the run of Pkcs11 in which it signs: bytes of three bits for
   signatures, and metadata of key objects. *)
EXTENDS MCPkcs11, Pkcs11Encoding

SomeStrings == [1..7 -> 0..2] \cup [1..6 -> {1, 2, 4, 7}]
\* An entry that may be missing.
Optional(tag, values) == {<<>>} \cup {<<[tag |-> tag, value |-> v]>> : v \in values}
\* Access conditions: always, never, an expression with the tag of the object, one with the
\* tag of the algorithm.
Condition(tag) == Optional(tag, {<<0>>, <<255>>, <<32, 225, 64>>, <<224, 252, 7>>})
SomeBefores ==
  {state \o version \o change \o read \o execute :
     state \in Optional(192, {<<1>>, <<7>>}), version \in Optional(193, {<<0, 224>>}),
     change \in Condition(208), read \in Condition(209), execute \in Condition(211)}
\* ECC, RSA and AES; one stored in two bytes.
SomeAlgorithms == {<<3>>, <<4>>, <<65>>, <<129>>, <<4, 0>>}
\* Nothing, the usage of the key (to sign, to agree on keys), and the type of reset after it.
Usage(use) == [tag |-> 225, value |-> <<use>>]
SomeAfters == {<<>>, <<Usage(16)>>, <<Usage(32)>>, <<Usage(32), [tag |-> 240, value |-> <<17>>]>>}
SomeLeftovers == {[i \in 1..260 |-> b] : b \in {0, 32, 224}}
=============================================================================
