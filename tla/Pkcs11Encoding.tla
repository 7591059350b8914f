--------------------------- MODULE Pkcs11Encoding ---------------------------
(***************************************************************************)
(* What the PKCS#11 layer reads out of the chip's answers: the components  *)
(* of an ECDSA signature out of two DER integers, and the algorithm of a   *)
(* key out of the metadata of its object.  Pure algorithms, each compared  *)
(* with a reference definition over bounded inputs.                        *)
(*                                                                         *)
(* Bytes are 0..2 * Sign - 1.  A buffer goes on after the bytes the chip   *)
(* has written: with what was in memory before.                            *)
(***************************************************************************)
EXTENDS Pkcs11, Sequences

CONSTANTS
  Sign,         \* DER_UINT_MASK, the sign bit of a byte
  Lengths,      \* bytes of a signature's component, by curve
  Strings,      \* arbitrary buffers
  Befores,      \* entries of a metadata before that of the algorithm, as sequences of tags and values
  Algorithms,   \* algorithms of a key, as sequences of bytes
  Afters,       \* entries of a metadata after that of the algorithm
  Leftovers     \* what is in memory before

DER_TAG_INTEGER    == 2
OBJECT_TAG         == 32   \* OPTIGA_METADATA_TLV_OBJECT_TAG
KEY_ALGO_IDFR_TAG  == 224  \* OPTIGA_METADATA_KEY_ALGO_IDFR_TAG
LoopTags           == {OBJECT_TAG, KEY_ALGO_IDFR_TAG}

\* Components of one byte are left out: the code keeps the zero of an integer of two bytes.
ASSUME EncodingAssumption ==
  /\ Sign \in Nat \ {0} /\ Lengths \subseteq Nat \ {0, 1}
  /\ Strings \subseteq Seq(Nat) /\ Leftovers \subseteq Seq(Nat) \ {<<>>}

Zeros(n) == [i \in 1..n |-> 0]
-----------------------------------------------------------------------------
(* Signatures *)

\* An integer whose declared length the buffer does not have.  (Lengths above
\* DER_INTEGER_MAX_LEN are refused too: a length byte of this model is below.)
CutOff(asn1, asn1_len) == asn1[2] + 2 > asn1_len

\* A zero in front of a byte that would be taken for negative.  An integer of two bytes
\* keeps it.  (The check for a second zero after it can not be true.)
NeverStuffed(asn1) == FALSE \* mutant: the stuffing byte is kept
Stuffed(asn1) == asn1[2] > 2 /\ asn1[3] = 0 /\ asn1[4] >= Sign

Rejected == [consumed |-> 0, bytes |-> <<>>]
prvDecodeAsn1Uint(asn1, asn1_len, out_int_len) ==
  IF asn1_len < 3 \/ asn1[1] # DER_TAG_INTEGER \/ asn1[2] = 0 \/ CutOff(asn1, asn1_len) THEN Rejected
  ELSE LET first          == IF Stuffed(asn1) THEN 4 ELSE 3
           integer_length == asn1[2] + 3 - first
       IN  IF integer_length > out_int_len THEN Rejected
           ELSE [consumed |-> asn1[2] + 2,
                 bytes    |-> Zeros(out_int_len - integer_length)
                                \o SubSeq(asn1, first, first + integer_length - 1)]

\* The second integer begins after the first one.  Components take half of the signature each.
prvAsn1ToEcdsaRS(asn1, asn1_len, rs_len) ==
  LET r    == prvDecodeAsn1Uint(asn1, asn1_len, rs_len \div 2)
      s    == prvDecodeAsn1Uint(SubSeq(asn1, r.consumed + 1, Len(asn1)), asn1_len - r.consumed, rs_len \div 2)
  IN  IF rs_len % 2 # 0 \/ r = Rejected \/ s = Rejected THEN [ok |-> FALSE, rs |-> <<>>]
      ELSE [ok |-> TRUE, rs |-> r.bytes \o s.bytes]

\* The chip answers with the shortest encodings of two positive numbers (external).
Radix == 2 * Sign
Weight[n \in Nat] == IF n = 0 THEN 1 ELSE Radix * Weight[n - 1]
Number(bytes) ==
  LET number[n \in 0..Len(bytes)] == IF n = 0 THEN 0 ELSE number[n - 1] * Radix + bytes[n]
  IN  number[Len(bytes)]
Bytes(n, length) == [i \in 1..length |-> (n \div Weight[length - i]) % Radix]
Size(n) == CHOOSE k \in 1..n : Weight[k - 1] <= n /\ n < Weight[k]
DerInteger(n) ==
  LET digits  == Bytes(n, Size(n))
      content == IF digits[1] >= Sign THEN <<0>> \o digits ELSE digits
  IN  <<DER_TAG_INTEGER, Len(content)>> \o content
-----------------------------------------------------------------------------
(* Metadata *)

\* The value behind a length byte at i: one, two or four bytes, of which 16 bits are kept.
ValueAt(data, i, val) ==
  CASE data[i] = 1        -> data[i + 1]
    [] data[i] \in {2, 4} -> data[i + 1] + 256 * data[i + 2]
    [] OTHER              -> val

Skip(data, i) == data[i + 1] + 2

\* The loop of prvGetKeyAlgorithm() over the entries.  After the algorithm it goes on at that
\* entry's length byte, as if it were a tag.
Iteration(data, bytesToRead, at) ==
  LET begin == at.start \/ data[at.offset] = OBJECT_TAG
      i     == IF data[at.offset] = OBJECT_TAG THEN at.offset + 2 ELSE at.offset
  IN  IF at.offset > bytesToRead THEN at
      ELSE IF ~begin THEN [at EXCEPT !.offset = @ + 1]
      ELSE IF data[i] = KEY_ALGO_IDFR_TAG
           THEN [offset |-> i + 1, start |-> TRUE, val |-> ValueAt(data, i + 1, at.val)]
      ELSE [offset |-> i + Skip(data, i), start |-> TRUE, val |-> at.val]

\* Each iteration goes on by a byte at least.
LoopStart == [offset |-> 1, start |-> FALSE, val |-> 0]
Walk(data, bytesToRead) ==
  LET at[n \in 0..bytesToRead] == IF n = 0 THEN LoopStart ELSE Iteration(data, bytesToRead, at[n - 1])
  IN  at[bytesToRead]
prvGetKeyAlgorithm(data, bytesToRead) == Walk(data, bytesToRead).val

\* The metadata of a key's object (external): its entries in the order of their tags.
Entry(tag, value) == <<tag, Len(value)>> \o value
Encoded(entries) ==
  LET encoded[n \in 0..Len(entries)] ==
        IF n = 0 THEN <<>> ELSE encoded[n - 1] \o Entry(entries[n].tag, entries[n].value)
  IN  encoded[Len(entries)]
AlgorithmEntry(m) == IF m.algorithm = <<>> THEN <<>> ELSE Entry(KEY_ALGO_IDFR_TAG, m.algorithm)
Body(m) == Encoded(m.before) \o AlgorithmEntry(m) \o Encoded(m.after)
Metadata(m) == <<OBJECT_TAG, Len(Body(m))>> \o Body(m)

\* The tags the loop looks for occur once each as tags, and their bytes nowhere behind the place
\* at which the loop goes on when it has found the algorithm.
ASSUME MetadataAssumption ==
  /\ \A entries \in Befores \cup Afters : entries \in Seq([tag : Nat \ LoopTags, value : Seq(Nat)])
  /\ \A a \in Algorithms : a \in Seq(Nat) /\ Len(a) \notin LoopTags \cup {0}
  /\ \A a \in Algorithms, after \in Afters :
       LET rest == a \o Encoded(after) IN \A i \in (a[1] + 2)..Len(rest) : rest[i] \notin LoopTags

\* An object always has an entry, its access conditions.
KeyObjects ==
  {m \in [before : Befores, algorithm : Algorithms \cup {<<>>}, after : Afters] : Body(m) # <<>>}
-----------------------------------------------------------------------------
\* The signature that C_Sign() gives out is the chip's, both components at full length,
\* whatever its buffer holds behind them: no answer of the chip is refused, which C_Sign()
\* would not notice.
SignatureIsTheChips ==
  \A length \in Lengths : \A r, s \in 1..(Weight[length] - 1) :
    LET answer == DerInteger(r) \o DerInteger(s)
    IN  \A left \in Leftovers :
          prvAsn1ToEcdsaRS(answer \o left, Len(answer), 2 * length)
            = [ok |-> TRUE, rs |-> Bytes(r, length) \o Bytes(s, length)]

\* A string of bytes is accepted only if it begins with two integers that are there in full,
\* and then the components are their values.
AcceptedIsWhole ==
  \A asn1 \in Strings, length \in Lengths : \A asn1_len \in 0..Len(asn1) :
    LET result == prvAsn1ToEcdsaRS(asn1 \o Zeros(4), asn1_len, 2 * length)
        i      == asn1[2]
        j      == asn1[i + 4]
    IN  result.ok =>
          /\ asn1[1] = DER_TAG_INTEGER /\ asn1[i + 3] = DER_TAG_INTEGER
          /\ i > 0 /\ j > 0 /\ i + j + 4 <= asn1_len
          /\ Len(result.rs) = 2 * length
          /\ Number(SubSeq(result.rs, 1, length)) = Number(SubSeq(asn1, 3, i + 2))
          /\ Number(SubSeq(result.rs, length + 1, 2 * length)) = Number(SubSeq(asn1, i + 5, i + j + 4))

\* The algorithm is the one in the metadata, 0 if there is none, although values of other
\* entries may look like tags and the walk goes on between two entries when it has found it.
AlgorithmFound ==
  \A m \in KeyObjects, left \in Leftovers :
    prvGetKeyAlgorithm(Metadata(m) \o left, Len(Metadata(m)))
      = IF m.algorithm = <<>> THEN 0 ELSE ValueAt(Entry(0, m.algorithm), 2, 0)

\* What the layer reads out of the chip's answers is what the chip has put in: signatures
\* at full length, nothing out of strings that are none, and the algorithm of a key.  This
\* does not depend on the state; it is evaluated once.
AnswersRead == Init => SignatureIsTheChips /\ AcceptedIsWhole /\ AlgorithmFound
=============================================================================
