------------------------------ MODULE RsaContext ------------------------------
(***************************************************************************)
(* The RSA code of trustm_rsa.c that stays in software: key contexts       *)
(* (import, completion, generation, checks, export, copy), the public and  *)
(* private operation with CRT and blinding, and the OAEP and PSS paddings. *)
(* The PKCS#1 v1.5 operations of the same file use the chip: see ChipCalls.*)
(*                                                                         *)
(* One task uses a context at a time (MBEDTLS_THREADING_C is not defined). *)
(* Numbers are small: a byte has BitsPerByte bits, the limits are scaled.  *)
(* Calls come as from the pk layer: mode MBEDTLS_RSA_PUBLIC to encrypt and *)
(* verify, MBEDTLS_RSA_PRIVATE to decrypt and sign.  0 is an unset number. *)
(***************************************************************************)
EXTENDS Integers, Sequences, SequencesExt

CONSTANTS
  Keys,        \* RSA keys whose parts are imported
  PartSets,    \* sets of parts that one import passes
  Primes,      \* what mbedtls_mpi_gen_prime() returns
  Exponents,   \* public exponents asked for in key generation
  KeySizes,    \* sizes in bits asked for in key generation
  Paddings,    \* padding mode and hash_id that are set
  Inputs,      \* inputs of the plain operations
  Randoms,     \* random numbers
  Salts,       \* random strings: seeds and salts
  Messages,    \* messages to encrypt
  Digests,     \* hash values to sign
  BitsPerByte, HashLen, Hash(_), Trailer, \* the byte 0xBC is Trailer
  ExclusiveOr(_, _), \* the exclusive or of two bytes
  MinKeyBits,  \* 128 in the code
  MinBlock,    \* 16 in the code
  MaxLen,      \* MBEDTLS_MPI_MAX_SIZE
  CloseBits,   \* primes whose difference has no more bits are too close
  MaxPrivate,  \* bound: private operations with blinding on a context
  MaxImports   \* bound: imports, one after the other, into a context

Parts == {"N", "P", "Q", "D", "E"}
-----------------------------------------------------------------------------
\* The arithmetic of bignum.c (external).
Pow2(n) == LET power[i \in Nat] == IF i = 0 THEN 1 ELSE 2 * power[i - 1] IN power[n]
Gcd(a, b) == IF a = 0 THEN b ELSE Max({d \in 1..a : a % d = 0 /\ b % d = 0})
Lcm(a, b) == (a * b) \div Gcd(a, b)
PowMod(base, exponent, m) ==
  LET pow[n \in Nat] == IF n = 0 THEN 1 % m
                        ELSE LET half == pow[n \div 2] IN (((half * half) % m) * (IF n % 2 = 1 THEN base % m ELSE 1)) % m
  IN  pow[exponent]
Inverse_mod(a, m) == CHOOSE x \in 0..(m - 1) : (a * x) % m = 1 % m
BitLen(n) == LET bits[x \in Nat] == IF x = 0 THEN 0 ELSE 1 + bits[x \div 2] IN bits[n]
Size(n)   == (BitLen(n) + BitsPerByte - 1) \div BitsPerByte
Bytes(n, length) == [i \in 1..length |-> (n \div Pow2(BitsPerByte * (length - i))) % Pow2(BitsPerByte)]
Number(bytes) ==
  LET number[n \in 0..Len(bytes)] == IF n = 0 THEN 0 ELSE number[n - 1] * Pow2(BitsPerByte) + bytes[n]
  IN  number[Len(bytes)]
Distance(a, b)   == IF a > b THEN a - b ELSE b - a
IsPrime(p)       == p > 1 /\ \A d \in 2..(p - 1) : p % d # 0
-----------------------------------------------------------------------------
ASSUME ScaleAssumption ==
  /\ BitsPerByte \in Nat \ {0} /\ HashLen \in Nat \ {0, 1} /\ Trailer \in 1..(Pow2(BitsPerByte) - 1)
  /\ MinKeyBits \in Nat /\ MinBlock \in Nat /\ MaxLen \in Nat /\ CloseBits \in Nat
  /\ MaxPrivate \in Nat /\ MaxImports \in Nat

\* Keys are RSA keys.  D and E need not fit each other: that is what the checks are for.
ASSUME KeysAssumption ==
  /\ \A key \in Keys :
       /\ key.P \in Nat /\ IsPrime(key.P) /\ key.Q \in Nat /\ IsPrime(key.Q) /\ key.N = key.P * key.Q
       /\ key.D \in Nat /\ key.E \in Nat
  /\ PartSets \subseteq SUBSET Parts

\* Prime generation begins at the square root of half the range, so that the product of two
\* primes of the same size has twice as many bits.
ASSUME GenerationAssumption ==
  /\ \A p \in Primes : p \in Nat /\ IsPrime(p)
  /\ \A p, q \in Primes : BitLen(p) = BitLen(q) => BitLen(p * q) = 2 * BitLen(p)
  /\ Exponents \subseteq Nat /\ KeySizes \subseteq Nat

Byte == 0..(Pow2(BitsPerByte) - 1)
ASSUME ArgumentsAssumption ==
  /\ Inputs \subseteq Nat /\ Randoms \subseteq Nat /\ Paddings \subseteq {"V15", "V21"} \X BOOLEAN
  /\ Salts \subseteq Seq(Byte) /\ Messages \subseteq Seq(Byte) /\ Digests \subseteq Seq(Byte)

\* A mask applied twice cancels out, and works on each bit for itself.
ASSUME ExclusiveOrAssumption ==
  \A a, b \in Byte : /\ ExclusiveOr(a, b) \in Byte /\ ExclusiveOr(ExclusiveOr(a, b), b) = a
                     /\ \A n \in 0..BitsPerByte :
                          ExclusiveOr(a, b) % Pow2(n) = ExclusiveOr(a % Pow2(n), b % Pow2(n))

VARIABLES
  ctx,      \* the context; "used": the Montgomery constants RN, RP, RQ have been computed
  last,     \* the last operation: its result, what went in and what came out
  spoiled,  \* an allocation or the random generator failed while the blinding values were made
  blinded   \* private operations with blinding so far

vars == <<ctx, last, spoiled, blinded>>
-----------------------------------------------------------------------------
Freed == [N |-> 0, P |-> 0, Q |-> 0, D |-> 0, E |-> 0, DP |-> 0, DQ |-> 0, QP |-> 0,
          Vi |-> 0, Vf |-> 0, blinding |-> FALSE, used |-> FALSE, len |-> 0,
          padding |-> "V15", hash |-> FALSE]
\* mbedtls_rsa_free() does not touch the length and the padding.
FreedFrom(c) == [Freed EXCEPT !.len = c.len, !.padding = c.padding, !.hash = c.hash]

Outcome(op, ret, in, out) == [op |-> op, ret |-> ret, in |-> in, out |-> out, text |-> <<>>, glitch |-> FALSE]

\* mbedtls_rsa_init()
Init ==
  /\ \E p \in Paddings : ctx = [Freed EXCEPT !.padding = p[1], !.hash = p[2]]
  /\ last = Outcome("init", "ok", 0, 0)
  /\ spoiled = FALSE
  /\ blinded = 0

rsa_check_context(c, private) ==
  /\ c.len = Size(c.N) /\ c.len <= MaxLen
  /\ c.N > 0 /\ c.N % 2 = 1
  /\ private => c.P > 0 /\ c.P % 2 = 1 /\ c.Q > 0 /\ c.Q % 2 = 1
  /\ c.E > 0
  /\ private => c.DP > 0 /\ c.DQ > 0 /\ c.QP > 0

\* rsa_internal.c (external)
validate_params(c) ==
  /\ c.N = c.P * c.Q /\ c.P > 1 /\ c.Q > 1
  /\ c.D > 1 /\ c.D < c.N /\ c.E > 1 /\ c.E < c.N
  /\ (c.D * c.E - 1) % (c.P - 1) = 0 /\ (c.D * c.E - 1) % (c.Q - 1) = 0
validate_crt(c) ==
  /\ (c.DP - c.D) % (c.P - 1) = 0 /\ (c.DQ - c.D) % (c.Q - 1) = 0
  /\ (c.QP * c.Q - 1) % c.P = 0
WithCrt(c) == [c EXCEPT !.DP = c.D % (c.P - 1), !.DQ = c.D % (c.Q - 1), !.QP = Inverse_mod(c.Q, c.P)]

mbedtls_rsa_check_pubkey(c) ==
  /\ rsa_check_context(c, FALSE)
  /\ BitLen(c.N) >= MinKeyBits
  /\ c.E % 2 = 1 /\ BitLen(c.E) >= 2 /\ c.E < c.N
CheckPrivkeyUnchecked(c) == \* mutant: the parts are not compared with each other
  mbedtls_rsa_check_pubkey(c) /\ rsa_check_context(c, TRUE)
mbedtls_rsa_check_privkey(c) ==
  /\ mbedtls_rsa_check_pubkey(c) /\ rsa_check_context(c, TRUE)
  /\ validate_params(c) /\ validate_crt(c)
mbedtls_rsa_check_pub_priv(pub, prv) ==
  /\ mbedtls_rsa_check_pubkey(pub) /\ mbedtls_rsa_check_privkey(prv)
  /\ pub.N = prv.N /\ pub.E = prv.E

Have(part) == ctx[part] # 0
IsPrivate  == \A part \in Parts : Have(part)

\* mbedtls_rsa_import() and mbedtls_rsa_import_raw(): parts of a key, into a context that
\* has not been used (no caller changes the key of a context without freeing it).
mbedtls_rsa_import ==
  /\ ~ctx.used
  /\ (\E part \in Parts : Have(part)) => last.op = "import" /\ last.in < MaxImports
  /\ \E key \in Keys, parts \in PartSets :
       ctx' = [ctx EXCEPT !.N = IF "N" \in parts THEN key.N ELSE @, !.P = IF "P" \in parts THEN key.P ELSE @,
                          !.Q = IF "Q" \in parts THEN key.Q ELSE @, !.D = IF "D" \in parts THEN key.D ELSE @,
                          !.E = IF "E" \in parts THEN key.E ELSE @, !.len = IF "N" \in parts THEN Size(key.N) ELSE @]
  /\ last' = Outcome("import", "ok", IF last.op = "import" THEN last.in + 1 ELSE 1, 0)
  /\ UNCHANGED <<spoiled, blinded>>

\* The context with N, then P and Q or D, then the CRT parts; a set of contexts, as the
\* primes may be found in either order, and empty where a step fails.
SetNOnly(c) == \* mutant: the length is not set with the modulus
  IF c.N = 0 /\ c.P # 0 /\ c.Q # 0 THEN [c EXCEPT !.N = c.P * c.Q] ELSE c
SetN(c) == IF c.N = 0 /\ c.P # 0 /\ c.Q # 0 THEN [c EXCEPT !.N = c.P * c.Q, !.len = Size(c.P * c.Q)] ELSE c
Deduced(c, pq_missing, d_missing) ==
  CASE pq_missing ->
         {[c EXCEPT !.P = pq[1], !.Q = pq[2]] :
            pq \in {pair \in UNION {{<<key.P, key.Q>>, <<key.Q, key.P>>} : key \in Keys} :
                      /\ pair[1] * pair[2] = c.N
                      /\ (c.D * c.E - 1) % (pair[1] - 1) = 0 /\ (c.D * c.E - 1) % (pair[2] - 1) = 0}}
    [] d_missing ->
         LET lambda == Lcm(c.P - 1, c.Q - 1)
         IN  IF Gcd(c.E, lambda) = 1 THEN {[c EXCEPT !.D = Inverse_mod(c.E, lambda)]} ELSE {}
    [] OTHER -> {c}

mbedtls_rsa_complete ==
  LET n_missing  == Have("P") /\ Have("Q") /\ Have("D") /\ Have("E")
      pq_missing == Have("N") /\ ~Have("P") /\ ~Have("Q") /\ Have("D") /\ Have("E")
      d_missing  == Have("P") /\ Have("Q") /\ ~Have("D") /\ Have("E")
      is_pub     == Have("N") /\ ~Have("P") /\ ~Have("Q") /\ ~Have("D") /\ Have("E")
      is_priv    == n_missing \/ pq_missing \/ d_missing
      deduced    == Deduced(SetN(ctx), pq_missing, d_missing)
      Fails      == ctx' = ctx /\ last' = Outcome("complete", "BAD_INPUT_DATA", 0, 0)
  IN  /\ ~ctx.used
      /\ \/ ~is_priv /\ ~is_pub /\ Fails
         \/ /\ is_priv \/ is_pub
            /\ IF deduced = {} THEN ctx' = SetN(ctx) /\ last' = Outcome("complete", "BAD_INPUT_DATA", 0, 0)
               ELSE \E c \in deduced :
                 LET bad == is_priv /\ Gcd(c.P, c.Q) # 1
                 IN  /\ ctx' = IF is_priv /\ ~bad THEN WithCrt(c) ELSE c
                     /\ last' = Outcome("complete", IF ~bad /\ rsa_check_context(ctx', is_priv)
                                                    THEN "ok" ELSE "BAD_INPUT_DATA", 0, 0)
      /\ UNCHANGED <<spoiled, blinded>>

\* mbedtls_rsa_gen_key(): the loop ends with a pair of primes that has passed the checks;
\* any failure frees the context.
GoodPrimes(nbits, e) ==
  {pq \in Primes \X Primes :
     /\ BitLen(pq[1]) = nbits \div 2 /\ BitLen(pq[2]) = nbits \div 2
     /\ BitLen(Distance(pq[1], pq[2])) > CloseBits /\ pq[1] > pq[2]
     /\ Gcd(e, (pq[1] - 1) * (pq[2] - 1)) = 1
     /\ BitLen(Inverse_mod(e, Lcm(pq[1] - 1, pq[2] - 1))) > (nbits + 1) \div 2}
GeneratedKey(pq, e) ==
  WithCrt([ctx EXCEPT !.N = pq[1] * pq[2], !.P = pq[1], !.Q = pq[2], !.E = e,
                      !.D = Inverse_mod(e, Lcm(pq[1] - 1, pq[2] - 1)), !.len = Size(pq[1] * pq[2])])
GenKeyKeepsKey(nbits, e) == \* mutant: a failure leaves the context as it is
  IF nbits < MinKeyBits \/ e < 3 \/ nbits % 2 # 0 THEN {<<ctx, "BAD_INPUT_DATA">>}
  ELSE {<<key, IF mbedtls_rsa_check_privkey(key) THEN "ok" ELSE "KEY_GEN_FAILED">> :
          key \in {GeneratedKey(pq, e) : pq \in GoodPrimes(nbits, e)}}
       \cup {<<[ctx EXCEPT !.E = e, !.P = p], "KEY_GEN_FAILED">> : p \in Primes}
GenKey(nbits, e) ==
  IF nbits < MinKeyBits \/ e < 3 \/ nbits % 2 # 0 THEN {<<ctx, "BAD_INPUT_DATA">>}
  ELSE {<<key, "ok">> : key \in {k \in {GeneratedKey(pq, e) : pq \in GoodPrimes(nbits, e)} :
                                    mbedtls_rsa_check_privkey(k)}}
       \cup {<<FreedFrom(ctx), "KEY_GEN_FAILED">>}

mbedtls_rsa_gen_key ==
  /\ ~ctx.used
  /\ \E nbits \in KeySizes, e \in Exponents : \E result \in GenKey(nbits, e) :
       /\ ctx' = result[1]
       /\ last' = Outcome("gen_key", result[2], nbits, 0)
  /\ UNCHANGED <<spoiled, blinded>>

Check ==
  /\ last' = Outcome("check_privkey", IF mbedtls_rsa_check_privkey(ctx) THEN "ok" ELSE "KEY_CHECK_FAILED", 0, 0)
  /\ UNCHANGED <<ctx, spoiled, blinded>>

\* mbedtls_rsa_export(), mbedtls_rsa_export_raw() and, for its three parts,
\* mbedtls_rsa_export_crt(): what is asked for decides.
mbedtls_rsa_export ==
  /\ \E parts \in PartSets \cup {{"DP", "DQ", "QP"}} :
       last' = Outcome("export", IF ~IsPrivate /\ ~(parts \subseteq {"N", "E"}) THEN "BAD_INPUT_DATA" ELSE "ok", 0, 0)
  /\ UNCHANGED <<ctx, spoiled, blinded>>

mbedtls_rsa_set_padding ==
  /\ \E p \in Paddings : ctx' = [ctx EXCEPT !.padding = p[1], !.hash = p[2]]
  /\ last' = Outcome("set_padding", "ok", 0, 0)
  /\ UNCHANGED <<spoiled, blinded>>

\* mbedtls_rsa_copy(): the caller goes on with the copy, freed if copying failed.
CopyWithoutVi(c) == \* mutant: one of the blinding values is not copied
  [c EXCEPT !.Vi = 0]
Copied(c) == c
mbedtls_rsa_copy ==
  \/ ctx' = Copied(ctx) /\ UNCHANGED <<last, spoiled, blinded>>
  \/ /\ ctx' = [Freed EXCEPT !.len = ctx.len]
     /\ last' = Outcome("copy", "ALLOC_FAILED", 0, 0)
     /\ spoiled' = FALSE
     /\ blinded' = 0

mbedtls_rsa_free ==
  /\ ctx' = FreedFrom(ctx)
  /\ last' = Outcome("free", "ok", 0, 0)
  /\ spoiled' = FALSE
  /\ blinded' = 0
-----------------------------------------------------------------------------
\* The operations on numbers: the outcomes of a call, each with the context it leaves.
Ran(c, ret, out, glitch, bad) == [c |-> c, ret |-> ret, out |-> out, glitch |-> glitch, bad |-> bad]

mbedtls_rsa_public(c, in) ==
  IF ~rsa_check_context(c, FALSE) THEN Ran(c, "BAD_INPUT_DATA", 0, FALSE, FALSE)
  ELSE IF in >= c.N THEN Ran(c, "PUBLIC_FAILED", 0, FALSE, FALSE)
  ELSE Ran([c EXCEPT !.used = TRUE], "ok", PowMod(in, c.E, c.N), FALSE, FALSE)

\* rsa_prepare_blinding(): squares the blinding values, or makes new ones.  Pairs of the
\* context it leaves and whether it has finished: an allocation may fail between two steps,
\* and eleven random numbers may all have a divisor in common with N.
Squared(c) ==
  {<<[c EXCEPT !.Vi = (@ * @) % c.N, !.Vf = (@ * @) % c.N], TRUE>>,
   <<[c EXCEPT !.Vi = (@ * @) % c.N], FALSE>>}
rsa_prepare_blinding(c) ==
  IF c.blinding THEN Squared(c)
  ELSE LET Left(vf, vi, done) ==
             <<[c EXCEPT !.blinding = TRUE, !.used = TRUE, !.Vf = vf, !.Vi = vi], done>>
       IN  UNION {IF Gcd(r, c.N) # 1 THEN {Left(r, Gcd(r, c.N), FALSE)}
                  ELSE LET inverse == Inverse_mod(r, c.N)
                       IN  {Left(r, 0, FALSE), Left(r, 1, FALSE), Left(r, inverse, FALSE),
                            Left(r, PowMod(inverse, c.E, c.N), TRUE)} :
                  r \in {x \in Randoms : x < Pow2(BitsPerByte * (c.len - 1))}}

\* The CRT computation, exponents blinded with r (any r gives the same result: 1 stands for
\* the random one); a glitch disturbs the result modulo P.
Crt(c, t, r, glitch) ==
  LET tp == (PowMod(t, c.DP + (c.P - 1) * r, c.P) + (IF glitch THEN 1 ELSE 0)) % c.P
      tq == PowMod(t, c.DQ + (c.Q - 1) * r, c.Q)
  IN  tq + (((tp - tq) * c.QP) % c.P) * c.Q

VerifiedNot(c, t, in) == TRUE \* mutant: the result is not checked
Verified(c, t, in)    == PowMod(t, c.E, c.N) = in

mbedtls_rsa_private(c, rng, in) ==
  IF ~rsa_check_context(c, TRUE) THEN {Ran(c, "BAD_INPUT_DATA", 0, FALSE, FALSE)}
  ELSE IF in >= c.N THEN {Ran(c, "PRIVATE_FAILED", 0, FALSE, FALSE)}
  ELSE UNION {
    IF ~prepared[2] THEN {Ran(prepared[1], "PRIVATE_FAILED", 0, FALSE, TRUE)}
    ELSE LET b == prepared[1] IN
         {Ran(b, "PRIVATE_FAILED", 0, TRUE, FALSE)} \cup \* an allocation fails later
         {LET t == IF rng THEN (Crt(c, (in * b.Vi) % c.N, 1, glitch) * b.Vf) % c.N ELSE Crt(c, in, 0, glitch)
              done == [b EXCEPT !.used = TRUE]
          IN  IF Verified(c, t, in) THEN Ran(done, "ok", t, glitch, FALSE)
              ELSE Ran(done, "VERIFY_FAILED", 0, glitch, FALSE) :
            glitch \in BOOLEAN} :
    prepared \in IF rng THEN rsa_prepare_blinding(c) ELSE {<<c, TRUE>>}}

\* What an operation that ran leaves behind; with "text" what was encoded or decoded.
Leave(ran, rng, op, ret, in, out, text) ==
  /\ rng => blinded < MaxPrivate
  /\ ctx' = ran.c
  /\ last' = [op |-> op, ret |-> ret, in |-> in, out |-> out, text |-> text, glitch |-> ran.glitch]
  /\ spoiled' = (spoiled \/ ran.bad)
  /\ blinded' = IF rng THEN blinded + 1 ELSE blinded

Public  == \E in \in Inputs :
             LET ran == mbedtls_rsa_public(ctx, in)
             IN  Leave(ran, FALSE, "public", ran.ret, in, ran.out, <<>>)
Private == \E rng \in BOOLEAN, in \in Inputs : \E ran \in mbedtls_rsa_private(ctx, rng, in) :
             Leave(ran, rng, "private", ran.ret, in, ran.out, <<>>)
-----------------------------------------------------------------------------
\* OAEP.
Zeros(n)    == [i \in 1..n |-> 0]
\* Where the zeros that a string begins with end: at another byte, or at its last one.
ZerosEnd(s) == CHOOSE i \in 1..Len(s) : (s[i] # 0 \/ i = Len(s)) /\ \A j \in 1..(i - 1) : s[j] = 0
RandomString(length) == {s \in Salts : Len(s) = length}
mgf_mask(dst, src) ==
  [i \in 1..Len(dst) |-> ExclusiveOr(dst[i], Hash(src \o <<(i - 1) \div HashLen>>)[((i - 1) % HashLen) + 1])]

OaepBlock(olen, seed, msg) ==
  LET db     == mgf_mask(Hash(<<>>) \o Zeros(olen - 2 * HashLen - 2 - Len(msg)) \o <<1>> \o msg, seed)
  IN  <<0>> \o mgf_mask(seed, db) \o db

OaepRoom(olen, ilen) == olen >= ilen + 2 * HashLen + 2
mbedtls_rsa_rsaes_oaep_encrypt(c, rng, seed, msg) ==
  IF ~rng \/ ~c.hash \/ ~OaepRoom(c.len, Len(msg)) THEN Ran(c, "BAD_INPUT_DATA", 0, FALSE, FALSE)
  ELSE mbedtls_rsa_public(c, Number(OaepBlock(c.len, seed, msg)))

\* The checks of a decrypted block: <<ret, message>>.
OaepUnpad(ilen, buf) ==
  LET seed == mgf_mask(SubSeq(buf, 2, HashLen + 1), SubSeq(buf, HashLen + 2, ilen))
      db   == mgf_mask(SubSeq(buf, HashLen + 2, ilen), seed)
      rest == SubSeq(db, HashLen + 1, Len(db))
      one  == ZerosEnd(rest)
  IN  IF buf[1] # 0 \/ SubSeq(db, 1, HashLen) # Hash(<<>>) \/ rest[one] # 1 THEN <<"INVALID_PADDING", <<>>>>
      ELSE <<"ok", SubSeq(rest, one + 1, Len(rest))>>

OaepDecryptable(c) ==
  c.padding = "V21" /\ c.len >= MinBlock /\ c.len <= MaxLen /\ c.hash /\ c.len >= 2 * HashLen + 2
mbedtls_rsa_rsaes_oaep_decrypt(c, ran, max) ==
  IF ran.ret # "ok" THEN <<ran.ret, <<>>>>
  ELSE LET unpadded == OaepUnpad(c.len, Bytes(ran.out, c.len))
       IN  IF Len(unpadded[2]) > max THEN <<"OUTPUT_TOO_LARGE", <<>>>> ELSE unpadded

\* mbedtls_rsa_pkcs1_encrypt() and the other three dispatch on the padding.
mbedtls_rsa_pkcs1_encrypt ==
  IF ctx.padding = "V15" THEN last' = Outcome("v15", "chip", 0, 0) /\ UNCHANGED <<ctx, spoiled, blinded>>
  ELSE \E rng \in BOOLEAN, seed \in RandomString(HashLen), msg \in Messages :
         LET ran == mbedtls_rsa_rsaes_oaep_encrypt(ctx, rng, seed, msg)
         IN  Leave(ran, FALSE, "encrypt", ran.ret, 0, ran.out, msg)

Altered == <<Pow2(BitsPerByte)>>
\* It is given what was just encrypted, or something else.
mbedtls_rsa_pkcs1_decrypt ==
  /\ last.op = "encrypt" /\ last.ret = "ok" /\ ctx.padding = "V21"
  /\ \E rng \in BOOLEAN, in \in {last.out, (last.out + 1) % ctx.N}, max \in {0, MaxLen} :
       LET sent == IF in = last.out THEN last.text ELSE Altered
       IN  IF ~OaepDecryptable(ctx)
           THEN Leave(Ran(ctx, "", 0, FALSE, FALSE), FALSE, "decrypt", "BAD_INPUT_DATA", sent, max, <<>>)
           ELSE \E ran \in mbedtls_rsa_private(ctx, rng, in) :
                  LET result == mbedtls_rsa_rsaes_oaep_decrypt(ctx, ran, max)
                  IN  Leave(ran, rng, "decrypt", result[1], sent, max, result[2])
-----------------------------------------------------------------------------
\* PSS.  The encoding is over the bits of N but one.
PssSaltLen(olen) == IF olen >= 2 * HashLen + 2 THEN HashLen ELSE olen - HashLen - 2
PssHash(digest, salt) == Hash(Zeros(8) \o digest \o salt)
PssMsb(n) == BitLen(n) - 1

PssBlockNoOffset(n, olen, digest, salt) == \* mutant: the boundary condition is not compensated
  LET h  == PssHash(digest, salt)
      db == mgf_mask(Zeros(olen - HashLen - Len(salt) - 2) \o <<1>> \o salt, h)
  IN  [db EXCEPT ![1] = @ % Pow2(PssMsb(n) - (olen - 1) * BitsPerByte)] \o h \o <<Trailer>>
PssBlock(n, olen, digest, salt) ==
  LET h      == PssHash(digest, salt)
      db     == Zeros(olen - HashLen - Len(salt) - 2) \o <<1>> \o salt
      offset == IF PssMsb(n) % BitsPerByte = 0 THEN 1 ELSE 0
      masked == SubSeq(db, 1, offset) \o mgf_mask(SubSeq(db, offset + 1, Len(db)), h)
  IN  [masked EXCEPT ![1] = @ % Pow2(PssMsb(n) - (olen - 1) * BitsPerByte)] \o h \o <<Trailer>>

PssUnpadIgnoringTop(n, buf, digest, salt_len) == \* mutant: the unused top bits may be set
  LET siglen == IF PssMsb(n) % BitsPerByte = 0 THEN Len(buf) - 1 ELSE Len(buf)
      em     == SubSeq(buf, Len(buf) - siglen + 1, Len(buf))
      h      == SubSeq(em, siglen - HashLen, siglen - 1)
      masked == mgf_mask(SubSeq(em, 1, siglen - HashLen - 1), h)
      db     == [masked EXCEPT ![1] = @ % Pow2(PssMsb(n) - (siglen - 1) * BitsPerByte)]
      one    == ZerosEnd(db)
      salt   == SubSeq(db, one + 1, Len(db))
  IN  IF buf[Len(buf)] # Trailer \/ db[one] # 1 THEN "INVALID_PADDING"
      ELSE IF PssHash(digest, salt) # h THEN "VERIFY_FAILED" ELSE "ok"
\* The checks of mbedtls_rsa_rsassa_pss_verify_ext() on the block; salt_len -1 is any.
PssUnpad(n, buf, digest, salt_len) ==
  LET top    == buf[1] \div Pow2(PssMsb(n) - (Len(buf) - 1) * BitsPerByte)
      siglen == IF PssMsb(n) % BitsPerByte = 0 THEN Len(buf) - 1 ELSE Len(buf)
      em     == SubSeq(buf, Len(buf) - siglen + 1, Len(buf))
      h      == SubSeq(em, siglen - HashLen, siglen - 1)
      masked == mgf_mask(SubSeq(em, 1, siglen - HashLen - 1), h)
      db     == [masked EXCEPT ![1] = @ % Pow2(PssMsb(n) - (siglen - 1) * BitsPerByte)]
      one    == ZerosEnd(db)
      salt   == SubSeq(db, one + 1, Len(db))
  IN  IF buf[Len(buf)] # Trailer THEN "INVALID_PADDING"
      ELSE IF top # 0 \/ siglen < HashLen + 2 THEN "BAD_INPUT_DATA"
      ELSE IF db[one] # 1 \/ (salt_len # -1 /\ Len(salt) # salt_len) THEN "INVALID_PADDING"
      ELSE IF PssHash(digest, salt) # h THEN "VERIFY_FAILED" ELSE "ok"

mbedtls_rsa_rsassa_pss_sign(c, rng, digest, salt) ==
  IF c.padding # "V21" \/ ~rng \/ ~c.hash \/ c.len < 2 * HashLen
  THEN {Ran(c, "BAD_INPUT_DATA", 0, FALSE, FALSE)}
  ELSE mbedtls_rsa_private(c, rng, Number(PssBlock(c.N, c.len, digest, salt)))

\* mbedtls_rsa_rsassa_pss_verify() takes any salt length and the hash of the context or,
\* if it has none, the one of the message.
mbedtls_rsa_rsassa_pss_verify(c, in, digest, salt_len) ==
  LET ran == mbedtls_rsa_public(c, in)
  IN  IF c.len < MinBlock \/ c.len > MaxLen THEN "BAD_INPUT_DATA"
      ELSE IF ran.ret # "ok" THEN ran.ret
      ELSE PssUnpad(c.N, Bytes(ran.out, c.len), digest, salt_len)

mbedtls_rsa_pkcs1_sign ==
  IF ctx.padding = "V15" THEN last' = Outcome("v15", "chip", 0, 0) /\ UNCHANGED <<ctx, spoiled, blinded>>
  ELSE \E rng \in BOOLEAN, digest \in Digests :
         \E salt \in IF ctx.len < 2 * HashLen THEN {<<>>} ELSE RandomString(PssSaltLen(ctx.len)) :
           \E ran \in mbedtls_rsa_rsassa_pss_sign(ctx, rng, digest, salt) :
             Leave(ran, rng, "sign", ran.ret, 0, ran.out, digest)

mbedtls_rsa_pkcs1_verify ==
  /\ last.op = "sign" /\ last.ret = "ok"
  /\ \E in \in {last.out, (last.out + 1) % ctx.N}, digest \in Digests, salt_len \in {-1, HashLen} :
       /\ ctx.padding = "V15" => salt_len # -1 \* pkcs1_verify hands V15 to the chip; verify_ext does not look
       /\ Leave(Ran([ctx EXCEPT !.used = TRUE], "", 0, FALSE, FALSE), FALSE, "verify",
                mbedtls_rsa_rsassa_pss_verify(ctx, in, digest, salt_len),
                IF in = last.out THEN last.text ELSE Altered, salt_len, digest)
-----------------------------------------------------------------------------
Next ==
  \/ mbedtls_rsa_import \/ mbedtls_rsa_complete \/ mbedtls_rsa_gen_key
  \/ Check \/ mbedtls_rsa_export \/ mbedtls_rsa_set_padding
  \/ mbedtls_rsa_copy \/ mbedtls_rsa_free
  \/ Public \/ Private
  \/ mbedtls_rsa_pkcs1_encrypt \/ mbedtls_rsa_pkcs1_decrypt
  \/ mbedtls_rsa_pkcs1_sign \/ mbedtls_rsa_pkcs1_verify

Spec == Init /\ [][Next]_vars
-----------------------------------------------------------------------------
\* The keys that pass the checks when put together of all their parts, with a public exponent
\* in the usual range.
Whole(key) == WithCrt([Freed EXCEPT !.N = key.N, !.P = key.P, !.Q = key.Q, !.D = key.D, !.E = key.E,
                                    !.len = Size(key.N)])
FullKeys == {key \in Keys : /\ key.P # key.Q /\ mbedtls_rsa_check_privkey(Whole(key))
                            /\ key.E < Lcm(key.P - 1, key.Q - 1)}

\* What mbedtls_rsa_complete() makes of parts of one such key that suffice is that key: it
\* passes mbedtls_rsa_check_privkey(), or it is the public key that fits the private one.
Sufficient == {{"N", "D", "E"}, {"P", "Q", "D", "E"}, {"N", "P", "Q", "D", "E"}, {"P", "Q", "E"}, {"N", "P", "Q", "E"}}
Given(key, parts) == \A p \in Parts : ctx[p] = IF p \in parts THEN key[p] ELSE 0
CompleteRight ==
  [][last'.op = "complete" /\ last.op # "complete" =>
       \A key \in FullKeys :
         /\ (\E parts \in Sufficient : Given(key, parts)) =>
              last'.ret = "ok" /\ mbedtls_rsa_check_privkey(ctx') /\ ctx'.N = key.N /\ ctx'.E = key.E
         /\ Given(key, {"N", "E"}) => last'.ret = "ok" /\ mbedtls_rsa_check_pub_priv(ctx', Whole(key))]_vars

\* A generated key passes the checks and has the size asked for, P the larger prime; a
\* failed generation leaves no number of the key behind.
GenKeyRight ==
  last.op = "gen_key" =>
    /\ last.ret = "ok" => mbedtls_rsa_check_privkey(ctx) /\ BitLen(ctx.N) = last.in /\ ctx.P > ctx.Q
                            /\ BitLen(ctx.D) > last.in \div 2
    /\ last.ret = "KEY_GEN_FAILED" => \A f \in Parts \cup {"DP", "DQ", "QP", "Vi", "Vf"} : ctx[f] = 0

\* A key that mbedtls_rsa_check_privkey() accepts, put together from prime factors in
\* whatever way, decrypts through the CRT what was encrypted with it.
AcceptedKeyWorks ==
  last.op = "check_privkey" /\ last.ret = "ok" =>
    \A m \in 0..(ctx.N - 1) : Crt(ctx, PowMod(m, ctx.E, ctx.N), 0, FALSE) = m

\* The blinding values undo each other, however often they have been squared and whether or
\* not the context is a copy, unless making them was interrupted.
BlindingConsistent ==
  ctx.blinding /\ ~spoiled => (PowMod(ctx.Vf, ctx.E, ctx.N) * ctx.Vi) % ctx.N = 1

\* With such blinding values an accepted key never fails on a number below the modulus.
PrivateSucceeds ==
  last.op = "private" /\ last.in < ctx.N /\ ~last.glitch /\ ~spoiled /\ mbedtls_rsa_check_privkey(ctx)
    => last.ret = "ok"

\* Whatever glitch, or spoiled blinding: a result that is given out is the right one.
PrivateRight ==
  last.op = "private" /\ last.ret = "ok" /\ mbedtls_rsa_check_privkey(ctx)
    => last.out = PowMod(last.in, ctx.D, ctx.N)
\* The two together: the private operation gives the right number or, when disturbed, none.
PrivateSound == PrivateSucceeds /\ PrivateRight

\* What was encrypted with OAEP under a key is what that key decrypts, with and without
\* blinding, and it decrypts whenever there is room for the message.
OaepRoundTrip ==
  last.op = "decrypt" /\ last.in # Altered /\ OaepDecryptable(ctx) /\ mbedtls_rsa_check_privkey(ctx) =>
    /\ last.ret = "ok" => last.in = last.text
    /\ Len(last.in) <= last.out /\ ~last.glitch /\ ~spoiled => last.ret = "ok"

\* A signature made with PSS verifies for its digest.  (Not with a modulus of a whole number
\* of bytes and one bit that has no byte to spare: see PssComplies.)
HasRoom(n, olen) == PssMsb(n) % BitsPerByte # 0 \/ olen > 2 * HashLen + 2
PssRoundTrip ==
  (/\ last.op = "verify" /\ mbedtls_rsa_check_privkey(ctx)
   /\ ctx.len >= MinBlock /\ HasRoom(ctx.N, ctx.len)
   /\ last.in = last.text /\ last.out \in {-1, PssSaltLen(ctx.len)}) => last.ret = "ok"

\* Both paddings can be undone with the key that they were made with.
PaddingRoundTrip == OaepRoundTrip /\ PssRoundTrip

\* Over all blocks of the length of a key, OAEP accepts those that encoding can make, and
\* gives back the message; PSS those of RFC 8017, 9.1.1, with a salt of any length.
KeyLengths == {<<key.N, Size(key.N)>> : key \in {k \in Keys : Size(k.N) >= 2 * HashLen + 2}}
AllStrings(n) == [1..n -> Byte]
OaepAcceptsEncodings ==
  last.op = "init" =>
    \A olen \in {length[2] : length \in KeyLengths} :
      LET Room == UNION {AllStrings(n) : n \in 0..(olen - 2 * HashLen - 2)}
          made == {<<OaepBlock(olen, seed, m), m>> : seed \in AllStrings(HashLen), m \in Room}
          sent == {pair[1] : pair \in made}
      IN  /\ \A pair \in made : OaepUnpad(olen, pair[1]) = <<"ok", pair[2]>>
          /\ \A b \in AllStrings(olen) : OaepUnpad(olen, b)[1] = "ok" => b \in sent

RfcBlock(msb, olen, digest, salt) ==
  LET emLen == (msb + BitsPerByte - 1) \div BitsPerByte
      h     == PssHash(digest, salt)
      db    == mgf_mask(Zeros(emLen - Len(salt) - HashLen - 2) \o <<1>> \o salt, h)
  IN  Zeros(olen - emLen) \o [db EXCEPT ![1] = @ % Pow2(BitsPerByte - (BitsPerByte * emLen - msb))] \o h \o <<Trailer>>
RfcBlocks(msb, olen, digest) ==
  {RfcBlock(msb, olen, digest, salt) :
     salt \in UNION {AllStrings(n) : n \in 0..((msb + BitsPerByte - 1) \div BitsPerByte - HashLen - 2)}}
PssAcceptsRfc ==
  last.op = "init" =>
    \A length \in KeyLengths, digest \in Digests :
      {b \in AllStrings(length[2]) : PssUnpad(length[1], b, digest, -1) = "ok"}
        = RfcBlocks(PssMsb(length[1]), length[2], digest)

\* What the two verifications accept is what their encodings can make, and nothing else.
PaddingExact == OaepAcceptsEncodings /\ PssAcceptsRfc

\* trustm_rsa.c on the salt length of a PSS signature: "This complies with FIPS 186-4 5.5 (e)
\* and RFC 8017 (PKCS#1 v2.2) 9.1.1 step 3": the block is one that RFC 8017 defines.
PssComplies ==
  last.op = "sign" /\ last.ret = "ok" =>
    PowMod(last.out, ctx.E, ctx.N) \in
      {Number(b) : b \in RfcBlocks(PssMsb(ctx.N), ctx.len, last.text)}
=============================================================================
