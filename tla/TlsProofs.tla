------------------------------- MODULE TlsProofs -------------------------------
(***************************************************************************)
(* Theorems about Tls: what contexts hold and free, the certificates of a  *)
(* handshake, and the bytes of a connection, for any contexts, parameters, *)
(* lengths and record sizes.                                               *)
(***************************************************************************)
EXTENDS Tls, Integers, TLAPS

-----------------------------------------------------------------------------
(* The bytes of a connection *)

IoRecord == [call : {"none", "send", "send_error", "recv", "recv_error"}, count : Nat, told : Nat, wire : Nat,
             pending : Nat, taken : Nat, got : Nat]
Sent(r)     == IF r.call \in {"send", "send_error"} THEN r.told + r.count ELSE r.told
Received(r) == IF r.call \in {"recv", "recv_error"} THEN r.got + r.count ELSE r.got

\* The record that waits is the one that the next call would take again.
IoOk(r) ==
  /\ r \in IoRecord
  /\ Sent(r) <= Length /\ r.wire = Sent(r) + r.pending
  /\ r.pending > 0 => r.pending = Least(Length - Sent(r), MaxFragment)
  /\ r.taken = Received(r)
IoInv == io \in [Contexts -> IoRecord] /\ \A c \in Contexts : IoOk(io[c])

\* No transfer has begun on a new connection.
LEMMA NoIoOk == IoOk(NoIo)
  BY LengthAssumption DEF IoOk, IoRecord, NoIo, Sent, Received

\* What is correct of the new transfers of one context is correct of all.
LEMMA IoUpdate ==
  ASSUME IoInv, NEW c \in Contexts, NEW r, IoOk(r), io' = [io EXCEPT ![c] = r]
  PROVE  IoInv'
<1>1. r \in IoRecord
  BY DEF IoOk
<1>2. io' \in [Contexts -> IoRecord]
  BY <1>1 DEF IoInv
<1>3. ASSUME NEW d \in Contexts PROVE IoOk(io'[d])
  <2>1. CASE d = c
    BY <2>1 DEF IoInv
  <2>2. CASE d # c
    BY <2>2 DEF IoInv
  <2>3. QED
    BY <2>1, <2>2
<1>4. QED
  BY <1>2, <1>3 DEF IoInv

\* A step of mbedtls_ssl_write() takes new bytes only when no record waits.
LEMMA SendKeepsIo == ASSUME IoInv, NEW c \in Contexts, SendStep(c) PROVE IoInv'
<1> DEFINE r    == io[c]
           left == Length - r.told - r.count
           n    == Least(left, MaxFragment)
           wire == IF r.pending > 0 THEN r.wire ELSE r.wire + n
<1>1. r \in IoRecord /\ IoOk(r)
  BY DEF IoInv
<1>2. r.call = "send" /\ left > 0 /\ left \in Nat /\ Sent(r) = r.told + r.count /\ left = Length - Sent(r)
  BY <1>1, LengthAssumption DEF SendStep, Sent, IoRecord
<1>3. n \in Nat /\ n > 0 /\ n <= left
  BY <1>2, LengthAssumption DEF Least
<1>4. wire \in Nat /\ wire = Sent(r) + n
  BY <1>1, <1>2, <1>3 DEF IoOk, IoRecord
<1>5. \/ io' = [io EXCEPT ![c] = [r EXCEPT !.wire = wire, !.pending = 0, !.count = @ + n]]
      \/ io' = [io EXCEPT ![c] = [r EXCEPT !.wire = wire, !.pending = n, !.call = "send_error"]]
      \/ io' = [io EXCEPT ![c] = [r EXCEPT !.wire = wire, !.pending = n]]
      \/ io' = [io EXCEPT ![c] = [r EXCEPT !.call = "send_error"]]
  BY DEF SendStep, Io
<1> HIDE DEF wire, n, left
<1>6. IoOk([r EXCEPT !.wire = wire, !.pending = 0, !.count = @ + n])
  <2> DEFINE total == r.count + n
             t     == [r EXCEPT !.wire = wire, !.pending = 0, !.count = total]
  <2>1. total \in Nat
    BY <1>1, <1>3 DEF IoRecord
  <2> HIDE DEF total
  <2>2. /\ t \in IoRecord /\ t.call = "send" /\ t.count = total /\ t.told = r.told
        /\ t.wire = wire /\ t.pending = 0 /\ t.taken = r.taken /\ t.got = r.got
    BY <1>1, <1>2, <1>4, <2>1 DEF IoRecord
  <2> HIDE DEF t
  <2>3. r.told \in Nat /\ r.count \in Nat /\ r.taken = r.got
    BY <1>1, <1>2 DEF IoOk, IoRecord, Received
  <2>4. Sent(t) = Sent(r) + n /\ Received(t) = r.got
    BY <1>2, <1>3, <2>2, <2>3 DEF Sent, Received, total
  <2>5. IoOk(t)
    BY <1>2, <1>3, <1>4, <2>2, <2>3, <2>4, LengthAssumption DEF IoOk
  <2>6. QED
    BY <2>5 DEF t, total
<1>7. /\ IoOk([r EXCEPT !.wire = wire, !.pending = n, !.call = "send_error"])
      /\ IoOk([r EXCEPT !.wire = wire, !.pending = n])
  BY <1>1, <1>2, <1>3, <1>4, LengthAssumption DEF IoOk, IoRecord, Sent, Received, n
<1>8. IoOk([r EXCEPT !.call = "send_error"])
  BY <1>1, <1>2 DEF IoOk, IoRecord, Sent, Received
<1>9. QED
  BY <1>5, <1>6, <1>7, <1>8, IoUpdate

\* The other steps of a transfer.
LEMMA TransferKeepsIo ==
  ASSUME IoInv, NEW c \in Contexts,
         SendBegin(c) \/ SendEnd(c) \/ RecvBegin(c) \/ RecvStep(c) \/ RecvEnd(c)
  PROVE  IoInv'
<1> DEFINE r == io[c]
<1>1. r \in IoRecord /\ IoOk(r)
  BY DEF IoInv
<1>2. /\ r.count \in Nat /\ r.told \in Nat /\ r.wire \in Nat /\ r.pending \in Nat /\ r.taken \in Nat /\ r.got \in Nat
      /\ Length \in Nat
  BY <1>1, LengthAssumption DEF IoRecord
<1>3. ASSUME NEW t \in IoRecord, Sent(t) = Sent(r), t.wire = r.wire, t.pending = r.pending, t.taken = Received(t)
      PROVE  IoOk(t)
  BY <1>1, <1>3 DEF IoOk
<1>4. CASE SendBegin(c)
  <2> DEFINE t == [r EXCEPT !.call = "send", !.count = 0]
  <2>1. /\ t \in IoRecord /\ t.call = "send" /\ t.count = 0 /\ t.told = r.told
        /\ t.wire = r.wire /\ t.pending = r.pending /\ t.taken = r.taken /\ t.got = r.got
    BY <1>1 DEF IoRecord
  <2>2. io' = [io EXCEPT ![c] = t] /\ r.call = "none"
    BY <1>4 DEF SendBegin, Io
  <2> HIDE DEF t
  <2>3. Sent(t) = Sent(r) /\ t.taken = Received(t)
    BY <1>1, <1>2, <2>1, <2>2 DEF Sent, Received, IoOk
  <2>4. QED
    BY <1>3, <2>1, <2>2, <2>3, IoUpdate
<1>5. CASE SendEnd(c)
  <2> DEFINE total == r.told + r.count
             t     == [r EXCEPT !.call = "none", !.told = total, !.count = 0]
  <2>1. io' = [io EXCEPT ![c] = t] /\ r.call \in {"send", "send_error"} /\ total \in Nat
    BY <1>2, <1>5 DEF SendEnd, Io
  <2> HIDE DEF total
  <2>2. /\ t \in IoRecord /\ t.call = "none" /\ t.count = 0 /\ t.told = total
        /\ t.wire = r.wire /\ t.pending = r.pending /\ t.taken = r.taken /\ t.got = r.got
    BY <1>1, <1>2, <2>1 DEF IoRecord
  <2> HIDE DEF t
  <2>3. Sent(t) = Sent(r) /\ t.taken = Received(t)
    BY <1>1, <1>2, <2>2, <2>1 DEF Sent, Received, IoOk, total
  <2>4. QED
    BY <1>3, <2>2, <2>1, <2>3, IoUpdate
<1>6. CASE RecvBegin(c)
  <2> DEFINE t == [r EXCEPT !.call = "recv", !.count = 0]
  <2>1. /\ t \in IoRecord /\ t.call = "recv" /\ t.count = 0 /\ t.told = r.told
        /\ t.wire = r.wire /\ t.pending = r.pending /\ t.taken = r.taken /\ t.got = r.got
    BY <1>1 DEF IoRecord
  <2>2. io' = [io EXCEPT ![c] = t] /\ r.call = "none"
    BY <1>6 DEF RecvBegin, Io
  <2> HIDE DEF t
  <2>3. Sent(t) = Sent(r) /\ t.taken = Received(t)
    BY <1>1, <1>2, <2>1, <2>2 DEF Sent, Received, IoOk
  <2>4. QED
    BY <1>3, <2>1, <2>2, <2>3, IoUpdate
<1>7. CASE RecvStep(c)
  <2>1. r.call = "recv" /\ r.taken = r.got + r.count
    BY <1>1, <1>7 DEF RecvStep, IoOk, Received
  <2>2. ASSUME NEW n \in Nat, io' = [io EXCEPT ![c] = [r EXCEPT !.taken = @ + n, !.count = @ + n]]
        PROVE  IoInv'
    <3> DEFINE taken == r.taken + n
               count == r.count + n
               t     == [r EXCEPT !.taken = taken, !.count = count]
    <3>1. taken \in Nat /\ count \in Nat
      BY <1>2
    <3> HIDE DEF taken, count
    <3>2. /\ t \in IoRecord /\ t.call = "recv" /\ t.count = count /\ t.told = r.told
          /\ t.wire = r.wire /\ t.pending = r.pending /\ t.taken = taken /\ t.got = r.got
      BY <1>1, <2>1, <3>1 DEF IoRecord
    <3> HIDE DEF t
    <3>3. Sent(t) = Sent(r) /\ t.taken = Received(t)
      BY <1>2, <2>1, <3>2 DEF Sent, Received, taken, count
    <3>4. QED
      BY <1>3, <2>2, <3>2, <3>3, IoUpdate DEF t, taken, count
  <2>3. ASSUME io' = [io EXCEPT ![c] = [r EXCEPT !.call = "recv_error"]] PROVE IoInv'
    <3> DEFINE t == [r EXCEPT !.call = "recv_error"]
    <3>1. /\ t \in IoRecord /\ t.call = "recv_error" /\ t.count = r.count /\ t.told = r.told
          /\ t.wire = r.wire /\ t.pending = r.pending /\ t.taken = r.taken /\ t.got = r.got
      BY <1>1 DEF IoRecord
    <3> HIDE DEF t
    <3>2. Sent(t) = Sent(r) /\ t.taken = Received(t)
      BY <2>1, <3>1 DEF Sent, Received
    <3>3. QED
      BY <1>3, <2>3, <3>1, <3>2, IoUpdate DEF t
  <2>4. (\E n \in Nat : io' = [io EXCEPT ![c] = [r EXCEPT !.taken = @ + n, !.count = @ + n]])
        \/ io' = [io EXCEPT ![c] = [r EXCEPT !.call = "recv_error"]]
    <3>1. \A n \in 1..Least(Length - r.got - r.count, MaxFragment) : n \in Nat
      <4>1. Least(Length - r.got - r.count, MaxFragment) \in Int
        BY <1>2, LengthAssumption DEF Least
      <4>2. QED
        BY <4>1
    <3>2. QED
      BY <1>7, <3>1 DEF RecvStep, Io
  <2>5. QED
    BY <2>2, <2>3, <2>4
<1>8. CASE RecvEnd(c)
  <2> DEFINE total == r.got + r.count
             t     == [r EXCEPT !.call = "none", !.got = total, !.count = 0]
  <2>1. io' = [io EXCEPT ![c] = t] /\ r.call \in {"recv", "recv_error"} /\ total \in Nat
    BY <1>2, <1>8 DEF RecvEnd, Io
  <2> HIDE DEF total
  <2>2. /\ t \in IoRecord /\ t.call = "none" /\ t.count = 0 /\ t.told = r.told
        /\ t.wire = r.wire /\ t.pending = r.pending /\ t.taken = r.taken /\ t.got = total
    BY <1>1, <1>2, <2>1 DEF IoRecord
  <2> HIDE DEF t
  <2>3. Sent(t) = Sent(r) /\ t.taken = Received(t)
    BY <1>1, <1>2, <2>2, <2>1 DEF Sent, Received, IoOk, total
  <2>4. QED
    BY <1>3, <2>2, <2>1, <2>3, IoUpdate
<1>9. QED
  BY <1>4, <1>5, <1>6, <1>7, <1>8

\* Nothing else touches the transfers, except for the deletion of a context.
LEMMA RestKeepsIo == ASSUME IoInv, UNCHANGED io \/ \E c \in Contexts : cy_tls_delete_context(c) PROVE IoInv'
<1>1. CASE UNCHANGED io
  BY <1>1 DEF IoInv
<1>2. CASE \E c \in Contexts : cy_tls_delete_context(c)
  BY <1>2, NoIoOk, IoUpdate DEF cy_tls_delete_context
<1>3. QED
  BY <1>1, <1>2

\* Every byte is sent once, in order, and accounted for to the caller, and every byte that
\* is received is given to it: for any length of the message and of a record, and however
\* often a call is interrupted or fails.
THEOREM StreamCorrect == Spec => []StreamIntact
<1>1. Init => IoInv
  BY NoIoOk DEF Init, IoInv, IoOk
<1>2. IoInv /\ [Next]_vars => IoInv'
  <2> SUFFICES ASSUME IoInv, [Next]_vars PROVE IoInv'
    OBVIOUS
  <2>1. CASE \E c \in Contexts : SendStep(c)
    BY <2>1, SendKeepsIo
  <2>2. CASE \E c \in Contexts : SendBegin(c) \/ SendEnd(c) \/ RecvBegin(c) \/ RecvStep(c) \/ RecvEnd(c)
    BY <2>2, TransferKeepsIo
  <2>3. CASE UNCHANGED io \/ \E c \in Contexts : cy_tls_delete_context(c)
    BY <2>3, RestKeepsIo
  <2>4. QED
    BY <2>1, <2>2, <2>3
    DEF Next, vars, cy_tls_init, cy_tls_deinit, cy_tls_create_identity, cy_tls_delete_identity, ReleaseRootCa,
        StoreRootCa, cy_tls_create_context, ConnectBegin, RootCa, ClientCertificate, SslSetup, Handshake
<1>3. IoInv => StreamIntact
  <2> SUFFICES ASSUME IoInv, NEW c \in Contexts
               PROVE  /\ io[c].wire = io[c].told + io[c].count * (IF io[c].call \in {"send", "send_error"} THEN 1 ELSE 0)
                                      + io[c].pending
                      /\ io[c].wire <= Length
                      /\ io[c].call \notin {"recv", "recv_error"} => io[c].taken = io[c].got
    BY DEF StreamIntact
  <2>1. io[c] \in IoRecord /\ IoOk(io[c])
    BY DEF IoInv
  <2>2. Sent(io[c]) = io[c].told + io[c].count * (IF io[c].call \in {"send", "send_error"} THEN 1 ELSE 0)
    BY <2>1 DEF Sent, IoRecord
  <2>3. io[c].wire <= Length
    BY <2>1, LengthAssumption DEF IoOk, IoRecord, Sent, Least
  <2>4. QED
    BY <2>1, <2>2, <2>3 DEF IoOk, Received
<1>4. QED
  BY <1>1, <1>2, <1>3, PTL DEF Spec
-----------------------------------------------------------------------------
(* What contexts hold and free, and their certificates *)

Causes == {"none", "configuration", "memory", "own_cert", "setup", "hostname", "handshake"}
Record == [pc : {"none", "begin", "ca", "client", "setup", "handshake", "connected", "failed"},
           params : [ca : {"storage", "ram", "global"}, device : {"storage", "identity", "none"}],
           mbedtls_ca_cert : BOOLEAN, cert_x509ca : BOOLEAN, cert_client : BOOLEAN, session : BOOLEAN,
           tls_handshake_successful : BOOLEAN, chain : {"none", "storage", "ram", "global"} \X Nat,
           own : {"none", "client", "identity"}, cause : Causes, crossed : BOOLEAN]

\* A context takes its certificates one after the other.
Ordered(r) ==
  /\ r.pc \in {"none", "begin", "ca"} => ~r.mbedtls_ca_cert /\ ~r.cert_x509ca
  /\ r.pc \in {"none", "begin", "ca", "client"} => ~r.cert_client /\ r.own = "none"
  /\ r.pc = "none" => ~r.session
  /\ r.pc = "failed" /\ r.own # "none" => r.cause \in {"setup", "hostname", "handshake"}
  /\ r.tls_handshake_successful <=> r.pc = "connected"

\* What a context holds is what its fields say, and what mbedTLS has built with them.
Exact(r, h) ==
  /\ h \subseteq Objects
  /\ "context" \in h <=> r.pc # "none"
  /\ "session" \in h <=> r.session
  /\ "ca" \in h <=> r.mbedtls_ca_cert
  /\ "x509ca" \in h <=> r.cert_x509ca
  /\ "client" \in h <=> r.cert_client
  /\ "key_cert" \in h <=> r.own # "none" /\ ~(r.pc = "failed" /\ r.cause = "handshake")
  /\ "buffers" \in h <=> r.pc \in {"handshake", "connected"} \/ (r.pc = "failed" /\ r.cause = "hostname")

\* The certificates are of the sources asked for, and they exist.
RightCertificates(r, valid, id) ==
  /\ r.chain[1] = "global" => r.crossed \/ r.chain[2] \in valid
  /\ r.params.device = "identity" => id # {}
  /\ r.pc \in {"none", "begin", "ca"} => r.chain[1] = "none"
  /\ r.pc \in {"client", "setup", "handshake"} =>
       /\ r.chain[1] \in {"none", r.params.ca}
       /\ r.chain[1] = "storage" => r.cert_x509ca
       /\ r.chain[1] = "ram" => r.mbedtls_ca_cert
  /\ r.pc \in {"setup", "handshake"} =>
       /\ r.own = (CASE r.params.device = "storage" -> IF r.cert_client THEN "client" ELSE "none"
                     [] OTHER -> r.params.device)
       /\ r.cert_client => r.session

ContextOk(r, h, valid, id) == r \in Record /\ Ordered(r) /\ Exact(r, h) /\ RightCertificates(r, valid, id)

\* The global pointer is NULL or a certificate that was loaded and not freed.
GlobalInv ==
  /\ loads \in Nat /\ root_ca_certificates \in 0..loads /\ global_pc \in {"idle", "load", "release"}
  /\ global_ca = IF global_pc = "idle" THEN {root_ca_certificates} \ {NULL} ELSE {}

HeapInv ==
  /\ GlobalInv /\ ~freed_twice
  /\ ctx \in [Contexts -> Record] /\ held \in [Contexts -> SUBSET Objects]
  /\ \A c \in Contexts : ContextOk(ctx[c], held[c], global_ca, identity)

\* Outside of the life of a context there is nothing.
LEMMA NoContextOk == ASSUME NEW valid, NEW id PROVE ContextOk(NoContext, {}, valid, id)
<1>1. NoContext \in Record
  BY DEF NoContext, Record, Causes, NULL
<1>2. QED
  BY <1>1 DEF ContextOk, Ordered, Exact, RightCertificates, NoContext

LEMMA HeapInitially == Init => HeapInv
<1> SUFFICES ASSUME Init PROVE HeapInv
  OBVIOUS
<1>1. GlobalInv /\ ~freed_twice
  BY DEF Init, GlobalInv, NULL
<1>2. \A c \in Contexts : ctx[c] = NoContext /\ held[c] = {}
  BY DEF Init
<1>3. NoContext \in Record /\ \A c \in Contexts : ContextOk(ctx[c], held[c], global_ca, identity)
  BY <1>2, NoContextOk DEF ContextOk
<1>4. QED
  BY <1>1, <1>3 DEF Init, HeapInv

\* What is correct of the new state of one context is correct of all.
LEMMA ContextChange ==
  ASSUME HeapInv, NEW c \in Contexts, NEW r, NEW h, ContextOk(r, h, global_ca, identity),
         ctx' = [ctx EXCEPT ![c] = r], held' = [held EXCEPT ![c] = h], ~freed_twice', UNCHANGED globals
  PROVE  HeapInv'
<1>1. GlobalInv' /\ global_ca' = global_ca /\ identity' = identity
  BY DEF HeapInv, GlobalInv, globals
<1>2. r \in Record /\ h \subseteq Objects
  BY DEF ContextOk, Exact
<1>3. ctx' \in [Contexts -> Record] /\ held' \in [Contexts -> SUBSET Objects]
  BY <1>2 DEF HeapInv
<1>4. ASSUME NEW d \in Contexts PROVE ContextOk(ctx'[d], held'[d], global_ca', identity')
  <2>1. CASE d = c
    <3>1. ctx'[d] = r /\ held'[d] = h
      BY <2>1 DEF HeapInv
    <3>2. QED
      BY <1>1, <3>1
  <2>2. CASE d # c
    <3>1. ctx'[d] = ctx[d] /\ held'[d] = held[d]
      BY <2>2 DEF HeapInv
    <3>2. QED
      BY <1>1, <3>1 DEF HeapInv
  <2>3. QED
    BY <2>1, <2>2
<1>5. QED
  BY <1>1, <1>3, <1>4 DEF HeapInv

\* A step of one context that obtains and frees what its new fields say.
LEMMA ContextStep ==
  ASSUME HeapInv, NEW c \in Contexts, NEW r, NEW new, NEW old, Update(c, r, new, old),
         ContextOk(r, (held[c] \cup new) \ old, global_ca, identity), old \subseteq held[c] \cup new,
         UNCHANGED globals
  PROVE  HeapInv'
<1>1. ~freed_twice'
  BY DEF HeapInv, Update
<1>2. ctx' = [ctx EXCEPT ![c] = r] /\ held' = [held EXCEPT ![c] = (held[c] \cup new) \ old]
  BY DEF Update
<1>3. QED
  BY <1>1, <1>2, ContextChange

\* A context whose connection fails may have freed its certificates, and keeps the rest.
LEMMA FailedOk ==
  ASSUME NEW r, NEW h, NEW valid, NEW id, ContextOk(r, h, valid, id),
         r.pc \in {"begin", "ca", "client", "setup", "handshake"},
         NEW why \in Causes \ {"none"}, r.own # "none" => why \in {"setup", "hostname", "handshake"},
         NEW t, t \in Record, t.pc = "failed", t.cause = why, t.session = r.session, t.own = r.own,
         t.mbedtls_ca_cert = r.mbedtls_ca_cert, t.params = r.params, t.chain = r.chain, t.crossed = r.crossed,
         t.tls_handshake_successful = r.tls_handshake_successful,
         NEW k, k \subseteq Objects, \A o \in {"context", "session", "ca"} : o \in k <=> o \in h,
         "x509ca" \in k <=> t.cert_x509ca, "client" \in k <=> t.cert_client,
         "key_cert" \in k <=> r.own # "none" /\ why # "handshake", "buffers" \in k <=> why = "hostname"
  PROVE  ContextOk(t, k, valid, id)
<1>1. Ordered(t)
  BY DEF ContextOk, Ordered
<1>2. Exact(t, k)
  BY DEF ContextOk, Exact
<1>3. RightCertificates(t, valid, id)
  BY DEF ContextOk, RightCertificates
<1>4. QED
  BY <1>1, <1>2, <1>3 DEF ContextOk

\* The steps up to the choice of the certificates.
LEMMA ConnectKeepsHeap ==
  ASSUME HeapInv, NEW c \in Contexts, cy_tls_create_context(c) \/ ConnectBegin(c)
  PROVE  HeapInv'
<1> USE DEF ContextOk, Ordered, Exact, RightCertificates
<1>1. ContextOk(ctx[c], held[c], global_ca, identity)
  BY DEF HeapInv
<1>2. CASE cy_tls_create_context(c)
  <2>1. PICK p \in Params :
          /\ p.device = "identity" => identity # {}
          /\ \/ Update(c, [NoContext EXCEPT !.pc = "begin", !.params = p, !.session = TRUE], {"context", "session"}, {})
             \/ Update(c, [NoContext EXCEPT !.pc = "begin", !.params = p], {"context"}, {})
             \/ Update(c, NoContext, {"context"}, {"context"})
    BY <1>2 DEF cy_tls_create_context
  <2>2. held[c] = {}
    BY <1>1, <1>2 DEF cy_tls_create_context, At, Objects
  <2>3. p \in [ca : {"storage", "ram", "global"}, device : {"storage", "identity", "none"}]
    BY <2>1, ParamsAssumption
  <2> DEFINE opened == [NoContext EXCEPT !.pc = "begin", !.params = p, !.session = TRUE]
             without == [NoContext EXCEPT !.pc = "begin", !.params = p]
  <2>4. ContextOk(opened, (held[c] \cup {"context", "session"}) \ {}, global_ca, identity)
    <3>1. opened \in Record
      BY <2>3 DEF NoContext, Record, Causes, NULL
    <3>2. QED
      BY <2>1, <2>2, <3>1 DEF NoContext, Objects
  <2>5. ContextOk(without, (held[c] \cup {"context"}) \ {}, global_ca, identity)
    <3>1. without \in Record
      BY <2>3 DEF NoContext, Record, Causes, NULL
    <3>2. QED
      BY <2>1, <2>2, <3>1 DEF NoContext, Objects
  <2>6. ContextOk(NoContext, (held[c] \cup {"context"}) \ {"context"}, global_ca, identity)
    <3>1. (held[c] \cup {"context"}) \ {"context"} = {}
      BY <2>2
    <3>2. QED
      BY <3>1, NoContextOk
  <2>7. UNCHANGED globals
    BY <1>2 DEF cy_tls_create_context
  <2> HIDE DEF opened, without, ContextOk
  <2>8. QED
    BY <2>1, <2>4, <2>5, <2>6, <2>7, ContextStep DEF opened, without
<1>3. CASE ConnectBegin(c)
  <2> DEFINE going  == [ctx[c] EXCEPT !.pc = "ca"]
             failed == [ctx[c] EXCEPT !.pc = "failed", !.cause = "configuration"]
  <2>1. ctx[c].pc = "begin" /\ (held[c] \cup {}) \ {} = held[c]
    BY <1>3 DEF ConnectBegin, At
  <2>2. ContextOk(going, held[c], global_ca, identity)
    BY <1>1, <2>1 DEF Record
  <2>3. ContextOk(failed, held[c], global_ca, identity)
    BY <1>1, <2>1 DEF Record, Causes
  <2>4. UNCHANGED globals /\ (Update(c, going, {}, {}) \/ Update(c, failed, {}, {}))
    BY <1>3 DEF ConnectBegin, Fail
  <2> HIDE DEF going, failed, ContextOk
  <2>5. QED
    BY <2>1, <2>2, <2>3, <2>4, ContextStep
<1>4. QED
  BY <1>2, <1>3

\* The root certificate is one of the source asked for, or there is none.
LEMMA RootCaKeepsHeap == ASSUME HeapInv, NEW c \in Contexts, RootCa(c) PROVE HeapInv'
<1> USE DEF ContextOk, Ordered, Exact, RightCertificates
<1>1. ContextOk(ctx[c], held[c], global_ca, identity)
  BY DEF HeapInv
<1>2. ctx[c].pc = "ca" /\ UNCHANGED globals
  BY DEF RootCa, At
<1> DEFINE failed  == [ctx[c] EXCEPT !.pc = "failed", !.cause = "memory"]
           without == [ctx[c] EXCEPT !.pc = "client"]
           stored  == [ctx[c] EXCEPT !.pc = "client", !.cert_x509ca = TRUE, !.chain = <<"storage", NULL>>]
           given   == [ctx[c] EXCEPT !.pc = "client", !.mbedtls_ca_cert = TRUE, !.chain = <<"ram", NULL>>]
           shared  == [ctx[c] EXCEPT !.pc = "client", !.crossed = @ \/ global_pc # "idle",
                        !.chain = IF root_ca_certificates # NULL THEN <<"global", root_ca_certificates>> ELSE @]
<1>3. ContextOk(failed, (held[c] \cup {}) \ {}, global_ca, identity)
  BY <1>1, <1>2 DEF Record, Causes
<1>4. /\ ContextOk(without, (held[c] \cup {"x509ca"}) \ {"x509ca"}, global_ca, identity)
      /\ ContextOk(without, (held[c] \cup {"ca"}) \ {"ca"}, global_ca, identity)
  BY <1>1, <1>2 DEF Record
<1>5. CASE ctx[c].params.ca = "storage"
  <2>1. ContextOk(stored, (held[c] \cup {"x509ca"}) \ {}, global_ca, identity)
    BY <1>1, <1>2, <1>5 DEF Record, Objects, NULL
  <2>2. \/ Update(c, failed, {}, {}) \/ Update(c, stored, {"x509ca"}, {})
        \/ Update(c, without, {"x509ca"}, {"x509ca"})
    BY <1>5 DEF RootCa, FromStorage, Fail
  <2> HIDE DEF failed, without, stored, ContextOk
  <2>3. QED
    BY <1>2, <1>3, <1>4, <2>1, <2>2, ContextStep
<1>6. CASE ctx[c].params.ca = "ram"
  <2>1. ContextOk(given, (held[c] \cup {"ca"}) \ {}, global_ca, identity)
    BY <1>1, <1>2, <1>6 DEF Record, Objects, NULL
  <2>2. Update(c, given, {"ca"}, {}) \/ Update(c, without, {"ca"}, {"ca"})
    BY <1>6 DEF RootCa, FromRam
  <2> HIDE DEF without, given, ContextOk
  <2>3. QED
    BY <1>2, <1>4, <2>1, <2>2, ContextStep
<1>7. CASE ctx[c].params.ca \notin {"storage", "ram"}
  <2>1. ctx[c].params.ca = "global"
    BY <1>1, <1>7 DEF Record
  <2>2. root_ca_certificates \in Nat /\ (global_pc = "idle" /\ root_ca_certificates # NULL => root_ca_certificates \in global_ca)
    BY DEF HeapInv, GlobalInv
  <2>3. shared \in Record
    BY <1>1, <2>2 DEF Record
  <2>4. ContextOk(shared, (held[c] \cup {}) \ {}, global_ca, identity)
    <3>1. /\ shared.pc = "client" /\ shared.params = ctx[c].params /\ shared.session = ctx[c].session
          /\ shared.mbedtls_ca_cert = ctx[c].mbedtls_ca_cert /\ shared.cert_x509ca = ctx[c].cert_x509ca
          /\ shared.cert_client = ctx[c].cert_client /\ shared.own = ctx[c].own /\ shared.cause = ctx[c].cause
          /\ shared.tls_handshake_successful = ctx[c].tls_handshake_successful
          /\ shared.crossed = (ctx[c].crossed \/ global_pc # "idle")
          /\ shared.chain = IF root_ca_certificates # NULL THEN <<"global", root_ca_certificates>> ELSE ctx[c].chain
      BY <1>1 DEF Record
    <3> HIDE DEF shared
    <3>2. Ordered(shared) /\ Exact(shared, held[c])
      BY <1>1, <1>2, <3>1
    <3>3. RightCertificates(shared, global_ca, identity)
      <4>1. CASE root_ca_certificates # NULL
        <5>1. shared.chain[1] = "global" /\ shared.chain[2] = root_ca_certificates
          BY <3>1, <4>1
        <5>2. shared.crossed \/ root_ca_certificates \in global_ca
          BY <2>2, <3>1, <4>1, HeapInv DEF HeapInv, GlobalInv
        <5>3. QED
          BY <1>1, <1>2, <2>1, <3>1, <5>1, <5>2
      <4>2. CASE root_ca_certificates = NULL
        BY <1>1, <1>2, <3>1, <4>2
      <4>3. QED
        BY <4>1, <4>2
    <3>4. QED
      BY <2>3, <3>2, <3>3
  <2>5. Update(c, shared, {}, {})
    BY <1>7 DEF RootCa, FromGlobal
  <2> HIDE DEF shared, ContextOk
  <2>6. QED
    BY <1>2, <2>4, <2>5, ContextStep
<1>8. QED
  BY <1>5, <1>6, <1>7

\* The client's certificate is configured with the parameters' source, or not at all.
LEMMA ClientKeepsHeap == ASSUME HeapInv, NEW c \in Contexts, ClientCertificate(c) PROVE HeapInv'
<1> USE DEF ContextOk, Ordered, Exact, RightCertificates
<1>1. ContextOk(ctx[c], held[c], global_ca, identity)
  BY DEF HeapInv
<1>2. ctx[c].pc = "client" /\ UNCHANGED globals
  BY DEF ClientCertificate, At
<1> DEFINE read    == [ctx[c] EXCEPT !.pc = "setup", !.cert_client = TRUE, !.own = "client"]
           lent    == [ctx[c] EXCEPT !.pc = "setup", !.own = "identity"]
           without == [ctx[c] EXCEPT !.pc = "setup"]
           failed  == [ctx[c] EXCEPT !.pc = "failed", !.cause = "own_cert"]
           cleaned == [ctx[c] EXCEPT !.pc = "failed", !.cause = "memory", !.cert_x509ca = FALSE, !.cert_client = FALSE]
           certs   == Certificates(ctx[c])
<1>3. CASE ctx[c].params.device = "storage"
  <2>1. ctx[c].session => ContextOk(read, (held[c] \cup {"client", "key_cert"}) \ {}, global_ca, identity)
    BY <1>1, <1>2, <1>3 DEF Record, Objects
  <2>2. ContextOk(without, (held[c] \cup {"client"}) \ {"client"}, global_ca, identity)
    BY <1>1, <1>2, <1>3 DEF Record
  <2>3. certs \subseteq held[c] /\ ContextOk(cleaned, (held[c] \cup {}) \ ({} \cup certs), global_ca, identity)
    <3>1. certs \subseteq held[c]
      BY <1>1 DEF Certificates
    <3>2. cleaned \in Record
      BY <1>1 DEF Record, Causes
    <3>3. QED
      BY <1>1, <1>2, <3>1, <3>2, FailedOk DEF Record, Causes, Certificates
  <2>4. \/ ctx[c].session /\ Update(c, read, {"client", "key_cert"}, {})
        \/ Update(c, without, {"client"}, {"client"})
        \/ Update(c, cleaned, {}, {} \cup certs)
    BY <1>3 DEF ClientCertificate, cy_tls_initialize_client_credentials, Cleanup
  <2> HIDE DEF read, without, cleaned, certs, ContextOk
  <2>5. QED
    BY <1>2, <2>1, <2>2, <2>3, <2>4, ContextStep
<1>4. CASE ctx[c].params.device = "identity"
  <2>1. ContextOk(lent, (held[c] \cup {"key_cert"}) \ {}, global_ca, identity)
    BY <1>1, <1>2, <1>4 DEF Record, Objects
  <2>2. ContextOk(failed, (held[c] \cup {}) \ {}, global_ca, identity)
    <3>1. failed \in Record
      BY <1>1 DEF Record, Causes
    <3>2. Ordered(failed) /\ Exact(failed, held[c])
      BY <1>1, <1>2 DEF Record
    <3>3. RightCertificates(failed, global_ca, identity)
      BY <1>1, <1>2 DEF Record
    <3>4. QED
      BY <3>1, <3>2, <3>3
  <2>3. Update(c, lent, {"key_cert"}, {}) \/ Update(c, failed, {}, {})
    BY <1>4 DEF ClientCertificate, Fail
  <2> HIDE DEF lent, failed, ContextOk
  <2>4. QED
    BY <1>2, <2>1, <2>2, <2>3, ContextStep
<1>5. CASE ctx[c].params.device \notin {"storage", "identity"}
  <2>1. ctx[c].params.device = "none"
    BY <1>1, <1>5 DEF Record
  <2>2. ContextOk(without, (held[c] \cup {}) \ {}, global_ca, identity)
    BY <1>1, <1>2, <2>1 DEF Record
  <2>3. Update(c, without, {}, {})
    BY <1>5 DEF ClientCertificate
  <2> HIDE DEF without, ContextOk
  <2>4. QED
    BY <1>2, <2>2, <2>3, ContextStep
<1>6. QED
  BY <1>3, <1>4, <1>5

\* mbedTLS is set up, and frees what it has when the handshake fails.
LEMMA HandshakeKeepsHeap ==
  ASSUME HeapInv, NEW c \in Contexts, SslSetup(c) \/ Handshake(c)
  PROVE  HeapInv'
<1> DEFINE r          == ctx[c]
           h          == held[c]
           set        == [r EXCEPT !.pc = "handshake"]
           connected  == [r EXCEPT !.pc = "connected", !.tls_handshake_successful = TRUE]
           after(why) == [r EXCEPT !.pc = "failed", !.cause = why, !.cert_x509ca = FALSE, !.cert_client = FALSE]
           certs      == Certificates(r)
<1>1. ContextOk(r, h, global_ca, identity) /\ r \in Record /\ Ordered(r) /\ Exact(r, h)
      /\ RightCertificates(r, global_ca, identity)
  BY DEF HeapInv, ContextOk
<1>2. UNCHANGED globals /\ r.pc \in {"setup", "handshake"}
  BY DEF SslSetup, Handshake, At
<1>3. certs \subseteq h
  BY <1>1 DEF Certificates, Exact
<1>4. ASSUME NEW why \in {"setup", "hostname", "handshake"}
      PROVE  /\ after(why) \in Record /\ after(why).pc = "failed" /\ after(why).cause = why
             /\ after(why).session = r.session /\ after(why).own = r.own
             /\ after(why).mbedtls_ca_cert = r.mbedtls_ca_cert /\ after(why).params = r.params
             /\ after(why).chain = r.chain /\ after(why).crossed = r.crossed
             /\ after(why).tls_handshake_successful = r.tls_handshake_successful
             /\ ~after(why).cert_x509ca /\ ~after(why).cert_client
  BY <1>1, <1>4 DEF Record, Causes
<1> HIDE DEF after
<1>5. ASSUME NEW why \in {"setup", "hostname", "handshake"}, NEW k, k \subseteq Objects,
             \A o \in {"context", "session", "ca"} : o \in k <=> o \in h,
             "x509ca" \notin k, "client" \notin k,
             "key_cert" \in k <=> r.own # "none" /\ why # "handshake", "buffers" \in k <=> why = "hostname"
      PROVE  ContextOk(after(why), k, global_ca, identity)
  BY <1>1, <1>2, <1>4, <1>5, FailedOk DEF Causes
<1>6. CASE SslSetup(c)
  <2>1. r.pc = "setup"
    BY <1>6 DEF SslSetup, At
  <2>2. ContextOk(set, (h \cup {"buffers"}) \ {}, global_ca, identity)
    <3>1. set \in Record
      BY <1>1 DEF Record
    <3>2. Ordered(set)
      BY <1>1, <2>1 DEF Ordered, Record
    <3>3. Exact(set, (h \cup {"buffers"}) \ {})
      BY <1>1, <2>1 DEF Exact, Record, Objects
    <3>4. RightCertificates(set, global_ca, identity)
      BY <1>1, <2>1 DEF RightCertificates, Record
    <3>5. QED
      BY <3>1, <3>2, <3>3, <3>4 DEF ContextOk
  <2>3. "buffers" \notin h /\ ("key_cert" \in h <=> r.own # "none") /\ h \subseteq Objects
    BY <1>1, <2>1 DEF Exact
  <2>4. /\ {"x509ca", "client"} \cap (h \ certs) = {}
        /\ \A o \in Objects \ {"x509ca", "client"} : o \in h \ certs <=> o \in h
    BY <1>1 DEF Exact, Certificates
  <2> HIDE DEF certs, set
  <2>5. ContextOk(after("setup"), (h \cup {}) \ ({} \cup certs), global_ca, identity)
    BY <1>5, <2>3, <2>4 DEF Objects
  <2>6. ContextOk(after("hostname"), (h \cup {"buffers"}) \ ({} \cup certs), global_ca, identity)
    <3>1. "buffers" \notin certs
      BY DEF certs, Certificates
    <3>2. QED
      BY <1>5, <2>3, <2>4, <3>1 DEF Objects
  <2>7. \/ Update(c, set, {"buffers"}, {}) \/ Update(c, after("setup"), {}, {} \cup certs)
        \/ Update(c, after("hostname"), {"buffers"}, {} \cup certs)
    BY <1>6 DEF SslSetup, Cleanup, set, after, certs
  <2>8. QED
    BY <1>2, <1>3, <2>2, <2>5, <2>6, <2>7, ContextStep
<1>7. CASE Handshake(c)
  <2>1. r.pc = "handshake"
    BY <1>7 DEF Handshake, At
  <2>2. ContextOk(connected, (h \cup {}) \ {}, global_ca, identity)
    <3>1. connected \in Record
      BY <1>1 DEF Record
    <3>2. Ordered(connected)
      BY <1>1, <2>1 DEF Ordered, Record
    <3>3. Exact(connected, h)
      BY <1>1, <2>1 DEF Exact, Record
    <3>4. RightCertificates(connected, global_ca, identity)
      BY <1>1, <2>1 DEF RightCertificates, Record
    <3>5. QED
      BY <3>1, <3>2, <3>3, <3>4 DEF ContextOk
  <2>3. Ssl(c) \subseteq h
    BY <1>1, <2>1 DEF Ssl, Exact
  <2>4. /\ {"x509ca", "client", "key_cert", "buffers"} \cap (h \ (Ssl(c) \cup certs)) = {}
        /\ \A o \in {"context", "session", "ca"} : o \in h \ (Ssl(c) \cup certs) <=> o \in h
    BY <1>1, <2>1 DEF Exact, Certificates, Ssl
  <2> HIDE DEF certs, connected
  <2>5. ContextOk(after("handshake"), (h \cup {}) \ (Ssl(c) \cup certs), global_ca, identity)
    BY <1>1, <1>5, <2>4 DEF Exact
  <2>6. Update(c, connected, {}, {}) \/ Update(c, after("handshake"), {}, Ssl(c) \cup certs)
    BY <1>7 DEF Handshake, Cleanup, connected, after, certs
  <2>7. QED
    BY <1>2, <1>3, <2>2, <2>3, <2>5, <2>6, ContextStep
<1>8. QED
  BY <1>6, <1>7

\* What a deletion frees is held, and what it leaves behind is that of mbedTLS.
LEMMA DeletionKeepsHeap ==
  ASSUME HeapInv, NEW c \in Contexts, cy_tls_delete_context(c)
  PROVE  /\ HeapInv'
         /\ leaked' \subseteq {<<"key_cert", "setup">>, <<"key_cert", "hostname">>, <<"buffers", "hostname">>}
<1> DEFINE r   == ctx[c]
           old == {"context"} \cup (IF r.mbedtls_ca_cert THEN {"ca"} ELSE {})
                    \cup (IF r.tls_handshake_successful THEN Ssl(c) ELSE {})
                    \cup (IF r.session THEN {"session"} ELSE {}) \cup Certificates(r)
<1>1. r \in Record /\ Ordered(r) /\ Exact(r, held[c])
  BY DEF HeapInv, ContextOk
<1>2. r.pc \in {"begin", "connected", "failed"}
  BY DEF cy_tls_delete_context
<1>3. /\ freed_twice' = (freed_twice \/ ~(old \subseteq held[c]))
      /\ leaked' = {<<o, r.cause>> : o \in held[c] \ old}
      /\ held' = [held EXCEPT ![c] = {}] /\ ctx' = [ctx EXCEPT ![c] = NoContext] /\ UNCHANGED globals
  BY DEF cy_tls_delete_context
<1>4. old \subseteq held[c]
  BY <1>1, <1>2 DEF Ordered, Exact, Ssl, Certificates
<1>5. ASSUME NEW o \in held[c] \ old
      PROVE  <<o, r.cause>> \in {<<"key_cert", "setup">>, <<"key_cert", "hostname">>, <<"buffers", "hostname">>}
  <2>1. o \in {"key_cert", "buffers"} /\ ~r.tls_handshake_successful
    BY <1>1, <1>2, <1>5 DEF Ordered, Exact, Ssl, Certificates, Objects
  <2>2. r.pc # "connected"
    BY <1>1, <2>1 DEF Ordered
  <2>3. o = "key_cert" => r.cause \in {"setup", "hostname"}
    BY <1>1, <1>2, <1>5, <2>2 DEF Ordered, Exact
  <2>4. o = "buffers" => r.cause = "hostname"
    BY <1>1, <1>2, <1>5, <2>2 DEF Exact
  <2>5. QED
    BY <2>1, <2>3, <2>4
<1> HIDE DEF old
<1>6. HeapInv'
  <2>1. ~freed_twice'
    BY <1>3, <1>4 DEF HeapInv
  <2>2. QED
    BY <1>3, <2>1, ContextChange, NoContextOk
<1>7. QED
  BY <1>3, <1>5, <1>6

\* The global certificate is freed once, and every context that points to it is told apart.
LEMMA GlobalKeepsHeap == ASSUME HeapInv, ReleaseRootCa \/ StoreRootCa PROVE HeapInv'
<1>1. CASE ReleaseRootCa
  <2>1. /\ global_pc = "idle" /\ global_pc' \in {"load", "release"} /\ global_ca' = global_ca \ {root_ca_certificates}
        /\ freed_twice' = (freed_twice \/ (root_ca_certificates # NULL /\ root_ca_certificates \notin global_ca))
        /\ ctx' = (IF root_ca_certificates = NULL THEN ctx ELSE Crossed)
        /\ UNCHANGED <<root_ca_certificates, loads, identity, held>>
    BY <1>1 DEF ReleaseRootCa
  <2>2. GlobalInv' /\ ~freed_twice'
    BY <2>1 DEF HeapInv, GlobalInv
  <2>3. ASSUME NEW c \in Contexts
        PROVE  \/ ctx'[c] = ctx[c] /\ (ctx[c].chain[1] = "global" => root_ca_certificates = NULL)
               \/ ctx'[c] = [ctx[c] EXCEPT !.crossed = TRUE]
    BY <2>1 DEF Crossed, HeapInv
  <2>4. ASSUME NEW c \in Contexts PROVE ContextOk(ctx'[c], held'[c], global_ca', identity')
    <3>1. ContextOk(ctx[c], held[c], global_ca, identity)
      BY DEF HeapInv
    <3>2. CASE ctx'[c] = ctx[c] /\ (ctx[c].chain[1] = "global" => root_ca_certificates = NULL)
      <4>1. ctx[c].chain[1] = "global" => ctx[c].crossed
        BY <2>1, <3>1, <3>2 DEF ContextOk, RightCertificates, HeapInv, GlobalInv
      <4>2. QED
        BY <2>1, <3>1, <3>2, <4>1 DEF ContextOk, RightCertificates
    <3>3. CASE ctx'[c] = [ctx[c] EXCEPT !.crossed = TRUE]
      <4> DEFINE r == [ctx[c] EXCEPT !.crossed = TRUE]
      <4>1. r \in Record
        BY <3>1 DEF ContextOk, Record
      <4>2. Ordered(r) /\ Exact(r, held[c]) /\ RightCertificates(r, global_ca', identity)
        BY <3>1 DEF ContextOk, Record, Ordered, Exact, RightCertificates
      <4>3. QED
        BY <2>1, <3>3, <4>1, <4>2 DEF ContextOk
    <3>4. QED
      BY <2>3, <3>2, <3>3
  <2>5. ctx' \in [Contexts -> Record]
    <3>1. \A c \in Contexts : ctx'[c] \in Record
      BY <2>4 DEF ContextOk
    <3>2. QED
      BY <2>1, <3>1 DEF HeapInv, Crossed
  <2>6. QED
    BY <2>1, <2>2, <2>4, <2>5 DEF HeapInv
<1>2. CASE StoreRootCa
  <2>1. UNCHANGED <<identity, ctx, held, freed_twice>> /\ GlobalInv'
    BY <1>2 DEF StoreRootCa, HeapInv, GlobalInv, NULL
  <2>2. global_ca \subseteq global_ca'
    BY <1>2 DEF StoreRootCa
  <2>3. ASSUME NEW c \in Contexts PROVE ContextOk(ctx[c], held[c], global_ca', identity)
    <3>1. ContextOk(ctx[c], held[c], global_ca, identity)
      BY DEF HeapInv
    <3>2. QED
      BY <2>2, <3>1 DEF ContextOk, RightCertificates
  <2>4. QED
    BY <2>1, <2>3 DEF HeapInv
<1>3. QED
  BY <1>1, <1>2

\* The identity stays as long as a context asks for it.
LEMMA IdentityKeepsHeap == ASSUME HeapInv, cy_tls_create_identity \/ cy_tls_delete_identity PROVE HeapInv'
<1>1. /\ UNCHANGED <<root_ca_certificates, loads, global_ca, global_pc, ctx, held, freed_twice>> /\ GlobalInv'
  BY DEF cy_tls_create_identity, cy_tls_delete_identity, HeapInv, GlobalInv
<1>2. ASSUME NEW c \in Contexts PROVE ContextOk(ctx[c], held[c], global_ca, identity')
  <2>1. ContextOk(ctx[c], held[c], global_ca, identity)
    BY DEF HeapInv
  <2>2. ctx[c].params.device = "identity" => identity' # {}
    BY <2>1 DEF cy_tls_create_identity, cy_tls_delete_identity, ContextOk, RightCertificates
  <2>3. QED
    BY <2>1, <2>2 DEF ContextOk, RightCertificates
<1>3. QED
  BY <1>1, <1>2 DEF HeapInv

\* Transfers and references do not touch what is held.
LEMMA RestKeepsHeap ==
  ASSUME HeapInv,
         UNCHANGED <<root_ca_certificates, loads, global_ca, global_pc, identity, ctx, held, freed_twice>>
  PROVE  HeapInv'
  BY DEF HeapInv, GlobalInv

\* Every step keeps the invariant.
LEMMA HeapStep == HeapInv /\ [Next]_vars => HeapInv'
<1> SUFFICES ASSUME HeapInv, [Next]_vars PROVE HeapInv'
  OBVIOUS
<1>1. CASE cy_tls_create_identity \/ cy_tls_delete_identity \/ ReleaseRootCa \/ StoreRootCa
  BY <1>1, IdentityKeepsHeap, GlobalKeepsHeap
<1>2. CASE \E c \in Contexts : \/ cy_tls_create_context(c) \/ ConnectBegin(c) \/ RootCa(c) \/ ClientCertificate(c)
                               \/ SslSetup(c) \/ Handshake(c) \/ cy_tls_delete_context(c)
  BY <1>2, ConnectKeepsHeap, RootCaKeepsHeap, ClientKeepsHeap, HandshakeKeepsHeap, DeletionKeepsHeap
<1>3. CASE UNCHANGED <<root_ca_certificates, loads, global_ca, global_pc, identity, ctx, held, freed_twice>>
  BY <1>3, RestKeepsHeap
<1>4. CASE \E c \in Contexts : SendBegin(c) \/ SendStep(c) \/ SendEnd(c) \/ RecvBegin(c) \/ RecvStep(c) \/ RecvEnd(c)
  BY <1>3, <1>4 DEF SendBegin, SendStep, SendEnd, RecvBegin, RecvStep, RecvEnd, Io, globals
<1>5. QED
  BY <1>1, <1>2, <1>3, <1>4 DEF Next, vars, cy_tls_init, cy_tls_deinit

\* No certificate, context, session or identity is freed twice, and the global pointer never
\* outlives its certificate, for any contexts and parameters, however connections fail.
THEOREM HeapCorrect == Spec => []ReleasedOnce
<1>1. HeapInv => ReleasedOnce
  <2> SUFFICES ASSUME HeapInv PROVE ReleasedOnce
    OBVIOUS
  <2>1. ASSUME NEW c \in Contexts, At(c, "none") PROVE held[c] = {}
    <3>1. Ordered(ctx[c]) /\ Exact(ctx[c], held[c])
      BY DEF HeapInv, ContextOk
    <3>2. QED
      BY <2>1, <3>1 DEF At, Ordered, Exact, Objects
  <2>2. QED
    BY <2>1 DEF HeapInv, GlobalInv, ReleasedOnce
<1>2. QED
  BY <1>1, HeapInitially, HeapStep, PTL DEF Spec

\* A handshake uses the certificates that the parameters ask for, and they exist: the global
\* one unless it was freed during this very connection.
THEOREM CertificatesCorrect == Spec => []HandshakeOnRightCertificates
<1>1. HeapInv => HandshakeOnRightCertificates
  <2> SUFFICES ASSUME HeapInv, NEW c \in Contexts, At(c, "handshake")
               PROVE  LET r == ctx[c] IN
                      /\ r.chain[1] \in {"none", r.params.ca}
                      /\ r.chain[1] = "storage" => "x509ca" \in held[c]
                      /\ r.chain[1] = "ram" => "ca" \in held[c]
                      /\ r.chain[1] = "global" => r.crossed \/ r.chain[2] \in global_ca
                      /\ r.own = (CASE r.params.device = "storage" -> IF r.cert_client THEN "client" ELSE "none"
                                    [] OTHER -> r.params.device)
                      /\ r.own = "client" => {"client", "key_cert"} \subseteq held[c] /\ r.session
                      /\ r.own = "identity" => identity # {}
    BY DEF HandshakeOnRightCertificates
  <2> DEFINE r == ctx[c]
  <2>1. r \in Record /\ Exact(r, held[c]) /\ RightCertificates(r, global_ca, identity) /\ r.pc = "handshake"
    BY DEF HeapInv, ContextOk, At
  <2>2. r.own = (CASE r.params.device = "storage" -> IF r.cert_client THEN "client" ELSE "none"
                   [] OTHER -> r.params.device)
    BY <2>1 DEF RightCertificates
  <2>3. r.own = "client" => r.cert_client
    BY <2>1, <2>2 DEF Record
  <2>4. r.own = "identity" => r.params.device = "identity"
    BY <2>1, <2>2 DEF Record
  <2>5. QED
    BY <2>1, <2>2, <2>3, <2>4 DEF RightCertificates, Exact
<1>2. QED
  BY <1>1, HeapInitially, HeapStep, PTL DEF Spec

\* Nothing is left on the heap, whatever fails: except for what mbedTLS has built when a
\* connection fails between the client's certificate and the handshake, and for the
\* certificate of an identity that could not be created.
THEOREM LeaksCorrect == Spec => []LeaksKnown
<1>1. LeaksKnown /\ HeapInv /\ [Next]_vars => LeaksKnown'
  <2> SUFFICES ASSUME LeaksKnown, HeapInv, [Next]_vars PROVE LeaksKnown'
    OBVIOUS
  <2>1. CASE \E c \in Contexts : cy_tls_delete_context(c)
    BY <2>1, DeletionKeepsHeap DEF LeaksKnown
  <2>2. CASE cy_tls_create_identity
    BY <2>2 DEF cy_tls_create_identity, LeaksKnown
  <2>3. CASE UNCHANGED leaked
    BY <2>3 DEF LeaksKnown
  <2>4. QED
    BY <2>1, <2>2, <2>3
    DEF Next, vars, cy_tls_init, cy_tls_deinit, cy_tls_delete_identity, ReleaseRootCa, StoreRootCa,
        cy_tls_create_context, ConnectBegin, RootCa, ClientCertificate, SslSetup, Handshake,
        SendBegin, SendStep, SendEnd, RecvBegin, RecvStep, RecvEnd, Io
<1>2. Init => LeaksKnown
  BY DEF Init, LeaksKnown
<1>3. QED
  BY <1>1, <1>2, HeapInitially, HeapStep, PTL DEF Spec
=============================================================================
