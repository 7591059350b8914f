---------------------------------- MODULE Tls ----------------------------------
(***************************************************************************)
(* The TLS layer of the secure sockets (cy_tls.c): contexts with their     *)
(* certificates and sessions from creation to deletion, the global root    *)
(* certificate, the identity, and the loops that send and receive.         *)
(*                                                                         *)
(* External: mbedTLS, which parses a certificate or fails, takes bytes     *)
(* into records and keeps a record that it could not write; PKCS#11, which *)
(* may fail at each call; and the socket layer above, which connects a     *)
(* context once, deletes it after a failure or when it has done, keeps the *)
(* identity as long as a context uses it, loads and releases the global    *)
(* certificate from one thread, and goes on with the bytes that it was not *)
(* told are sent, or gives the connection up.                              *)
(***************************************************************************)
EXTENDS Naturals, FiniteSets

CONSTANTS
  Contexts,
  Params,       \* [ca : {"storage", "ram", "global"}, device : {"storage", "identity", "none"}]
  Length,       \* length of a message sent and of the data received
  MaxFragment,  \* most bytes mbedTLS takes into one record
  MaxUses,      \* bound on init_ref_count
  MaxLoads      \* bound on the loads of the global certificate
ASSUME ParamsAssumption ==
  Params \subseteq [ca : {"storage", "ram", "global"}, device : {"storage", "identity", "none"}]
ASSUME LengthAssumption == Length \in Nat /\ MaxFragment \in Nat \ {0} /\ MaxUses \in Nat /\ MaxLoads \in Nat

VARIABLES
  init_ref_count,
  root_ca_certificates, \* NULL, or the number of the load that it comes from
  loads,                \* loads of the global certificate so far
  global_ca,            \* the loads whose certificate has not been freed
  global_pc,            \* "idle", "load" or "release": its pointer is about to be stored
  identity,             \* what the identity holds on the heap; {} without one
  ctx,                  \* the contexts
  held,                 \* what each context holds on the heap, its PKCS#11 session included
  leaked,               \* what was left behind last, and by which failure
  freed_twice,
  io                    \* the transfers of each context

vars == <<init_ref_count, root_ca_certificates, loads, global_ca, global_pc, identity, ctx, held, leaked,
          freed_twice, io>>
globals == <<init_ref_count, root_ca_certificates, loads, global_ca, global_pc, identity>>

NULL == 0
\* pc: what comes next; cause: where cy_tls_connect() failed; chain, own: what the
\* configuration of mbedTLS points to; crossed: the global certificate was freed or
\* about to be replaced while this context was being connected.
NoContext == [pc |-> "none", params |-> [ca |-> "global", device |-> "none"], mbedtls_ca_cert |-> FALSE,
              cert_x509ca |-> FALSE, cert_client |-> FALSE, session |-> FALSE,
              tls_handshake_successful |-> FALSE, chain |-> <<"none", NULL>>, own |-> "none",
              cause |-> "none", crossed |-> FALSE]
\* call: the call under way and its progress; told: bytes the caller knows of; wire, taken:
\* bytes that mbedTLS has put into records and has given out; pending: those of a record
\* that is not yet written.
NoIo == [call |-> "none", count |-> 0, told |-> 0, wire |-> 0, pending |-> 0, taken |-> 0, got |-> 0]

Init ==
  /\ init_ref_count = 0
  /\ root_ca_certificates = NULL /\ loads = 0 /\ global_ca = {} /\ global_pc = "idle"
  /\ identity = {}
  /\ ctx = [c \in Contexts |-> NoContext]
  /\ held = [c \in Contexts |-> {}]
  /\ leaked = {} /\ freed_twice = FALSE
  /\ io = [c \in Contexts |-> NoIo]
-----------------------------------------------------------------------------
cy_tls_init ==
  /\ init_ref_count < MaxUses
  /\ init_ref_count' = init_ref_count + 1
  /\ UNCHANGED <<root_ca_certificates, loads, global_ca, global_pc, identity, ctx, held, leaked, freed_twice, io>>
cy_tls_deinit ==
  /\ init_ref_count # 0
  /\ init_ref_count' = init_ref_count - 1
  /\ UNCHANGED <<root_ca_certificates, loads, global_ca, global_pc, identity, ctx, held, leaked, freed_twice, io>>

\* The certificate, then the key; a failure frees the structure alone.  A chain may be
\* parsed in part and still count as failed.
cy_tls_create_identity ==
  /\ identity = {} /\ init_ref_count > 0
  /\ \/ identity' = {"identity", "identity_cert", "identity_key"} /\ UNCHANGED leaked
     \/ leaked' = {<<"identity_cert", "parse_key">>} /\ UNCHANGED identity
     \/ leaked' \in {{}, {<<"identity_cert", "parse_certificate">>}} /\ UNCHANGED identity
  /\ UNCHANGED <<init_ref_count, root_ca_certificates, loads, global_ca, global_pc, ctx, held, freed_twice, io>>
cy_tls_delete_identity ==
  /\ identity # {}
  /\ \A c \in Contexts : ctx[c].params.device # "identity"
  /\ identity' = {}
  /\ UNCHANGED <<init_ref_count, root_ca_certificates, loads, global_ca, global_pc, ctx, held, leaked, freed_twice, io>>

\* Loading and releasing the global root certificate: the old one is freed first; then the
\* pointer gets the new one, or NULL.
Crossed == [c \in Contexts |-> IF ctx[c].chain[1] = "global" THEN [ctx[c] EXCEPT !.crossed = TRUE] ELSE ctx[c]]
ReleaseRootCa ==
  /\ global_pc = "idle" /\ init_ref_count > 0
  /\ global_pc' \in (IF loads < MaxLoads THEN {"load", "release"} ELSE {"release"})
  /\ global_ca' = global_ca \ {root_ca_certificates}
  /\ freed_twice' = (freed_twice \/ (root_ca_certificates # NULL /\ root_ca_certificates \notin global_ca))
  /\ ctx' = IF root_ca_certificates = NULL THEN ctx ELSE Crossed
  /\ UNCHANGED <<init_ref_count, root_ca_certificates, loads, identity, held, leaked, io>>
StoreKeepsOld == \* mutant: after a failure the pointer keeps its value
  /\ global_pc # "idle" /\ global_pc' = "idle"
  /\ \/ /\ global_pc = "load"
        /\ loads' = loads + 1 /\ root_ca_certificates' = loads' /\ global_ca' = global_ca \cup {loads'}
     \/ UNCHANGED <<root_ca_certificates, loads, global_ca>>
  /\ UNCHANGED <<init_ref_count, identity, ctx, held, leaked, freed_twice, io>>
StoreRootCa ==
  /\ global_pc # "idle" /\ global_pc' = "idle"
  /\ \/ /\ global_pc = "load"
        /\ loads' = loads + 1 /\ root_ca_certificates' = loads' /\ global_ca' = global_ca \cup {loads'}
     \/ root_ca_certificates' = NULL /\ UNCHANGED <<loads, global_ca>> \* no memory, or not parsed; released
  /\ UNCHANGED <<init_ref_count, identity, ctx, held, leaked, freed_twice, io>>
-----------------------------------------------------------------------------
At(c, pc) == ctx[c].pc = pc
\* Context c becomes r, having obtained the objects in new and freed those in old.
Update(c, r, new, old) ==
  /\ ctx' = [ctx EXCEPT ![c] = r]
  /\ held' = [held EXCEPT ![c] = (@ \cup new) \ old]
  /\ freed_twice' = (freed_twice \/ ~(old \subseteq held[c] \cup new))
\* An error return that frees nothing.
Fail(c, r, cause, new) == Update(c, [r EXCEPT !.pc = "failed", !.cause = cause], new, {})
\* cleanup: the certificates that the context points to.
Certificates(r) == (IF r.cert_x509ca THEN {"x509ca"} ELSE {}) \cup (IF r.cert_client THEN {"client"} ELSE {})
Cleanup(c, cause, new, old) ==
  Update(c, [ctx[c] EXCEPT !.pc = "failed", !.cause = cause, !.cert_x509ca = FALSE, !.cert_client = FALSE],
         new, old \cup Certificates(ctx[c]))

\* The session is opened, or the module answers that it is initialised already and there is
\* none; after any other failure the context is freed again.
cy_tls_create_context(c) ==
  /\ At(c, "none") /\ init_ref_count > 0
  /\ \E p \in Params :
       /\ p.device = "identity" => identity # {}
       /\ \/ Update(c, [NoContext EXCEPT !.pc = "begin", !.params = p, !.session = TRUE], {"context", "session"}, {})
          \/ Update(c, [NoContext EXCEPT !.pc = "begin", !.params = p], {"context"}, {})
          \/ Update(c, NoContext, {"context"}, {"context"})
  /\ UNCHANGED <<globals, leaked, io>>

\* cy_tls_connect() up to the choice of the certificates; any of its steps may fail.
ConnectBegin(c) ==
  /\ At(c, "begin")
  /\ \/ Update(c, [ctx[c] EXCEPT !.pc = "ca"], {}, {})
     \/ Fail(c, ctx[c], "configuration", {})
  /\ UNCHANGED <<globals, leaked, io>>

\* A root certificate that cannot be read, or parsed, leaves the chain empty: the handshake
\* may do without.
FromStorage(c) ==
  \/ Fail(c, ctx[c], "memory", {})
  \/ Update(c, [ctx[c] EXCEPT !.pc = "client", !.cert_x509ca = TRUE, !.chain = <<"storage", NULL>>], {"x509ca"}, {})
  \/ Update(c, [ctx[c] EXCEPT !.pc = "client"], {"x509ca"}, {"x509ca"})
FromRam(c) ==
  \/ Update(c, [ctx[c] EXCEPT !.pc = "client", !.mbedtls_ca_cert = TRUE, !.chain = <<"ram", NULL>>], {"ca"}, {})
  \/ Update(c, [ctx[c] EXCEPT !.pc = "client"], {"ca"}, {"ca"})
FromGlobal(c) ==
  Update(c, [ctx[c] EXCEPT !.pc = "client", !.crossed = @ \/ global_pc # "idle",
                           !.chain = IF root_ca_certificates # NULL THEN <<"global", root_ca_certificates>> ELSE @], {}, {})
RootCa(c) ==
  /\ At(c, "ca")
  /\ CASE ctx[c].params.ca = "storage" -> FromStorage(c)
       [] ctx[c].params.ca = "ram"     -> FromRam(c)
       [] OTHER                        -> FromGlobal(c)
  /\ UNCHANGED <<globals, leaked, io>>

\* cy_tls_initialize_client_credentials(): login, key, type, certificate, and only then is
\* the certificate given to the configuration.  After a failure the handshake goes on
\* without; the certificate is freed.
CredentialsEarly(c) == \* mutant: the certificate is configured before it is read
  \/ Update(c, [ctx[c] EXCEPT !.pc = "setup", !.cert_client = TRUE, !.own = "client"], {"client", "key_cert"}, {})
  \/ Update(c, [ctx[c] EXCEPT !.pc = "setup", !.own = "client"], {"client", "key_cert"}, {"client"})
cy_tls_initialize_client_credentials(c) ==
  \/ /\ ctx[c].session
     /\ Update(c, [ctx[c] EXCEPT !.pc = "setup", !.cert_client = TRUE, !.own = "client"], {"client", "key_cert"}, {})
  \/ Update(c, [ctx[c] EXCEPT !.pc = "setup"], {"client"}, {"client"})
ClientCertificate(c) ==
  /\ At(c, "client")
  /\ CASE ctx[c].params.device = "storage" ->
            cy_tls_initialize_client_credentials(c) \/ Cleanup(c, "memory", {}, {})
       [] ctx[c].params.device = "identity" ->
            \/ Update(c, [ctx[c] EXCEPT !.pc = "setup", !.own = "identity"], {"key_cert"}, {})
            \/ Fail(c, ctx[c], "own_cert", {})
       [] OTHER -> Update(c, [ctx[c] EXCEPT !.pc = "setup"], {}, {})
  /\ UNCHANGED <<globals, leaked, io>>

SslSetup(c) ==
  /\ At(c, "setup")
  /\ \/ Update(c, [ctx[c] EXCEPT !.pc = "handshake"], {"buffers"}, {})
     \/ Cleanup(c, "setup", {}, {})
     \/ Cleanup(c, "hostname", {"buffers"}, {})
  /\ UNCHANGED <<globals, leaked, io>>

\* mbedtls_ssl_free() and mbedtls_ssl_config_free().
Ssl(c) == {"buffers"} \cup (IF ctx[c].own = "none" THEN {} ELSE {"key_cert"})
\* The handshake, repeated as long as mbedTLS wants to read or write.
HandshakeKeeps(c) == \* mutant: after a failed handshake nothing of mbedTLS is freed
  /\ At(c, "handshake")
  /\ \/ Update(c, [ctx[c] EXCEPT !.pc = "connected", !.tls_handshake_successful = TRUE], {}, {})
     \/ Cleanup(c, "handshake", {}, {})
  /\ UNCHANGED <<globals, leaked, io>>
Handshake(c) ==
  /\ At(c, "handshake")
  /\ \/ Update(c, [ctx[c] EXCEPT !.pc = "connected", !.tls_handshake_successful = TRUE], {}, {})
     \/ Cleanup(c, "handshake", {}, Ssl(c))
  /\ UNCHANGED <<globals, leaked, io>>

\* What the context points to is freed; the rest of what it holds is left behind.
cy_tls_delete_context(c) ==
  /\ ctx[c].pc \in {"begin", "connected", "failed"} /\ io[c].call = "none"
  /\ LET old == {"context"} \cup (IF ctx[c].mbedtls_ca_cert THEN {"ca"} ELSE {})
                  \cup (IF ctx[c].tls_handshake_successful THEN Ssl(c) ELSE {})
                  \cup (IF ctx[c].session THEN {"session"} ELSE {}) \cup Certificates(ctx[c])
     IN  /\ freed_twice' = (freed_twice \/ ~(old \subseteq held[c]))
         /\ leaked' = {<<o, ctx[c].cause>> : o \in held[c] \ old}
  /\ held' = [held EXCEPT ![c] = {}]
  /\ ctx' = [ctx EXCEPT ![c] = NoContext]
  /\ io' = [io EXCEPT ![c] = NoIo]
  /\ UNCHANGED globals
-----------------------------------------------------------------------------
Least(m, n) == IF m < n THEN m ELSE n
Io(c, r) == io' = [io EXCEPT ![c] = r] /\ UNCHANGED <<globals, ctx, held, leaked, freed_twice>>

\* cy_tls_send() of what is left of a message.
SendBegin(c) ==
  /\ ctx[c].tls_handshake_successful /\ io[c].call = "none" /\ io[c].told < Length
  /\ Io(c, [io[c] EXCEPT !.call = "send", !.count = 0])
\* mbedtls_ssl_write(): a record that is waiting is written instead of a new one; what is
\* reported goes by the length that it is given now.
SendStep(c) ==
  LET left == Length - io[c].told - io[c].count
      n    == Least(left, MaxFragment)
      wire == IF io[c].pending > 0 THEN io[c].wire ELSE io[c].wire + n
  IN  /\ io[c].call = "send" /\ left > 0
      /\ \/ Io(c, [io[c] EXCEPT !.wire = wire, !.pending = 0, !.count = @ + n])
         \/ Io(c, [io[c] EXCEPT !.wire = wire, !.pending = n, !.call = "send_error"])
         \/ Io(c, [io[c] EXCEPT !.wire = wire, !.pending = n])     \* WANT_WRITE, WANT_READ
         \/ Io(c, [io[c] EXCEPT !.call = "send_error"])            \* nothing taken, or 0 returned
\* A call that has sent anything succeeds; otherwise it returns the error, or 0 bytes.
SendEndError(c) == \* mutant: after an error the bytes sent before it are not reported
  /\ \/ io[c].call = "send" /\ io[c].told + io[c].count = Length
     \/ io[c].call = "send_error"
  /\ Io(c, [io[c] EXCEPT !.call = "none", !.told = IF io[c].call = "send" THEN @ + io[c].count ELSE @, !.count = 0])
SendEnd(c) ==
  /\ \/ io[c].call = "send" /\ io[c].told + io[c].count = Length
     \/ io[c].call = "send_error"
  /\ Io(c, [io[c] EXCEPT !.call = "none", !.told = @ + io[c].count, !.count = 0])

\* cy_tls_recv(), until the buffer is full or mbedTLS reports anything but a retry.
RecvBegin(c) ==
  /\ ctx[c].tls_handshake_successful /\ io[c].call = "none" /\ io[c].got < Length
  /\ Io(c, [io[c] EXCEPT !.call = "recv", !.count = 0])
RecvStep(c) ==
  /\ io[c].call = "recv" /\ io[c].got + io[c].count < Length
  /\ \/ \E n \in 1..Least(Length - io[c].got - io[c].count, MaxFragment) :
          Io(c, [io[c] EXCEPT !.taken = @ + n, !.count = @ + n])
     \/ Io(c, [io[c] EXCEPT !.call = "recv_error"])
RecvEnd(c) ==
  /\ \/ io[c].call = "recv" /\ io[c].got + io[c].count = Length
     \/ io[c].call = "recv_error"
  /\ Io(c, [io[c] EXCEPT !.call = "none", !.got = @ + io[c].count, !.count = 0])
-----------------------------------------------------------------------------
Next ==
  \/ cy_tls_init \/ cy_tls_deinit \/ cy_tls_create_identity \/ cy_tls_delete_identity
  \/ ReleaseRootCa \/ StoreRootCa
  \/ \E c \in Contexts : \/ cy_tls_create_context(c) \/ ConnectBegin(c) \/ RootCa(c) \/ ClientCertificate(c)
                         \/ SslSetup(c) \/ Handshake(c) \/ cy_tls_delete_context(c)
                         \/ SendBegin(c) \/ SendStep(c) \/ SendEnd(c)
                         \/ RecvBegin(c) \/ RecvStep(c) \/ RecvEnd(c)

Spec == Init /\ [][Next]_vars
-----------------------------------------------------------------------------
Objects == {"context", "session", "ca", "x509ca", "client", "key_cert", "buffers"}
TypeOK ==
  /\ init_ref_count \in 0..MaxUses
  /\ root_ca_certificates \in 0..MaxLoads /\ loads \in 0..MaxLoads /\ global_ca \subseteq 1..MaxLoads
  /\ global_pc \in {"idle", "load", "release"}
  /\ identity \in {{}, {"identity", "identity_cert", "identity_key"}}
  /\ held \in [Contexts -> SUBSET Objects]
  /\ freed_twice \in BOOLEAN

\* What a context, the identity and the global pointer hold is freed at most once.
ReleasedOnce ==
  /\ ~freed_twice
  /\ global_pc = "idle" => global_ca = {root_ca_certificates} \ {NULL}
  /\ \A c \in Contexts : At(c, "none") => held[c] = {}

\* A deleted context leaves nothing behind, unless its connection failed between the choice
\* of the client's certificate and the handshake; a failed identity leaves its certificate.
LeaksKnown ==
  leaked \subseteq {<<"key_cert", "setup">>, <<"key_cert", "hostname">>, <<"buffers", "hostname">>,
                    <<"identity_cert", "parse_key">>, <<"identity_cert", "parse_certificate">>}

\* In a handshake, chain and client certificate are ones that exist and that the parameters
\* ask for: a certificate that could not be had is never replaced by that of another
\* source.  The global certificate exists unless it was freed during this very connect.
HandshakeOnRightCertificates ==
  \A c \in Contexts : At(c, "handshake") =>
    LET r == ctx[c] IN
    /\ r.chain[1] \in {"none", r.params.ca}
    /\ r.chain[1] = "storage" => "x509ca" \in held[c]
    /\ r.chain[1] = "ram" => "ca" \in held[c]
    /\ r.chain[1] = "global" => r.crossed \/ r.chain[2] \in global_ca
    /\ r.own = (CASE r.params.device = "storage" -> IF r.cert_client THEN "client" ELSE "none"
                  [] OTHER -> r.params.device)
    /\ r.own = "client" => {"client", "key_cert"} \subseteq held[c] /\ r.session
    /\ r.own = "identity" => identity # {}

\* Every byte is sent once and in order: what the caller was told is in records, and what
\* is in records and was not told is the record that waits, with which the next call goes
\* on.  Every byte that was taken from mbedTLS has been given to the caller.
StreamIntact ==
  \A c \in Contexts :
    /\ io[c].wire = io[c].told + io[c].count * (IF io[c].call \in {"send", "send_error"} THEN 1 ELSE 0) + io[c].pending
    /\ io[c].wire <= Length
    /\ io[c].call \notin {"recv", "recv_error"} => io[c].taken = io[c].got
=============================================================================
