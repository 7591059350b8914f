------------------------------ MODULE ChipCalls ------------------------------
(***************************************************************************)
(* The calls of the secure element outside PKCS#11: the mbedTLS back ends  *)
(* trustm_ecdsa.c and trustm_ecdh.c, the PKCS#1 v1.5 operations of         *)
(* trustm_rsa.c, the helpers of optiga_trust_helpers.c, and the boot task  *)
(* of main.c.  They all have one shape: checks, a completion status set to *)
(* busy, a command to the chip, a wait for the status to change, checks of *)
(* the result, clean-up.  Each file has one status for all its callers.    *)
(*                                                                         *)
(* External: the OPTIGA library refuses a command or answers it once, at   *)
(* any later time, through the callback of the file; an answer of an       *)
(* instance that was destroyed meanwhile still arrives.                    *)
(***************************************************************************)
EXTENDS Naturals, Sequences, SequencesExt, FiniteSets

CONSTANTS
  Clients,      \* tasks that use mbedTLS
  Boot,         \* optiga_client_task
  Uses,         \* the operations each client calls, in each of the uses considered
  Curves,       \* mbedtls_ecp_group ids that occur, supported or not
  Moduli,       \* RSA moduli that occur: length in bytes, top bit set or not
  Certificates, \* data objects that occur: length of the certificate, tagged or not
  Instances     \* instances of the OPTIGA library

EccOps  == {"ecdsa_sign", "ecdsa_verify", "ecdsa_genkey", "ecdh_gen_public", "ecdh_compute_shared"}
RsaOps  == {"rsa_encrypt", "rsa_decrypt", "rsa_sign", "rsa_verify"}
BootOps == {"trust_init", "write_data_object", "read_certificate"}
ReadOps == {"read_certificate", "read_trust_anchor"}
Ops     == EccOps \cup RsaOps \cup BootOps \cup ReadOps
Files   == {"trustm_ecdsa", "trustm_ecdh", "trustm_rsa", "helpers"}
Tasks   == Clients \cup {Boot}

ASSUME TasksAssumption ==
  /\ IsFiniteSet(Clients) /\ Boot \notin Clients
  /\ Uses \subseteq [Clients -> SUBSET (EccOps \cup RsaOps \cup {"read_trust_anchor"})]
ASSUME ArgumentsAssumption ==
  /\ Curves \subseteq Nat
  /\ Moduli \subseteq Nat \X BOOLEAN
  /\ Certificates \subseteq Nat \X BOOLEAN
ASSUME BoundsAssumption == Instances \in Nat

VARIABLES
  asks,       \* which of the Uses this is
  call,       \* where each task is: its operation, the point, and its local variables
  status,     \* the completion status of each file
  command,    \* the last command of each task, according to the chip
  inUse,      \* instances handed out
  stray,      \* a command that runs for a destroyed instance (bound: one at a time)
  boot,       \* what optiga_client_task() does next; when it spins, the MQTT task exists
  overlapped  \* tasks whose status was, during their call, written for another one

vars == <<asks, call, status, command, inUse, stray, boot, overlapped>>

Points    == {"idle", "issue", "wait", "done"}
Arguments == (Curves \X {FALSE}) \cup Moduli \cup Certificates
Returns   == {"ok", "none", "ECP_FEATURE_UNAVAILABLE", "ECP_BAD_INPUT_DATA", "CRYPT_ERROR", "ASN1",
              "RSA_BAD_INPUT_DATA", "RSA_VERIFY_FAILED"}
-----------------------------------------------------------------------------
\* The operations.  A check is the step and what the function returns when it fails;
\* "refused" and "failed" are the results when the library refuses the command or the
\* chip reports an error ("keep": the variable stays as it is; "unchecked": the function
\* does not look at the status).
Operation(file, entry, before, refused, failed, after) ==
  [file |-> file, entry |-> entry, before |-> before, refused |-> refused, failed |-> failed,
   after |-> after]

mbedtls_ecdsa_sign == Operation("trustm_ecdsa", "ECP_BAD_INPUT_DATA",
  <<<<"create", "ECP_FEATURE_UNAVAILABLE">>>>, "ECP_BAD_INPUT_DATA", "ECP_BAD_INPUT_DATA",
  <<<<"asn1_r", "ASN1">>, <<"asn1_s", "ASN1">>>>)

mbedtls_ecdsa_verify == Operation("trustm_ecdsa", "ECP_BAD_INPUT_DATA",
  <<<<"create", "ECP_FEATURE_UNAVAILABLE">>, <<"curve", "ECP_FEATURE_UNAVAILABLE">>,
    <<"write_point", "ECP_FEATURE_UNAVAILABLE">>>>,
  "ECP_BAD_INPUT_DATA", "ECP_BAD_INPUT_DATA", <<>>)

mbedtls_ecdsa_genkey == Operation("trustm_ecdsa", "ECP_BAD_INPUT_DATA",
  <<<<"create", "ECP_BAD_INPUT_DATA">>, <<"curve", "ECP_FEATURE_UNAVAILABLE">>>>,
  "ECP_BAD_INPUT_DATA", "unchecked", <<<<"read_point_at_3", "CRYPT_ERROR">>>>)

mbedtls_ecdh_gen_public == Operation("trustm_ecdh", "ECP_BAD_INPUT_DATA",
  <<<<"curve", "ECP_FEATURE_UNAVAILABLE">>, <<"create", "ECP_FEATURE_UNAVAILABLE">>>>,
  "ECP_BAD_INPUT_DATA", "ECP_BAD_INPUT_DATA", <<<<"read_point", "ECP_BAD_INPUT_DATA">>>>)

mbedtls_ecdh_compute_shared == Operation("trustm_ecdh", "ECP_BAD_INPUT_DATA",
  <<<<"curve", "ECP_FEATURE_UNAVAILABLE">>, <<"create", "ECP_FEATURE_UNAVAILABLE">>>>,
  "ECP_BAD_INPUT_DATA", "ECP_BAD_INPUT_DATA", <<>>)

PublicKeyChecks ==
  <<<<"alloc_key", "RSA_BAD_INPUT_DATA">>, <<"alloc_modulus", "RSA_BAD_INPUT_DATA">>,
    <<"write_key", "RSA_BAD_INPUT_DATA">>, <<"key_type", "RSA_BAD_INPUT_DATA">>>>
CheckPadding == <<<<"padding", "RSA_BAD_INPUT_DATA">>, <<"create", "RSA_BAD_INPUT_DATA">>>>

mbedtls_rsa_rsaes_pkcs1_v15_encrypt == Operation("trustm_rsa", "RSA_BAD_INPUT_DATA",
  CheckPadding \o PublicKeyChecks, "keep", "keep", <<>>)

mbedtls_rsa_rsaes_pkcs1_v15_decrypt == Operation("trustm_rsa", "RSA_BAD_INPUT_DATA",
  <<<<"create", "RSA_BAD_INPUT_DATA">>>>, "keep", "keep", <<>>)

mbedtls_rsa_rsassa_pkcs1_v15_sign == Operation("trustm_rsa", "RSA_BAD_INPUT_DATA",
  CheckPadding \o <<<<"digest", "RSA_BAD_INPUT_DATA">>, <<"alloc_signature", "RSA_BAD_INPUT_DATA">>,
    <<"key_type", "RSA_BAD_INPUT_DATA">>>>,
  "RSA_VERIFY_FAILED", "RSA_VERIFY_FAILED", <<<<"signature_length", "RSA_VERIFY_FAILED">>>>)

mbedtls_rsa_rsassa_pkcs1_v15_verify == Operation("trustm_rsa", "RSA_BAD_INPUT_DATA",
  CheckPadding \o <<<<"digest", "RSA_BAD_INPUT_DATA">>>> \o PublicKeyChecks,
  "RSA_VERIFY_FAILED", "RSA_VERIFY_FAILED", <<>>)

\* The helpers return nothing; what they leave to the caller is "ok" or "none".
read_certificate_from_optiga  == Operation("helpers", "none", <<<<"create", "none">>>>, "none", "none", <<>>)
read_trust_anchor_from_optiga == Operation("helpers", "none", <<<<"create", "none">>>>, "none", "none", <<>>)
write_data_object             == Operation("helpers", "none", <<<<"create", "none">>>>, "none", "none", <<>>)
optiga_trust_init             == Operation("helpers", "none", <<<<"create", "none">>>>, "none", "none", <<>>)

Table ==
  [op \in Ops |->
     CASE op = "ecdsa_sign"          -> mbedtls_ecdsa_sign
       [] op = "ecdsa_verify"        -> mbedtls_ecdsa_verify
       [] op = "ecdsa_genkey"        -> mbedtls_ecdsa_genkey
       [] op = "ecdh_gen_public"     -> mbedtls_ecdh_gen_public
       [] op = "ecdh_compute_shared" -> mbedtls_ecdh_compute_shared
       [] op = "rsa_encrypt"         -> mbedtls_rsa_rsaes_pkcs1_v15_encrypt
       [] op = "rsa_decrypt"         -> mbedtls_rsa_rsaes_pkcs1_v15_decrypt
       [] op = "rsa_sign"            -> mbedtls_rsa_rsassa_pkcs1_v15_sign
       [] op = "rsa_verify"          -> mbedtls_rsa_rsassa_pkcs1_v15_verify
       [] op = "read_certificate"    -> read_certificate_from_optiga
       [] op = "read_trust_anchor"   -> read_trust_anchor_from_optiga
       [] op = "write_data_object"   -> write_data_object
       [] op = "trust_init"          -> optiga_trust_init]
-----------------------------------------------------------------------------
\* Public keys as the chip takes them.
Supported(curve)   == curve \in 3..8 \* MBEDTLS_ECP_DP_SECP256R1 .. MBEDTLS_ECP_DP_BP512R1
CurveBytes(curve)  == CASE curve \in {3, 6} -> 32 [] curve \in {4, 7} -> 48 [] curve = 5 -> 66 [] curve = 8 -> 64
PointLength(curve) == 2 * CurveBytes(curve) + 1
PublicKeyOffset(curve) == IF curve \in {5, 8} THEN 4 ELSE 3

\* A generated key is read from its bytes after the first 3 (or 4).  The library sets their
\* number when it reports success; until then it is the size of the caller's buffer.
\* mbedtls_ecp_point_read_binary() (external) takes as many bytes as a point has, no others.
TightRoom(op)     == 136 \* mutant: just 3 bytes and the longest point
PublicKeyRoom(op) == IF op = "ecdsa_genkey" THEN 150 ELSE 200
PointReads(op, curve, offset, generated) ==
  LET length == IF generated THEN PublicKeyOffset(curve) + PointLength(curve) ELSE PublicKeyRoom(op)
  IN  IF length - offset # PointLength(curve) THEN {FALSE} ELSE IF generated THEN {TRUE} ELSE BOOLEAN

\* mbedtls_ecdsa_verify() computes the bytes before the point from its length, ...
VerifyHeader(curve) ==
  LET length == (PointLength(curve) + 1) % 256
  IN  IF PublicKeyOffset(curve) = 4 THEN <<3, 129, length, 0>> ELSE <<3, length, 0>>
\* ... mbedtls_ecdh_compute_shared() has them by curve.
SharedHeaderBy256Bits(curve) == \* mutant: one length for the curves of 512 bits and more
  CASE curve \in {3, 6} -> <<3, 66, 0>>
    [] curve \in {4, 7} -> <<3, 98, 0>>
    [] OTHER            -> <<3, 129, 134, 0>>
SharedHeader(curve) ==
  CASE curve \in {3, 6} -> <<3, 66, 0>>
    [] curve \in {4, 7} -> <<3, 98, 0>>
    [] curve = 5        -> <<3, 129, 134, 0>>
    [] curve = 8        -> <<3, 129, 130, 0>>

SetDerLength(value)       == IF value > 255 THEN <<(value \div 256) % 256, value % 256>> ELSE <<value % 256>>
LengthFieldInBytes(value) == IF value > 255 THEN 2 ELSE 1

\* mbedtls_rsa_create_public_key_bit_string_format(): the bytes around modulus and exponent
\* (of 4 bytes), the modulus standing as a sequence of zeros.
BitString(n, negative) ==
  LET field == LengthFieldInBytes(n)
      sign  == IF negative THEN 1 ELSE 0
  IN  <<3, 128 + field>> \o SetDerLength(7 + n + sign + 4 + 2 * field) \o <<0>>
      \o <<48, 128 + field>> \o SetDerLength(4 + n + sign + 4 + field)
      \o <<2, 128 + field>> \o SetDerLength(n + sign) \o [i \in 1..(n + sign) |-> 0]
      \o <<2, 4, 0, 0, 0, 0>>

\* The PEM text made of n bytes.  mbedtls_base64_encode() (external) writes nothing when the
\* form and its final zero have no room, and sets the length to what it lacks; the readers
\* ignore that it failed, and copy as many bytes of their array, and beyond it, as it says.
Base64Length(n) == 4 * ((n + 2) \div 3)
Base64Room      == 1200 \* ifx_cert_b64_temp
mbedtls_base64_encode(n) ==
  LET length == Base64Length(n)
  IN  IF length < Base64Room THEN [done |-> TRUE, olen |-> length] ELSE [done |-> FALSE, olen |-> length + 1]
\* The bytes that the lines take, a newline after each 64 characters and after the rest.
LinesFrom(total) ==
  LET taken[read \in 0..total] ==
        IF read >= total THEN 0
        ELSE LET size == IF read + 64 >= total THEN total - read ELSE 64
             IN  size + 1 + taken[read + size]
  IN  taken[0]
\* The object is 9 bytes longer than the certificate when it carries the TLS identity tag.
ObjectLength(object)   == IF object[2] THEN object[1] + 9 ELSE object[1]
SkipNoTag(op, object)  == 0 \* mutant: the tag is taken for a part of the certificate
SkippedTag(op, object) == IF op = "read_certificate" /\ object[2] THEN 9 ELSE 0
PemText(op, object) ==
  LET base64 == mbedtls_base64_encode(ObjectLength(object) - SkippedTag(op, object))
  IN  [whole |-> base64.done, length |-> 28 + LinesFrom(base64.olen) + 27]
BootRoom == 1200 \* optiga_cert_pem of optiga_client_task()
\* The longest object that there is room to read: ifx_cert_hex.
LongestObject(op) == IF op = "read_trust_anchor" THEN 1300 ELSE 1024

AnyArgument == CHOOSE argument \in Arguments : TRUE
ArgumentsOf(op) ==
  CASE op \in {"ecdsa_sign", "rsa_decrypt"} -> {AnyArgument} \* the key is in the chip
    [] op \in EccOps \ {"ecdsa_sign"}        -> Curves \X {FALSE}
    [] op \in RsaOps \ {"rsa_decrypt"}       -> Moduli
    [] op \in BootOps \ ReadOps              -> {AnyArgument}
    [] op \in ReadOps -> {c \in Certificates : /\ ObjectLength(c) <= LongestObject(op)
                                               /\ op = "read_trust_anchor" => ~c[2]}
-----------------------------------------------------------------------------
Idle == [op |-> "none", pc |-> "idle", ret |-> "none", arg |-> AnyArgument, held |-> 0]

Init ==
  /\ asks \in Uses
  /\ call = [t \in Tasks |-> Idle]
  /\ status = [f \in Files |-> "ok"]
  /\ command = [t \in Tasks |-> "none"]
  /\ inUse = 0
  /\ stray = "none"
  /\ boot = "trust_init"
  /\ overlapped = {}

FileOf(t)    == Table[call[t].op].file
At(t, pc)    == call[t].pc = pc
Move(t, new) == call' = [call EXCEPT ![t] = new]
InWindow(f)  == {t \in Tasks : call[t].pc \in {"issue", "wait"} /\ FileOf(t) = f}

\* What a check can find.
Outcomes(t, arg, check) ==
  CASE check = "create"          -> {FALSE} \cup {free \in {TRUE} : inUse < Instances}
    [] check = "curve"           -> {Supported(arg[1])}
    [] check = "key_type"        -> {arg[1] \in {128, 256}}
    [] check = "read_point"      -> PointReads("ecdh_gen_public", arg[1], PublicKeyOffset(arg[1]), command[t] = "ok")
    [] check = "read_point_at_3" -> PointReads("ecdsa_genkey", arg[1], 3, command[t] = "ok")
    [] OTHER                     -> BOOLEAN

\* The checks that can be the first to fail; Len(checks) + 1 if all can pass.
Stops(t, arg, checks) ==
  {n \in 1..(Len(checks) + 1) :
     /\ \A i \in 1..(n - 1) : TRUE \in Outcomes(t, arg, checks[i][1])
     /\ n <= Len(checks) => FALSE \in Outcomes(t, arg, checks[n][1])}

\* These assign their result to the function's return value.
AssignsResult(check) == check[1] \in {"write_key", "key_type", "digest", "asn1_r", "asn1_s"}
Creates(check)       == check[1] = "create"
Result(checks, n, entry) ==
  IF n <= Len(checks) THEN checks[n][2]
  ELSE IF \E i \in 1..Len(checks) : AssignsResult(checks[i]) THEN "ok" ELSE entry

\* A function is entered: its checks, then the status is set busy.
EnterNotBusy(t, op, arg, held) == \* mutant: the status of the last operation is left
  LET checks == Table[op].before
      file   == Table[op].file
  IN  \E n \in Stops(t, arg, checks) :
        LET passed  == n > Len(checks)
            created == IF \E i \in 1..(n - 1) : Creates(checks[i]) THEN 1 ELSE 0
        IN  /\ Move(t, [op |-> op, pc |-> IF passed THEN "issue" ELSE "done", arg |-> arg,
                        ret |-> Result(checks, n, Table[op].entry), held |-> held + created])
            /\ inUse' = inUse + created
            /\ overlapped' = IF passed /\ InWindow(file) \ {t} # {}
                             THEN overlapped \cup InWindow(file) \cup {t} ELSE overlapped
            /\ command' = [command EXCEPT ![t] = "none"]
            /\ UNCHANGED status
Enter(t, op, arg, held) ==
  LET checks == Table[op].before
      file   == Table[op].file
  IN  \E n \in Stops(t, arg, checks) :
        LET passed  == n > Len(checks)
            created == IF \E i \in 1..(n - 1) : Creates(checks[i]) THEN 1 ELSE 0
        IN  /\ Move(t, [op |-> op, pc |-> IF passed THEN "issue" ELSE "done", arg |-> arg,
                        ret |-> Result(checks, n, Table[op].entry), held |-> held + created])
            /\ inUse' = inUse + created
            /\ status' = IF passed THEN [status EXCEPT ![file] = "busy"] ELSE status
            /\ overlapped' = IF passed /\ InWindow(file) \ {t} # {}
                             THEN overlapped \cup InWindow(file) \cup {t} ELSE overlapped
            /\ command' = [command EXCEPT ![t] = "none"]

\* A client calls an operation.
Begin(t) ==
  /\ boot = "spin" /\ At(t, "idle")
  /\ \E op \in asks[t] : \E arg \in ArgumentsOf(op) : Enter(t, op, arg, 0)
  /\ UNCHANGED <<asks, stray, boot>>

\* optiga_client_task(): whatever became of the initialisation and of the certificate, the
\* next step is taken; at the end it creates the MQTT client task and spins.
optiga_client_task ==
  /\ boot # "spin" /\ At(Boot, "idle")
  /\ \E object \in ArgumentsOf(boot) : Enter(Boot, boot, object, 0)
  /\ UNCHANGED <<asks, stray, boot>>
NextOfBootSame(op)  == op \* mutant: it goes on with what it has just done
NextOfBoot(op) == IF op = "read_certificate" THEN "spin" ELSE "read_certificate"

Issue(t) ==
  /\ At(t, "issue")
  /\ LET refused == Table[call[t].op].refused
     IN  \/ /\ command' = [command EXCEPT ![t] = "running"]
            /\ Move(t, [call[t] EXCEPT !.pc = "wait"])
         \/ /\ command' = [command EXCEPT ![t] = "refused"]
            /\ Move(t, [call[t] EXCEPT !.pc = "done", !.ret = IF refused = "keep" THEN @ ELSE refused])
  /\ UNCHANGED <<asks, status, inUse, stray, boot, overlapped>>

\* The loop ends when the status is no longer busy, whoever changed it; then come the
\* checks of the result.
Awake(t) == At(t, "wait") /\ status[FileOf(t)] # "busy"
GoesOn(t) == status[FileOf(t)] = "ok" \/ Table[call[t].op].failed = "unchecked"

FailAndRetry(t) == \* mutant: a command that failed is issued again
  /\ Awake(t) /\ ~GoesOn(t)
  /\ Move(t, [call[t] EXCEPT !.pc = "issue"])
  /\ status' = [status EXCEPT ![FileOf(t)] = "busy"]
  /\ UNCHANGED <<asks, command, inUse, stray, boot, overlapped>>
Fail(t) ==
  /\ Awake(t) /\ ~GoesOn(t)
  /\ LET failed == Table[call[t].op].failed
     IN  Move(t, [call[t] EXCEPT !.pc = "done", !.ret = IF failed = "keep" THEN @ ELSE failed])
  /\ UNCHANGED <<asks, status, command, inUse, stray, boot, overlapped>>

Conclude(t) ==
  /\ Awake(t) /\ GoesOn(t) /\ call[t].op # "trust_init"
  /\ LET checks == Table[call[t].op].after
     IN  \E n \in Stops(t, call[t].arg, checks) :
           Move(t, [call[t] EXCEPT !.pc = "done", !.ret = Result(checks, n, "ok")])
  /\ UNCHANGED <<asks, status, command, inUse, stray, boot, overlapped>>

\* optiga_trust_init() calls write_data_object(), through write_set_high_performance(),
\* while it holds its own instance.
write_set_high_performance(t) ==
  /\ Awake(t) /\ GoesOn(t) /\ call[t].op = "trust_init"
  /\ Enter(t, "write_data_object", call[t].arg, call[t].held)
  /\ UNCHANGED <<asks, stray, boot>>

\* The clean-up: instances are destroyed, whether a command is still running or not.
ReturnOne(t) == \* mutant: one instance is destroyed, whatever the call holds
  /\ At(t, "done")
  /\ Move(t, Idle)
  /\ inUse' = IF call[t].held > 0 THEN inUse - 1 ELSE inUse
  /\ IF command[t] = "running" THEN stray = "none" /\ stray' = call[t].op ELSE UNCHANGED stray
  /\ command' = [command EXCEPT ![t] = "none"]
  /\ overlapped' = overlapped \ {t}
  /\ boot' = IF t = Boot THEN NextOfBoot(call[t].op) ELSE boot
  /\ UNCHANGED <<asks, status>>
Return(t) ==
  /\ At(t, "done")
  /\ Move(t, Idle)
  /\ inUse' = inUse - call[t].held
  /\ IF command[t] = "running" THEN stray = "none" /\ stray' = call[t].op ELSE UNCHANGED stray
  /\ command' = [command EXCEPT ![t] = "none"]
  /\ overlapped' = overlapped \ {t}
  /\ boot' = IF t = Boot THEN NextOfBoot(call[t].op) ELSE boot
  /\ UNCHANGED <<asks, status>>

\* The chip has carried out an operation, and the callback of the operation's file says so.
optiga_crypt_event_completed(t) ==
  /\ command[t] = "running"
  /\ \E result \in {"ok", "error"} :
       /\ status' = [status EXCEPT ![FileOf(t)] = result]
       /\ command' = [command EXCEPT ![t] = result]
  /\ overlapped' = overlapped \cup (InWindow(FileOf(t)) \ {t})
  /\ UNCHANGED <<asks, call, inUse, stray, boot>>

StrayCompleted ==
  /\ stray # "none"
  /\ stray' = "none"
  /\ \E result \in {"ok", "error"} : status' = [status EXCEPT ![Table[stray].file] = result]
  /\ overlapped' = overlapped \cup InWindow(Table[stray].file)
  /\ UNCHANGED <<asks, call, command, inUse, boot>>

Run(t) ==
  \/ Issue(t) \/ Fail(t) \/ Conclude(t) \/ write_set_high_performance(t) \/ Return(t)
  \/ (t = Boot /\ optiga_client_task)

Next ==
  \/ \E t \in Clients : Begin(t)
  \/ \E t \in Tasks : Run(t) \/ optiga_crypt_event_completed(t)
  \/ StrayCompleted

Spec == Init /\ [][Next]_vars

\* The tasks share a priority with time slicing, and the OPTIGA library answers every
\* command it has accepted.
Fairness ==
  /\ \A t \in Tasks : WF_vars(Run(t)) /\ WF_vars(optiga_crypt_event_completed(t))
  /\ WF_vars(StrayCompleted)
FairSpec == Spec /\ Fairness
-----------------------------------------------------------------------------
TypeOK ==
  /\ asks \in Uses
  /\ call \in [Tasks -> [op : Ops \cup {"none"}, pc : Points, ret : Returns,
                         arg : Arguments, held : 0..2]]
  /\ status \in [Files -> {"ok", "busy", "error"}]
  /\ command \in [Tasks -> {"none", "refused", "running", "ok", "error"}]
  /\ inUse \in 0..Instances
  /\ stray \in Ops \cup {"none"}
  /\ boot \in {"trust_init", "read_certificate", "spin"}
  /\ overlapped \subseteq Tasks

\* Every instance taken from the library is given back exactly once, on all error paths and
\* when optiga_trust_init() holds one around write_data_object().
InstancesReturned ==
  /\ inUse = SumFunction([t \in Tasks |-> call[t].held])
  /\ \A t \in Tasks : At(t, "idle") => call[t].held = 0

\* A call that returns success had its own command carried out by the chip, unless another
\* call of the same file wrote the status meanwhile.  (RSA encryption does not keep to it:
\* its return value is 0 before the command is issued.)
SuccessMeansExecuted ==
  \A t \in Tasks \ overlapped :
    At(t, "done") /\ call[t].ret = "ok" /\ call[t].op # "rsa_encrypt"
      => command[t] = "ok"

\* Every public key that is handed to the chip is a DER bit string whose length fields are
\* right and minimal, for each curve and each modulus that the checks let through.
DerLength(n) == CASE n < 128 -> <<n>> [] n \in 128..255 -> <<129, n>> [] n > 255 -> <<130, n \div 256, n % 256>>
Der(tag, content) == <<tag>> \o DerLength(Len(content)) \o content
DerPoint(curve)   == Der(3, [i \in 1..(PointLength(curve) + 1) |-> 0])
DerRsaKey(n, negative) ==
  Der(3, <<0>> \o Der(48, Der(2, [i \in 1..(IF negative THEN n + 1 ELSE n) |-> 0]) \o Der(2, <<0, 0, 0, 0>>)))
KeyHeadersAreDer ==
  \A t \in Tasks : At(t, "issue") =>
    LET arg   == call[t].arg
        curve == arg[1]
    IN  /\ call[t].op = "ecdsa_verify" => IsPrefix(VerifyHeader(curve), DerPoint(curve))
                                            /\ Len(VerifyHeader(curve)) + PointLength(curve) = Len(DerPoint(curve))
        /\ call[t].op = "ecdh_compute_shared" => IsPrefix(SharedHeader(curve), DerPoint(curve))
                                            /\ Len(SharedHeader(curve)) + PointLength(curve) = Len(DerPoint(curve))
        /\ call[t].op \in {"rsa_encrypt", "rsa_verify"} => BitString(arg[1], arg[2]) = DerRsaKey(arg[1], arg[2])

\* What the readers leave with the caller is the whole certificate in lines of 64
\* characters, TLS identity tag or not, exactly when its base64 form has room in their
\* array.  They do not look at the room in the caller's: the text runs over that of
\* optiga_client_task() exactly when the certificate has 844 bytes or more.
PemComplete ==
  \A t \in Tasks : At(t, "done") /\ call[t].op \in ReadOps /\ call[t].ret = "ok" =>
    LET text == PemText(call[t].op, call[t].arg)
        size == Base64Length(call[t].arg[1])
    IN  /\ text.whole <=> size < Base64Room
        /\ text.whole => text.length = 55 + size + (size + 63) \div 64
        /\ call[t].op = "read_certificate" => (text.length > BootRoom <=> call[t].arg[1] > 843)

\* mbedtls_ecdsa_genkey() does not look at the status.  All the same it reports success only
\* for a key that its own command generated and that was read at its place, even when other
\* calls have disturbed the status; an undisturbed call of it waits until the chip is done
\* and then succeeds, for the curves whose keys have their points at the fixed place.
GeneratedKeyRead ==
  \A t \in Tasks : At(t, "done") /\ call[t].op = "ecdsa_genkey" =>
    LET right == command[t] = "ok" /\ PublicKeyOffset(call[t].arg[1]) = 3
    IN  /\ call[t].ret = "ok" => right
        /\ t \notin overlapped => command[t] # "running" /\ (right => call[t].ret = "ok")

\* The waits have no time limit; yet every call returns, unless another call of the same
\* file took its answer away by setting the status busy again.
CallsReturn == \A t \in Tasks : ~At(t, "idle") ~> At(t, "idle") \/ t \in overlapped

\* Boot does not depend on what the chip says: the MQTT client task is always created.
MqttTaskStarts == <>(boot = "spin")

\* Whatever the chip says, nobody waits for ever but those whose answer went to another.
ChipProgress == CallsReturn /\ MqttTaskStarts
=============================================================================
