--------------------------- MODULE ChipCallsProofs ---------------------------
(***************************************************************************)
(* Theorems about ChipCalls, for any number of clients, any use they make  *)
(* of the chip, any curves, moduli and certificates and any number of      *)
(* instances.                                                              *)
(***************************************************************************)
EXTENDS ChipCalls, DataFacts

-----------------------------------------------------------------------------
(* The table of operations *)

Errors    == Returns \ {"ok"}
Steps     == {"create", "curve", "write_point", "asn1_r", "asn1_s", "read_point", "read_point_at_3",
              "padding", "digest", "alloc_key", "alloc_modulus", "write_key", "key_type",
              "alloc_signature", "signature_length"}
CheckList == Seq(Steps \X Errors)

\* Which results the operations of each kind can have.
Exempt == {"ecdsa_genkey", "rsa_encrypt"}

LEMMA ShortLists ==
  ASSUME NEW S, NEW a \in S, NEW b \in S, NEW c \in S, NEW d \in S
  PROVE  <<>> \in Seq(S) /\ <<a>> \in Seq(S) /\ <<a, b>> \in Seq(S) /\ <<a, b, c>> \in Seq(S)
         /\ <<a, b, c, d>> \in Seq(S)
OBVIOUS

LEMMA Check ==
  ASSUME NEW step \in Steps, NEW error \in Errors
  PROVE  <<step, error>> \in Steps \X Errors
OBVIOUS

LEMMA PaddingChecks ==
  /\ CheckPadding \in CheckList
  /\ PublicKeyChecks \in CheckList
  /\ <<<<"digest", "RSA_BAD_INPUT_DATA">>>> \in CheckList
  /\ <<<<"digest", "RSA_BAD_INPUT_DATA">>, <<"alloc_signature", "RSA_BAD_INPUT_DATA">>,
       <<"key_type", "RSA_BAD_INPUT_DATA">>>> \in CheckList
<1>1. /\ <<"padding", "RSA_BAD_INPUT_DATA">> \in Steps \X Errors
      /\ <<"create", "RSA_BAD_INPUT_DATA">> \in Steps \X Errors
      /\ <<"alloc_key", "RSA_BAD_INPUT_DATA">> \in Steps \X Errors
      /\ <<"alloc_modulus", "RSA_BAD_INPUT_DATA">> \in Steps \X Errors
      /\ <<"write_key", "RSA_BAD_INPUT_DATA">> \in Steps \X Errors
      /\ <<"key_type", "RSA_BAD_INPUT_DATA">> \in Steps \X Errors
      /\ <<"digest", "RSA_BAD_INPUT_DATA">> \in Steps \X Errors
      /\ <<"alloc_signature", "RSA_BAD_INPUT_DATA">> \in Steps \X Errors
  BY Check DEF Steps, Errors, Returns
<1> QED
  BY <1>1, ShortLists DEF CheckPadding, PublicKeyChecks, CheckList

LEMMA TableFacts ==
  ASSUME NEW op \in Ops
  PROVE  /\ Table[op].file \in Files
         /\ Table[op].entry \in Returns
         /\ Table[op].before \in CheckList
         /\ Table[op].refused \in Errors \cup {"keep"}
         /\ Table[op].failed \in Errors \cup {"keep", "unchecked"}
         /\ op \notin Exempt => Table[op].failed # "unchecked"
         /\ op \notin Exempt \cup {"rsa_decrypt"} => Table[op].refused # "keep" /\ Table[op].failed # "keep"
         /\ op = "rsa_decrypt" => /\ Table[op].entry # "ok"
                                  /\ Table[op].before = <<<<"create", "RSA_BAD_INPUT_DATA">>>>
<1> USE DEF Table, Ops, EccOps, RsaOps, BootOps, ReadOps, Files, Operation, Errors, Returns, Exempt
<1>1. CASE op = "ecdsa_sign"
  <2>1. /\ <<"create", "ECP_FEATURE_UNAVAILABLE">> \in Steps \X Errors
    BY Check DEF Steps
  <2>2. <<<<"create", "ECP_FEATURE_UNAVAILABLE">>>> \in CheckList
    BY <2>1, ShortLists DEF CheckList
  <2> QED
    BY <1>1, <2>2 DEF mbedtls_ecdsa_sign
<1>2. CASE op = "ecdsa_verify"
  <2>1. /\ <<"create", "ECP_FEATURE_UNAVAILABLE">> \in Steps \X Errors
        /\ <<"curve", "ECP_FEATURE_UNAVAILABLE">> \in Steps \X Errors
        /\ <<"write_point", "ECP_FEATURE_UNAVAILABLE">> \in Steps \X Errors
    BY Check DEF Steps
  <2>2. <<<<"create", "ECP_FEATURE_UNAVAILABLE">>, <<"curve", "ECP_FEATURE_UNAVAILABLE">>, <<"write_point", "ECP_FEATURE_UNAVAILABLE">>>> \in CheckList
    BY <2>1, ShortLists DEF CheckList
  <2> QED
    BY <1>2, <2>2 DEF mbedtls_ecdsa_verify
<1>3. CASE op = "ecdsa_genkey"
  <2>1. /\ <<"create", "ECP_BAD_INPUT_DATA">> \in Steps \X Errors
        /\ <<"curve", "ECP_FEATURE_UNAVAILABLE">> \in Steps \X Errors
    BY Check DEF Steps
  <2>2. <<<<"create", "ECP_BAD_INPUT_DATA">>, <<"curve", "ECP_FEATURE_UNAVAILABLE">>>> \in CheckList
    BY <2>1, ShortLists DEF CheckList
  <2> QED
    BY <1>3, <2>2 DEF mbedtls_ecdsa_genkey
<1>4. CASE op = "ecdh_gen_public"
  <2>1. /\ <<"curve", "ECP_FEATURE_UNAVAILABLE">> \in Steps \X Errors
        /\ <<"create", "ECP_FEATURE_UNAVAILABLE">> \in Steps \X Errors
    BY Check DEF Steps
  <2>2. <<<<"curve", "ECP_FEATURE_UNAVAILABLE">>, <<"create", "ECP_FEATURE_UNAVAILABLE">>>> \in CheckList
    BY <2>1, ShortLists DEF CheckList
  <2> QED
    BY <1>4, <2>2 DEF mbedtls_ecdh_gen_public
<1>5. CASE op = "ecdh_compute_shared"
  <2>1. /\ <<"curve", "ECP_FEATURE_UNAVAILABLE">> \in Steps \X Errors
        /\ <<"create", "ECP_FEATURE_UNAVAILABLE">> \in Steps \X Errors
    BY Check DEF Steps
  <2>2. <<<<"curve", "ECP_FEATURE_UNAVAILABLE">>, <<"create", "ECP_FEATURE_UNAVAILABLE">>>> \in CheckList
    BY <2>1, ShortLists DEF CheckList
  <2> QED
    BY <1>5, <2>2 DEF mbedtls_ecdh_compute_shared
<1>6. CASE op = "rsa_encrypt"
  <2>1. CheckPadding \o PublicKeyChecks \in CheckList
    BY PaddingChecks DEF CheckList
  <2> QED
    BY <1>6, <2>1 DEF mbedtls_rsa_rsaes_pkcs1_v15_encrypt
<1>7. CASE op = "rsa_decrypt"
  <2>1. /\ <<"create", "RSA_BAD_INPUT_DATA">> \in Steps \X Errors
    BY Check DEF Steps
  <2>2. <<<<"create", "RSA_BAD_INPUT_DATA">>>> \in CheckList
    BY <2>1, ShortLists DEF CheckList
  <2> QED
    BY <1>7, <2>2 DEF mbedtls_rsa_rsaes_pkcs1_v15_decrypt
<1>8. CASE op = "rsa_sign"
  <2>1. CheckPadding \o <<<<"digest", "RSA_BAD_INPUT_DATA">>, <<"alloc_signature", "RSA_BAD_INPUT_DATA">>,
          <<"key_type", "RSA_BAD_INPUT_DATA">>>> \in CheckList
    BY PaddingChecks DEF CheckList
  <2> QED
    BY <1>8, <2>1 DEF mbedtls_rsa_rsassa_pkcs1_v15_sign
<1>9. CASE op = "rsa_verify"
  <2>1. (CheckPadding \o <<<<"digest", "RSA_BAD_INPUT_DATA">>>>) \o PublicKeyChecks \in CheckList
    BY PaddingChecks DEF CheckList
  <2> QED
    BY <1>9, <2>1 DEF mbedtls_rsa_rsassa_pkcs1_v15_verify
<1>10. CASE op \in ReadOps \cup BootOps
  <2>1. <<"create", "none">> \in Steps \X Errors
    BY Check DEF Steps
  <2>2. <<<<"create", "none">>>> \in CheckList
    BY <2>1, ShortLists DEF CheckList
  <2> QED
    BY <1>10, <2>2 DEF read_certificate_from_optiga, read_trust_anchor_from_optiga, write_data_object,
                       optiga_trust_init
<1> QED
  BY <1>1, <1>2, <1>3, <1>4, <1>5, <1>6, <1>7, <1>8, <1>9, <1>10

\* A check that fails is never reported as success, and decryption starts from an error.
LEMMA ResultFacts ==
  ASSUME NEW op \in Ops, NEW n \in 1..(Len(Table[op].before) + 1)
  PROVE  LET result == Result(Table[op].before, n, Table[op].entry)
         IN  /\ n <= Len(Table[op].before) => result # "ok"
             /\ op = "rsa_decrypt" => result # "ok"
<1> DEFINE checks == Table[op].before
<1>1. checks \in CheckList
  BY TableFacts
<1> HIDE DEF checks
<1>2. ASSUME n <= Len(checks) PROVE Result(checks, n, Table[op].entry) \in Errors
  <2>1. checks[n] \in Steps \X Errors
    BY <1>1, <1>2 DEF CheckList
  <2> QED
    BY <1>2, <2>1 DEF Result
<1>3. ASSUME op = "rsa_decrypt", n > Len(checks) PROVE Result(checks, n, Table[op].entry) # "ok"
  <2>1. checks = <<<<"create", "RSA_BAD_INPUT_DATA">>>> /\ Table[op].entry # "ok"
    BY <1>3, TableFacts DEF checks
  <2>2. \A i \in 1..Len(checks) : ~AssignsResult(checks[i])
    BY <2>1 DEF AssignsResult
  <2>3. ~(n <= Len(checks))
    BY <1>1, <1>3 DEF CheckList
  <2> QED
    BY <2>1, <2>2, <2>3 DEF Result
<1>4. Len(checks) \in Nat
  BY <1>1 DEF CheckList
<1> QED
  BY <1>2, <1>3, <1>4 DEF checks, Errors

LEMMA ResultInReturns ==
  ASSUME NEW op \in Ops, NEW n \in 1..(Len(Table[op].before) + 1)
  PROVE  Result(Table[op].before, n, Table[op].entry) \in Returns
<1> DEFINE checks == Table[op].before
<1>1. checks \in CheckList /\ Table[op].entry \in Returns
  BY TableFacts
<1> HIDE DEF checks
<1>2. n <= Len(checks) => checks[n] \in Steps \X Errors
  BY <1>1 DEF CheckList
<1> QED
  BY <1>1, <1>2 DEF Result, Errors, Returns, checks

LEMMA AfterFacts == ASSUME NEW op \in Ops PROVE Table[op].after \in CheckList
<1> USE DEF Table, Ops, EccOps, RsaOps, BootOps, ReadOps, Operation
<1>1. <<>> \in CheckList
  BY ShortLists DEF CheckList
<1>2. CASE op = "ecdsa_sign"
  <2>1. <<"asn1_r", "ASN1">> \in Steps \X Errors /\ <<"asn1_s", "ASN1">> \in Steps \X Errors
    BY Check DEF Steps, Errors, Returns
  <2>2. <<<<"asn1_r", "ASN1">>, <<"asn1_s", "ASN1">>>> \in CheckList
    BY <2>1, ShortLists DEF CheckList
  <2> QED
    BY <1>2, <2>2 DEF mbedtls_ecdsa_sign
<1>3. CASE op \in {"ecdsa_genkey", "ecdh_gen_public", "rsa_sign"}
  <2>1. /\ <<"read_point_at_3", "CRYPT_ERROR">> \in Steps \X Errors
        /\ <<"read_point", "ECP_BAD_INPUT_DATA">> \in Steps \X Errors
        /\ <<"signature_length", "RSA_VERIFY_FAILED">> \in Steps \X Errors
    BY Check DEF Steps, Errors, Returns
  <2>2. /\ <<<<"read_point_at_3", "CRYPT_ERROR">>>> \in CheckList
        /\ <<<<"read_point", "ECP_BAD_INPUT_DATA">>>> \in CheckList
        /\ <<<<"signature_length", "RSA_VERIFY_FAILED">>>> \in CheckList
    BY <2>1, ShortLists DEF CheckList
  <2> QED
    BY <1>3, <2>2 DEF mbedtls_ecdsa_genkey, mbedtls_ecdh_gen_public, mbedtls_rsa_rsassa_pkcs1_v15_sign
<1>4. CASE op \notin {"ecdsa_sign", "ecdsa_genkey", "ecdh_gen_public", "rsa_sign"}
  BY <1>1, <1>4 DEF mbedtls_ecdsa_verify, mbedtls_ecdh_compute_shared, mbedtls_rsa_rsaes_pkcs1_v15_encrypt,
       mbedtls_rsa_rsaes_pkcs1_v15_decrypt, mbedtls_rsa_rsassa_pkcs1_v15_verify,
       read_certificate_from_optiga, read_trust_anchor_from_optiga, write_data_object, optiga_trust_init
<1> QED
  BY <1>2, <1>3, <1>4

-----------------------------------------------------------------------------
(* The invariant *)

Calls == [op : Ops \cup {"none"}, pc : Points, ret : Returns, arg : Arguments \cup {AnyArgument}, held : Nat]

Types ==
  /\ call \in [Tasks -> Calls]
  /\ status \in [Files -> {"ok", "busy", "error"}]
  /\ command \in [Tasks -> {"none", "refused", "running", "ok", "error"}]
  /\ inUse \in Int
  /\ boot \in {"trust_init", "read_certificate", "spin"}
  /\ asks \in Uses
  /\ \A t \in Tasks : ~At(t, "idle") => call[t].op \in Ops
  /\ \A t \in Tasks : command[t] = "running" => call[t].pc \in {"wait", "done"}

\* The status a task waits on is that of its own command.
OwnStatus(t) ==
  /\ At(t, "issue") => status[FileOf(t)] = "busy" /\ command[t] = "none"
  /\ At(t, "wait")  =>
       \/ command[t] = "running" /\ status[FileOf(t)] = "busy"
       \/ command[t] \in {"ok", "error"} /\ status[FileOf(t)] = command[t]

\* A success that is reported is one.
Genuine(t) ==
  At(t, "done") /\ call[t].ret = "ok" /\ call[t].op \notin Exempt => command[t] = "ok"

DecryptionFails(t) ==
  call[t].pc \in {"issue", "wait"} /\ call[t].op = "rsa_decrypt" => call[t].ret # "ok"

Answered(t) == DecryptionFails(t) /\ (t \notin overlapped => OwnStatus(t) /\ Genuine(t))

Inv == Types /\ \A t \in Tasks : Answered(t)

LEMMA InitInv == Init => Inv
<1> SUFFICES ASSUME Init PROVE Inv
  OBVIOUS
<1>1. Idle \in Calls
  BY DEF Idle, Calls, Points, Returns
<1>2. Types
  BY <1>1 DEF Init, Types, At, Idle
<1>3. \A t \in Tasks : Answered(t)
  BY DEF Init, Answered, DecryptionFails, OwnStatus, Genuine, At, Idle
<1> QED
  BY <1>2, <1>3 DEF Inv

\* A task that a step neither runs nor disturbs.
LEMMA Undisturbed ==
  ASSUME Types, Types', NEW u \in Tasks, Answered(u), call'[u] = call[u], command'[u] = command[u],
         u \notin overlapped' => u \notin overlapped,
         u \in overlapped' \/ ~(call[u].pc \in {"issue", "wait"}) \/ status'[FileOf(u)] = status[FileOf(u)]
  PROVE  Answered(u)'
BY DEF Answered, DecryptionFails, OwnStatus, Genuine, At, FileOf

LEMMA EnterInv ==
  ASSUME Inv, NEW t \in Tasks, NEW op \in Ops, NEW arg \in Arguments \cup {AnyArgument}, NEW held \in Nat,
         Enter(t, op, arg, held), UNCHANGED <<asks, stray, boot>>
  PROVE  Inv'
<1> DEFINE checks == Table[op].before
           file   == Table[op].file
<1>1. PICK n \in Stops(t, arg, checks) :
        LET passed  == n > Len(checks)
            created == IF \E i \in 1..(n - 1) : Creates(checks[i]) THEN 1 ELSE 0
        IN  /\ Move(t, [op |-> op, pc |-> IF passed THEN "issue" ELSE "done", arg |-> arg,
                        ret |-> Result(checks, n, Table[op].entry), held |-> held + created])
            /\ inUse' = inUse + created
            /\ status' = IF passed THEN [status EXCEPT ![file] = "busy"] ELSE status
            /\ overlapped' = IF passed /\ InWindow(file) \ {t} # {}
                             THEN overlapped \cup InWindow(file) \cup {t} ELSE overlapped
            /\ command' = [command EXCEPT ![t] = "none"]
  BY DEF Enter
<1> DEFINE passed  == n > Len(checks)
           created == IF \E i \in 1..(n - 1) : Creates(checks[i]) THEN 1 ELSE 0
           result  == Result(checks, n, Table[op].entry)
<1>2. /\ file \in Files /\ Len(checks) \in Nat /\ n \in 1..(Len(checks) + 1)
      /\ created \in {0, 1}
  BY TableFacts DEF Stops, CheckList
<1>3. /\ ~passed => result # "ok"
      /\ op = "rsa_decrypt" => result # "ok"
  BY <1>2, ResultFacts
<1>4. result \in Returns
  BY <1>2, ResultInReturns
<1>5. /\ call' = [call EXCEPT ![t] = [op |-> op, pc |-> IF passed THEN "issue" ELSE "done", arg |-> arg,
                                      ret |-> result, held |-> held + created]]
      /\ inUse' = inUse + created
      /\ status' = IF passed THEN [status EXCEPT ![file] = "busy"] ELSE status
      /\ overlapped' = IF passed /\ InWindow(file) \ {t} # {}
                       THEN overlapped \cup InWindow(file) \cup {t} ELSE overlapped
      /\ command' = [command EXCEPT ![t] = "none"]
  BY <1>1 DEF Move
<1> HIDE DEF checks, file, passed, created, result
<1>6. call'[t] = [op |-> op, pc |-> IF passed THEN "issue" ELSE "done", arg |-> arg,
                  ret |-> result, held |-> held + created]
  BY <1>5 DEF Inv, Types
<1>7. call'[t] \in Calls
  BY <1>2, <1>4, <1>6 DEF Calls, Points
<1>8. Types'
  BY <1>2, <1>5, <1>6, <1>7 DEF Inv, Types, At
<1>9. Answered(t)'
  BY <1>2, <1>3, <1>5, <1>6 DEF Inv, Types, Answered, DecryptionFails, OwnStatus, Genuine, At, FileOf, file
<1>10. ASSUME NEW u \in Tasks, u # t PROVE Answered(u)'
  <2>1. call'[u] = call[u] /\ command'[u] = command[u]
    BY <1>5, <1>10 DEF Inv, Types
  <2>2. u \notin overlapped' => u \notin overlapped
    BY <1>5
  <2>3. u \in overlapped' \/ ~(call[u].pc \in {"issue", "wait"}) \/ status'[FileOf(u)] = status[FileOf(u)]
    BY <1>5, <1>10 DEF Inv, Types, InWindow
  <2> QED
    BY <1>8, <2>1, <2>2, <2>3, Undisturbed DEF Inv
<1> QED
  BY <1>8, <1>9, <1>10 DEF Inv

LEMMA ArgumentTypes ==
  ASSUME NEW op \in Ops, NEW arg \in ArgumentsOf(op) PROVE arg \in Arguments \cup {AnyArgument}
BY DEF ArgumentsOf, Arguments, Ops

LEMMA BeginInv == ASSUME Inv, NEW t \in Clients, Begin(t) PROVE Inv'
<1>1. PICK op \in asks[t] : \E arg \in ArgumentsOf(op) : Enter(t, op, arg, 0)
  BY DEF Begin
<1>2. PICK arg \in ArgumentsOf(op) : Enter(t, op, arg, 0)
  BY <1>1
<1>3. op \in Ops
  <2>1. asks \in [Clients -> SUBSET (EccOps \cup RsaOps \cup {"read_trust_anchor"})]
    BY TasksAssumption DEF Inv, Types
  <2> QED
    BY <1>1, <2>1 DEF Ops, ReadOps
<1> QED
  BY <1>2, <1>3, ArgumentTypes, EnterInv DEF Begin, Tasks

LEMMA BootInv == ASSUME Inv, optiga_client_task PROVE Inv'
<1>1. PICK object \in ArgumentsOf(boot) : Enter(Boot, boot, object, 0)
  BY DEF optiga_client_task
<1>2. boot \in Ops /\ Boot \in Tasks
  BY DEF optiga_client_task, Inv, Types, Ops, BootOps, ReadOps, Tasks
<1> QED
  BY <1>1, <1>2, ArgumentTypes, EnterInv DEF optiga_client_task

LEMMA HighPerformanceInv == ASSUME Inv, NEW t \in Tasks, write_set_high_performance(t) PROVE Inv'
<1>1. call[t].arg \in Arguments \cup {AnyArgument} /\ call[t].held \in Nat
  BY DEF Inv, Types, Calls
<1> QED
  BY <1>1, EnterInv DEF write_set_high_performance, Ops, BootOps

LEMMA IssueInv == ASSUME Inv, NEW t \in Tasks, Issue(t) PROVE Inv'
<1>1. /\ At(t, "issue") /\ call[t].op \in Ops /\ call[t] \in Calls
      /\ UNCHANGED <<asks, status, inUse, boot, overlapped>>
  BY DEF Issue, Inv, Types, At
<1>2. /\ Table[call[t].op].refused \in Errors \cup {"keep"}
      /\ call[t].op \notin Exempt \cup {"rsa_decrypt"} => Table[call[t].op].refused # "keep"
      /\ FileOf(t) \in Files
  BY <1>1, TableFacts DEF FileOf
<1>3. CASE /\ command' = [command EXCEPT ![t] = "running"]
           /\ call' = [call EXCEPT ![t] = [call[t] EXCEPT !.pc = "wait"]]
  <2>1. call'[t] = [call[t] EXCEPT !.pc = "wait"] /\ call'[t] \in Calls
    BY <1>1, <1>3 DEF Inv, Types, Calls, Points
  <2>2. Types'
    BY <1>1, <1>3, <2>1 DEF Inv, Types, At, Calls
  <2>3. Answered(t)'
    BY <1>1, <1>3, <2>1 DEF Inv, Types, Answered, DecryptionFails, OwnStatus, Genuine, At, FileOf, Calls
  <2>4. ASSUME NEW u \in Tasks, u # t PROVE Answered(u)'
    BY <1>1, <1>3, <2>2, <2>4, Undisturbed DEF Inv, Types
  <2> QED
    BY <2>2, <2>3, <2>4 DEF Inv
<1>4. CASE /\ command' = [command EXCEPT ![t] = "refused"]
           /\ LET refused == Table[call[t].op].refused
              IN  call' = [call EXCEPT ![t] = [call[t] EXCEPT !.pc = "done",
                                               !.ret = IF refused = "keep" THEN @ ELSE refused]]
  <2> DEFINE refused == Table[call[t].op].refused
  <2>1. /\ call'[t] = [call[t] EXCEPT !.pc = "done", !.ret = IF refused = "keep" THEN call[t].ret ELSE refused]
        /\ call'[t] \in Calls
    BY <1>1, <1>2, <1>4 DEF Inv, Types, Calls, Points, Errors
  <2>2. Types'
    BY <1>1, <1>4, <2>1 DEF Inv, Types, At, Calls
  <2>3. Answered(t)'
    BY <1>1, <1>2, <1>4, <2>1 DEF Inv, Types, Answered, DecryptionFails, OwnStatus, Genuine, At, FileOf,
         Calls, Errors
  <2>4. ASSUME NEW u \in Tasks, u # t PROVE Answered(u)'
    BY <1>1, <1>4, <2>2, <2>4, Undisturbed DEF Inv, Types
  <2> QED
    BY <2>2, <2>3, <2>4 DEF Inv
<1> QED
  BY <1>3, <1>4 DEF Issue, Move

\* A task that goes on after the wait, with a result that is no success, or is its own.
LEMMA FinishInv ==
  ASSUME Inv, NEW t \in Tasks, Awake(t), NEW ret \in Returns,
         Move(t, [call[t] EXCEPT !.pc = "done", !.ret = ret]),
         UNCHANGED <<asks, status, command, inUse, stray, boot, overlapped>>,
         ret = "ok" /\ call[t].op \notin Exempt => status[FileOf(t)] = "ok"
  PROVE  Inv'
<1>1. /\ At(t, "wait") /\ call[t].op \in Ops /\ call[t] \in Calls
      /\ call' = [call EXCEPT ![t] = [call[t] EXCEPT !.pc = "done", !.ret = ret]]
  BY DEF Awake, Inv, Types, At, Move
<1>2. call'[t] = [call[t] EXCEPT !.pc = "done", !.ret = ret] /\ call'[t] \in Calls
  BY <1>1 DEF Inv, Types, Calls, Points
<1>3. Types'
  BY <1>1, <1>2 DEF Inv, Types, At, Calls
<1>4. Answered(t)'
  BY <1>1, <1>2 DEF Inv, Types, Answered, DecryptionFails, OwnStatus, Genuine, At, Calls
<1>5. ASSUME NEW u \in Tasks, u # t PROVE Answered(u)'
  BY <1>1, <1>3, <1>5, Undisturbed DEF Inv, Types
<1> QED
  BY <1>3, <1>4, <1>5 DEF Inv

LEMMA FailInv == ASSUME Inv, NEW t \in Tasks, Fail(t) PROVE Inv'
<1> DEFINE failed == Table[call[t].op].failed
           ret    == IF failed = "keep" THEN call[t].ret ELSE failed
<1>1. /\ At(t, "wait") /\ call[t].op \in Ops /\ call[t] \in Calls
      /\ failed # "unchecked"
  BY DEF Fail, Awake, GoesOn, Inv, Types, At
<1>2. /\ failed \in Errors \cup {"keep", "unchecked"}
      /\ call[t].op \notin Exempt \cup {"rsa_decrypt"} => failed # "keep"
  BY <1>1, TableFacts
<1>3. call[t].op = "rsa_decrypt" => call[t].ret # "ok"
  BY <1>1 DEF Inv, Answered, DecryptionFails, At
<1>4. ret \in Returns /\ (ret = "ok" => call[t].op \in Exempt)
  BY <1>1, <1>2, <1>3 DEF Calls, Errors, Returns
<1>5. Move(t, [call[t] EXCEPT !.pc = "done", !.ret = ret])
  BY DEF Fail
<1> QED
  BY <1>4, <1>5, FinishInv DEF Fail

LEMMA ConcludeInv == ASSUME Inv, NEW t \in Tasks, Conclude(t) PROVE Inv'
<1> DEFINE checks == Table[call[t].op].after
<1>1. call[t].op \in Ops
  BY DEF Conclude, Awake, Inv, Types, At
<1>2. PICK n \in Stops(t, call[t].arg, checks) :
        Move(t, [call[t] EXCEPT !.pc = "done", !.ret = Result(checks, n, "ok")])
  BY DEF Conclude
<1>3. Result(checks, n, "ok") \in Returns
  <2>1. checks \in CheckList
    BY <1>1, AfterFacts
  <2>2. n \in 1..(Len(checks) + 1) /\ Len(checks) \in Nat
    BY <2>1 DEF Stops, CheckList
  <2>3. n <= Len(checks) => checks[n] \in Steps \X Errors
    BY <2>1, <2>2 DEF CheckList
  <2> HIDE DEF checks
  <2> QED
    BY <2>2, <2>3 DEF Result, Errors, Returns
<1>4. call[t].op \notin Exempt => status[FileOf(t)] = "ok"
  BY <1>1, TableFacts DEF Conclude, GoesOn
<1> QED
  BY <1>2, <1>3, <1>4, FinishInv DEF Conclude

LEMMA ReturnInv == ASSUME Inv, NEW t \in Tasks, Return(t) PROVE Inv'
<1>1. Idle \in Calls
  BY DEF Idle, Calls, Points, Returns
<1>2. /\ call' = [call EXCEPT ![t] = Idle] /\ inUse' = inUse - call[t].held
      /\ command' = [command EXCEPT ![t] = "none"] /\ overlapped' = overlapped \ {t}
      /\ UNCHANGED <<asks, status>>
      /\ boot' = IF t = Boot THEN NextOfBoot(call[t].op) ELSE boot
  BY DEF Return, Move
<1>3. call'[t] = Idle /\ call[t] \in Calls
  BY <1>2 DEF Inv, Types
<1>4. inUse' \in Int /\ boot' \in {"trust_init", "read_certificate", "spin"}
  BY <1>2, <1>3 DEF Inv, Types, Calls, NextOfBoot
<1>5. Types'
  BY <1>1, <1>2, <1>3, <1>4 DEF Inv, Types, At, Idle
<1>6. Answered(t)'
  BY <1>3 DEF Answered, DecryptionFails, OwnStatus, Genuine, At, Idle
<1>7. ASSUME NEW u \in Tasks, u # t PROVE Answered(u)'
  BY <1>2, <1>5, <1>7, Undisturbed DEF Inv, Types
<1> QED
  BY <1>5, <1>6, <1>7 DEF Inv

LEMMA CompletedInv == ASSUME Inv, NEW t \in Tasks, optiga_crypt_event_completed(t) PROVE Inv'
<1>1. PICK result \in {"ok", "error"} :
        /\ status' = [status EXCEPT ![FileOf(t)] = result]
        /\ command' = [command EXCEPT ![t] = result]
  BY DEF optiga_crypt_event_completed, FileOf
<1>2. /\ call[t].pc \in {"wait", "done"} /\ command[t] = "running" /\ call[t].op \in Ops
      /\ overlapped' = overlapped \cup (InWindow(FileOf(t)) \ {t})
      /\ UNCHANGED <<asks, call, inUse, boot>>
  BY DEF optiga_crypt_event_completed, Inv, Types, At
<1>3. FileOf(t) \in Files
  BY <1>2, TableFacts DEF FileOf
<1>4. Types'
  BY <1>1, <1>2, <1>3 DEF Inv, Types, At
<1>5. Answered(t)'
  BY <1>1, <1>2, <1>3 DEF Inv, Types, Answered, DecryptionFails, OwnStatus, Genuine, At, FileOf
<1>6. ASSUME NEW u \in Tasks, u # t PROVE Answered(u)'
  <2>1. call'[u] = call[u] /\ command'[u] = command[u] /\ (u \notin overlapped' => u \notin overlapped)
    BY <1>1, <1>2, <1>6 DEF Inv, Types
  <2>2. u \in overlapped' \/ ~(call[u].pc \in {"issue", "wait"}) \/ status'[FileOf(u)] = status[FileOf(u)]
    BY <1>1, <1>2, <1>6 DEF Inv, Types, InWindow
  <2> QED
    BY <1>4, <2>1, <2>2, Undisturbed DEF Inv
<1> QED
  BY <1>4, <1>5, <1>6 DEF Inv

LEMMA StrayInv == ASSUME Inv, StrayCompleted PROVE Inv'
<1>1. PICK result \in {"ok", "error"} : status' = [status EXCEPT ![Table[stray].file] = result]
  BY DEF StrayCompleted
<1>2. /\ overlapped' = overlapped \cup InWindow(Table[stray].file)
      /\ UNCHANGED <<asks, call, command, inUse, boot>>
  BY DEF StrayCompleted
<1>3. Types'
  BY <1>1, <1>2 DEF Inv, Types, At
<1>4. ASSUME NEW u \in Tasks PROVE Answered(u)'
  <2>1. u \in overlapped' \/ ~(call[u].pc \in {"issue", "wait"}) \/ status'[FileOf(u)] = status[FileOf(u)]
    BY <1>1, <1>2 DEF Inv, Types, InWindow
  <2> QED
    BY <1>2, <1>3, <2>1, Undisturbed DEF Inv
<1> QED
  BY <1>3, <1>4 DEF Inv

LEMMA NextInv == Inv /\ [Next]_vars => Inv'
<1> SUFFICES ASSUME Inv, [Next]_vars PROVE Inv'
  OBVIOUS
<1>1. CASE UNCHANGED vars
  BY <1>1 DEF vars, Inv, Types, Answered, DecryptionFails, OwnStatus, Genuine, At, FileOf
<1>2. ASSUME NEW t \in Tasks, Run(t) PROVE Inv'
  BY <1>2, IssueInv, FailInv, ConcludeInv, HighPerformanceInv, ReturnInv, BootInv DEF Run
<1> QED
  BY <1>1, <1>2, BeginInv, CompletedInv, StrayInv DEF Next

-----------------------------------------------------------------------------
(* The instances of the library *)

\* There are finitely many tasks: their holdings have a sum.
LEMMA TasksFinite == IsFiniteSet(Tasks)
<1>1. IsFiniteSet(Clients \cup {Boot})
  BY TasksAssumption, FS_AddElement
<1> QED
  BY <1>1 DEF Tasks

\* The instances that the tasks hold, and that a task between two calls holds none.
Holds == [u \in Tasks |-> call[u].held]
Counted ==
  /\ inUse = SumFunction(Holds)
  /\ \A t \in Tasks : At(t, "idle") => call[t].held = 0

\* One task moves on, and what it holds more, or less, is what the count goes up or down by.
LEMMA MoveCounted ==
  ASSUME Inv, Counted, NEW t \in Tasks, NEW new, Move(t, new),
         new.held \in Int, inUse' = inUse - call[t].held + new.held,
         new.pc = "idle" => new.held = 0
  PROVE  Counted'
<1>1. Holds \in [Tasks -> Int] /\ Holds[t] = call[t].held
  BY DEF Holds, Inv, Types, Calls
<1>2. Holds' = [Holds EXCEPT ![t] = new.held]
  BY DEF Holds, Move, Inv, Types
<1>3. SumFunction([Holds EXCEPT ![t] = new.held]) = SumFunction(Holds) - Holds[t] + new.held
  BY <1>1, TasksFinite, SumUpdate
<1>4. inUse' = SumFunction(Holds')
  BY <1>1, <1>2, <1>3 DEF Counted
<1>5. (\A u \in Tasks : At(u, "idle") => call[u].held = 0)'
  BY DEF Counted, Move, At, Inv, Types
<1> QED
  BY <1>4, <1>5 DEF Counted

\* Steps that move no task.
LEMMA UnmovedCounted == ASSUME Counted, UNCHANGED <<call, inUse>> PROVE Counted'
BY DEF Counted, Holds, At

\* A function is entered with what the task already holds.
LEMMA EnterCounted ==
  ASSUME Inv, Counted, NEW t \in Tasks, NEW op \in Ops, NEW arg, Enter(t, op, arg, call[t].held)
  PROVE  Counted'
<1>1. PICK n \in Stops(t, arg, Table[op].before) :
        LET passed  == n > Len(Table[op].before)
            created == IF \E i \in 1..(n - 1) : Creates(Table[op].before[i]) THEN 1 ELSE 0
        IN  /\ Move(t, [op |-> op, pc |-> IF passed THEN "issue" ELSE "done", arg |-> arg,
                        ret |-> Result(Table[op].before, n, Table[op].entry), held |-> call[t].held + created])
            /\ inUse' = inUse + created
  BY DEF Enter
<1> DEFINE created == IF \E i \in 1..(n - 1) : Creates(Table[op].before[i]) THEN 1 ELSE 0
           new == [op |-> op, pc |-> IF n > Len(Table[op].before) THEN "issue" ELSE "done", arg |-> arg,
                   ret |-> Result(Table[op].before, n, Table[op].entry), held |-> call[t].held + created]
<1>2. Move(t, new) /\ inUse' = inUse + created /\ new.held = call[t].held + created /\ new.pc # "idle"
  BY <1>1
<1>3. created \in Int /\ call[t].held \in Int /\ inUse \in Int
  BY DEF Inv, Types, Calls
<1> HIDE DEF created, new
<1> QED
  BY <1>2, <1>3, MoveCounted

LEMMA NextCounted == Inv /\ Counted /\ [Next]_vars => Counted'
<1> SUFFICES ASSUME Inv, Counted, [Next]_vars PROVE Counted'
  OBVIOUS
<1>0. \A t \in Tasks : call[t].held \in Int /\ inUse \in Int
  BY DEF Inv, Types, Calls
<1>1. CASE UNCHANGED vars
  BY <1>1, UnmovedCounted DEF vars
<1>2. ASSUME NEW t \in Clients, Begin(t) PROVE Counted'
  <2>1. t \in Tasks /\ call[t].held = 0
    BY <1>2 DEF Begin, Counted, Tasks
  <2>2. PICK op \in asks[t] : \E arg \in ArgumentsOf(op) : Enter(t, op, arg, 0)
    BY <1>2 DEF Begin
  <2>3. op \in Ops
    BY <2>2, TasksAssumption DEF Inv, Types, Ops, ReadOps
  <2> QED
    BY <2>1, <2>2, <2>3, EnterCounted
<1>3. ASSUME optiga_client_task PROVE Counted'
  <2>1. Boot \in Tasks /\ call[Boot].held = 0 /\ boot \in Ops
    BY <1>3 DEF optiga_client_task, Counted, Tasks, Inv, Types, Ops, BootOps, ReadOps
  <2> QED
    BY <1>3, <2>1, EnterCounted DEF optiga_client_task
<1>4. ASSUME NEW t \in Tasks, write_set_high_performance(t) PROVE Counted'
  BY <1>4, EnterCounted DEF write_set_high_performance, Ops, BootOps
<1>5. ASSUME NEW t \in Tasks, Issue(t) \/ Fail(t) \/ Conclude(t) PROVE Counted'
  <2>1. PICK new : Move(t, new) /\ new.held = call[t].held /\ new.pc # "idle"
    <3>1. \A ret : /\ [call[t] EXCEPT !.pc = "done", !.ret = ret].held = call[t].held
                   /\ [call[t] EXCEPT !.pc = "done", !.ret = ret].pc = "done"
                   /\ [call[t] EXCEPT !.pc = "wait"].held = call[t].held
                   /\ [call[t] EXCEPT !.pc = "wait"].pc = "wait"
      <4>1. call[t] \in Calls
        BY DEF Inv, Types
      <4> QED
        BY <4>1 DEF Calls
    <3>2. CASE Move(t, [call[t] EXCEPT !.pc = "wait"])
      BY <3>1, <3>2
    <3>3. CASE \E ret : Move(t, [call[t] EXCEPT !.pc = "done", !.ret = ret])
      BY <3>1, <3>3
    <3> QED
      BY <1>5, <3>2, <3>3 DEF Issue, Fail, Conclude
  <2>2. inUse' = inUse
    BY <1>5 DEF Issue, Fail, Conclude
  <2>3. inUse' = inUse - call[t].held + new.held /\ new.held \in Int
    BY <1>0, <2>1, <2>2
  <2> QED
    BY <2>1, <2>3, MoveCounted
<1>6. ASSUME NEW t \in Tasks, Return(t) PROVE Counted'
  <2>1. Move(t, Idle) /\ inUse' = inUse - call[t].held /\ Idle.held = 0
    BY <1>6 DEF Return, Idle
  <2>2. inUse' = inUse - call[t].held + Idle.held
    BY <1>0, <2>1
  <2> QED
    BY <2>1, <2>2, MoveCounted
<1>7. ASSUME StrayCompleted \/ \E t \in Tasks : optiga_crypt_event_completed(t) PROVE Counted'
  BY <1>7, UnmovedCounted DEF StrayCompleted, optiga_crypt_event_completed
<1> QED
  BY <1>1, <1>2, <1>3, <1>4, <1>5, <1>6, <1>7 DEF Next, Run

\* The instances of the OPTIGA library that are in use are those that calls hold, and a
\* task between two calls holds none: what optiga_crypt_create() gave is destroyed once,
\* on every path, for any number of tasks.
THEOREM InstancesCorrect == Spec => []InstancesReturned
<1>1. Init => Counted
  <2> SUFFICES ASSUME Init PROVE Counted
    OBVIOUS
  <2>1. Holds = [u \in Tasks |-> 0]
    BY DEF Init, Holds, Idle
  <2>2. \A t \in Tasks : call[t].held = 0
    BY DEF Init, Idle
  <2> QED
    BY <2>1, <2>2, TasksFinite, SumOfZeros DEF Counted, Init
<1>2. Counted => InstancesReturned
  BY DEF Counted, Holds, InstancesReturned
<1> QED
  BY <1>1, <1>2, InitInv, NextInv, NextCounted, PTL DEF Spec

-----------------------------------------------------------------------------
(* Public keys as the chip takes them *)

\* The public key of a supported curve.
LEMMA PointHeaders ==
  ASSUME NEW curve \in Nat, Supported(curve)
  PROVE  /\ IsPrefix(VerifyHeader(curve), DerPoint(curve))
         /\ Length(VerifyHeader(curve)) + PointLength(curve) = Length(DerPoint(curve))
         /\ IsPrefix(SharedHeader(curve), DerPoint(curve))
         /\ Length(SharedHeader(curve)) + PointLength(curve) = Length(DerPoint(curve))
<1>1. curve \in {3, 6} \/ curve \in {4, 7} \/ curve = 5 \/ curve = 8
  BY DEF Supported
<1>2. DerPoint(curve) = Joined(Joined(<<3>>, DerLength(PointLength(curve) + 1)), Nulls(PointLength(curve) + 1))
  <2>1. PointLength(curve) + 1 \in Nat
    BY <1>1 DEF PointLength, CurveBytes
  <2>2. DerPoint(curve) = Der(3, Nulls(PointLength(curve) + 1))
    BY DEF DerPoint, Nulls
  <2> QED
    BY <2>1, <2>2, NullsFacts DEF Der, Joined
<1>3. /\ Joined(<<3>>, <<66>>) = <<3, 66>> /\ Joined(<<3>>, <<98>>) = <<3, 98>>
      /\ Joined(<<3>>, <<129, 134>>) = <<3, 129, 134>> /\ Joined(<<3>>, <<129, 130>>) = <<3, 129, 130>>
  BY PairJoined, TripleJoined
<1>4. /\ \A b \in Nat : Length(<<3, b, 0>>) = 3
      /\ \A c \in Nat : Length(<<3, 129, c, 0>>) = 4
  BY DEF Length
<1>5. CASE curve \in {3, 6}
  <2>1. PointLength(curve) = 65 /\ VerifyHeader(curve) = <<3, 66, 0>> /\ SharedHeader(curve) = <<3, 66, 0>>
        /\ DerLength(66) = <<66>>
    BY <1>5 DEF PointLength, CurveBytes, VerifyHeader, PublicKeyOffset, SharedHeader, DerLength
  <2>2. DerPoint(curve) = Joined(<<3, 66>>, Nulls(66))
    BY <1>2, <1>3, <2>1
  <2>3. IsPrefix(<<3, 66, 0>>, Joined(<<3, 66>>, Nulls(66)))
    BY ShortPrefix
  <2>4. Length(Joined(<<3, 66>>, Nulls(66))) = 66 + 2
    <3> DEFINE head == <<3, 66>>
               rest == Nulls(66)
    <3>1. Length(head) = 2 /\ head \in Seq(Nat)
      BY DEF Length
    <3>2. Length(rest) = 66 /\ rest \in Seq(Nat)
      BY NullsFacts
    <3> HIDE DEF head, rest
    <3>3. Length(Joined(head, rest)) = 66 + 2
      BY <3>1, <3>2, JoinedLength
    <3> QED
      BY <3>3 DEF head, rest
  <2> QED
    BY <1>4, <2>1, <2>2, <2>3, <2>4
<1>6. CASE curve \in {4, 7}
  <2>1. PointLength(curve) = 97 /\ VerifyHeader(curve) = <<3, 98, 0>> /\ SharedHeader(curve) = <<3, 98, 0>>
        /\ DerLength(98) = <<98>>
    BY <1>6 DEF PointLength, CurveBytes, VerifyHeader, PublicKeyOffset, SharedHeader, DerLength
  <2>2. DerPoint(curve) = Joined(<<3, 98>>, Nulls(98))
    BY <1>2, <1>3, <2>1
  <2>3. IsPrefix(<<3, 98, 0>>, Joined(<<3, 98>>, Nulls(98)))
    BY ShortPrefix
  <2>4. Length(Joined(<<3, 98>>, Nulls(98))) = 98 + 2
    <3> DEFINE head == <<3, 98>>
               rest == Nulls(98)
    <3>1. Length(head) = 2 /\ head \in Seq(Nat)
      BY DEF Length
    <3>2. Length(rest) = 98 /\ rest \in Seq(Nat)
      BY NullsFacts
    <3> HIDE DEF head, rest
    <3>3. Length(Joined(head, rest)) = 98 + 2
      BY <3>1, <3>2, JoinedLength
    <3> QED
      BY <3>3 DEF head, rest
  <2> QED
    BY <1>4, <2>1, <2>2, <2>3, <2>4
<1>7. CASE curve = 5
  <2>1. PointLength(curve) = 133 /\ VerifyHeader(curve) = <<3, 129, 134, 0>> /\ SharedHeader(curve) = <<3, 129, 134, 0>>
        /\ DerLength(134) = <<129, 134>>
    BY <1>7 DEF PointLength, CurveBytes, VerifyHeader, PublicKeyOffset, SharedHeader, DerLength
  <2>2. DerPoint(curve) = Joined(<<3, 129, 134>>, Nulls(134))
    BY <1>2, <1>3, <2>1
  <2>3. IsPrefix(<<3, 129, 134, 0>>, Joined(<<3, 129, 134>>, Nulls(134)))
    BY LongPrefix
  <2>4. Length(Joined(<<3, 129, 134>>, Nulls(134))) = 134 + 3
    <3> DEFINE head == <<3, 129, 134>>
               rest == Nulls(134)
    <3>1. Length(head) = 3 /\ head \in Seq(Nat)
      BY DEF Length
    <3>2. Length(rest) = 134 /\ rest \in Seq(Nat)
      BY NullsFacts
    <3> HIDE DEF head, rest
    <3>3. Length(Joined(head, rest)) = 134 + 3
      BY <3>1, <3>2, JoinedLength
    <3> QED
      BY <3>3 DEF head, rest
  <2> QED
    BY <1>4, <2>1, <2>2, <2>3, <2>4
<1>8. CASE curve = 8
  <2>1. PointLength(curve) = 129 /\ VerifyHeader(curve) = <<3, 129, 130, 0>> /\ SharedHeader(curve) = <<3, 129, 130, 0>>
        /\ DerLength(130) = <<129, 130>>
    BY <1>8 DEF PointLength, CurveBytes, VerifyHeader, PublicKeyOffset, SharedHeader, DerLength
  <2>2. DerPoint(curve) = Joined(<<3, 129, 130>>, Nulls(130))
    BY <1>2, <1>3, <2>1
  <2>3. IsPrefix(<<3, 129, 130, 0>>, Joined(<<3, 129, 130>>, Nulls(130)))
    BY LongPrefix
  <2>4. Length(Joined(<<3, 129, 130>>, Nulls(130))) = 130 + 3
    <3> DEFINE head == <<3, 129, 130>>
               rest == Nulls(130)
    <3>1. Length(head) = 3 /\ head \in Seq(Nat)
      BY DEF Length
    <3>2. Length(rest) = 130 /\ rest \in Seq(Nat)
      BY NullsFacts
    <3> HIDE DEF head, rest
    <3>3. Length(Joined(head, rest)) = 130 + 3
      BY <3>1, <3>2, JoinedLength
    <3> QED
      BY <3>3 DEF head, rest
  <2> QED
    BY <1>4, <2>1, <2>2, <2>3, <2>4
<1> QED
  BY <1>1, <1>5, <1>6, <1>7, <1>8

\* One byte.
Byte(value) == <<value>>

\* What SetDerLength() writes after the byte that counts its bytes is the DER length.
LEMMA LengthFieldOfOne ==
  \A value \in Nat : 127 < value /\ value < 256 =>
    /\ DerLength(value) = Joined(Byte(129), SetDerLength(value))
    /\ SetDerLength(value) \in Seq(Nat)
    /\ DerLength(value) \in Seq(Nat)
    /\ Length(DerLength(value)) = 2
<1> TAKE value \in Nat
<1> HAVE 127 < value /\ value < 256
<1>1. DerLength(value) = <<129, value>> /\ SetDerLength(value) = <<value>>
  BY DEF DerLength, SetDerLength
<1>2. Joined(<<129>>, <<value>>) = <<129, value>>
  BY PairJoined
<1>3. <<129, value>> \in Seq(Nat) /\ <<value>> \in Seq(Nat) /\ Length(<<129, value>>) = 2
  BY DEF Length
<1> QED
  BY <1>1, <1>2, <1>3 DEF Byte

\* The same for a length that takes two bytes.
LEMMA LengthFieldOfTwo ==
  \A value \in Nat : 255 < value /\ value < 512 =>
    /\ DerLength(value) = Joined(Byte(130), SetDerLength(value))
    /\ SetDerLength(value) \in Seq(Nat)
    /\ DerLength(value) \in Seq(Nat)
    /\ Length(DerLength(value)) = 3
<1> TAKE value \in Nat
<1> HAVE 255 < value /\ value < 512
<1> DEFINE high == value \div 256
           low  == value % 256
<1>1. high \in Nat /\ low \in Nat /\ high % 256 = high
  OBVIOUS
<1>2. DerLength(value) = <<130, high, low>>
  BY DEF DerLength
<1>3. SetDerLength(value) = <<high, low>>
  BY <1>1 DEF SetDerLength
<1> HIDE DEF high, low
<1>4. Joined(<<130>>, <<high, low>>) = <<130, high, low>>
  BY <1>1, TripleJoined
<1>5. <<130, high, low>> \in Seq(Nat) /\ <<high, low>> \in Seq(Nat) /\ Length(<<130, high, low>>) = 3
  BY <1>1 DEF Length
<1> QED
  BY <1>2, <1>3, <1>4, <1>5 DEF Byte

\* A part joins what follows it.
LEMMA Absorbed ==
  ASSUME NEW S, NEW x \in Seq(S), NEW p \in Seq(S), NEW q \in Seq(S), NEW r \in Seq(S)
  PROVE  Joined(Joined(x, Joined(p, q)), r) = Joined(Joined(x, p), Joined(q, r))
<1> DEFINE xp == Joined(x, p)
<1>1. Joined(x, Joined(p, q)) = Joined(xp, q)
  BY JoinedFacts
<1>2. xp \in Seq(S)
  BY JoinedFacts
<1> HIDE DEF xp
<1>3. Joined(Joined(xp, q), r) = Joined(xp, Joined(q, r))
  BY <1>2, JoinedFacts
<1> QED
  BY <1>1, <1>3 DEF xp

\* A public key as BitString() and as DerRsaKey() put it together.
KeyBytes(field, outer, inner, k, zeros, exponent) ==
  LET bits  == Joined(Joined(<<3, 128 + field>>, SetDerLength(outer)), <<0>>)
      list  == Joined(Joined(bits, <<48, 128 + field>>), SetDerLength(inner))
      first == Joined(Joined(Joined(list, <<2, 128 + field>>), SetDerLength(k)), zeros)
  IN  Joined(first, exponent)
KeyInDer(zeros, exponent) == Der(3, Joined(<<0>>, Der(48, Joined(Der(2, zeros), exponent))))

\* The parts of a public key in DER, for lengths whose DER form takes field + 1 bytes.
LEMMA KeyParts ==
  ASSUME NEW field \in Nat, NEW k \in Nat, NEW inner \in Nat, NEW outer \in Nat,
         inner = 8 + k + field, outer = 11 + k + 2 * field,
         (field = 1 /\ 127 < k /\ k < 256 /\ 127 < inner /\ inner < 256 /\ 127 < outer /\ outer < 256)
           \/ (field = 2 /\ 255 < k /\ k < 512 /\ 255 < inner /\ inner < 512 /\ 255 < outer /\ outer < 512),
         NEW zeros \in Seq(Nat), Length(zeros) = k, NEW exponent \in Seq(Nat), Length(exponent) = 6
  PROVE  KeyBytes(field, outer, inner, k, zeros, exponent) = KeyInDer(zeros, exponent)
<1> DEFINE a  == <<3>>
           c  == <<0>>
           d  == <<48>>
           f  == <<2>>
           B  == Byte(128 + field)
           b  == DerLength(outer)
           e  == DerLength(inner)
           g  == DerLength(k)
           bb == SetDerLength(outer)
           ee == SetDerLength(inner)
           gg == SetDerLength(k)
<1>0. /\ \A p, q \in Seq(Nat) : Joined(p, q) \in Seq(Nat)
      /\ \A p, q, r \in Seq(Nat) : Joined(Joined(p, q), r) = Joined(p, Joined(q, r))
  <2>1. \A p, q \in Seq(Nat) : Joined(p, q) \in Seq(Nat)
    BY DEF Joined
  <2>2. \A p, q, r \in Seq(Nat) : Joined(Joined(p, q), r) = Joined(p, Joined(q, r))
    BY JoinedFacts
  <2> QED
    BY <2>1, <2>2
<1>1. \A value \in {k, inner, outer} :
        /\ DerLength(value) = Joined(B, SetDerLength(value))
        /\ SetDerLength(value) \in Seq(Nat)
        /\ DerLength(value) \in Seq(Nat)
        /\ Length(DerLength(value)) = 1 + field
  <2>1. CASE field = 1
    <3>1. 128 + field = 129 /\ 1 + field = 2 /\ \A value \in {k, inner, outer} : value \in Nat /\ 127 < value /\ value < 256
      BY <2>1
    <3> QED
      BY <3>1, LengthFieldOfOne
  <2>2. CASE field = 2
    <3>1. 128 + field = 130 /\ 1 + field = 3 /\ \A value \in {k, inner, outer} : value \in Nat /\ 255 < value /\ value < 512
      BY <2>2
    <3> QED
      BY <3>1, LengthFieldOfTwo
  <2> QED
    BY <2>1, <2>2
<1>2. /\ b = Joined(B, bb) /\ bb \in Seq(Nat) /\ b \in Seq(Nat) /\ Length(b) = 1 + field
      /\ e = Joined(B, ee) /\ ee \in Seq(Nat) /\ e \in Seq(Nat) /\ Length(e) = 1 + field
  BY <1>1
<1>3. g = Joined(B, gg) /\ gg \in Seq(Nat) /\ g \in Seq(Nat) /\ Length(g) = 1 + field
  BY <1>1
<1>4. /\ a \in Seq(Nat) /\ c \in Seq(Nat) /\ d \in Seq(Nat) /\ f \in Seq(Nat) /\ B \in Seq(Nat)
      /\ Length(a) = 1 /\ Length(c) = 1 /\ Length(d) = 1 /\ Length(f) = 1
  BY DEF Length, Byte
<1>5. Joined(a, B) = <<3, 128 + field>> /\ Joined(d, B) = <<48, 128 + field>> /\ Joined(f, B) = <<2, 128 + field>>
  <2>1. 128 + field \in Nat
    OBVIOUS
  <2> QED
    BY <2>1, PairJoined DEF Byte
<1>6. \A tag, content : Der(tag, content) = Joined(Joined(<<tag>>, DerLength(Length(content))), content)
  BY DEF Der, Joined, Length
<1> HIDE DEF a, c, d, f, B, b, e, g, bb, ee, gg
<1> DEFINE fg   == Joined(f, g)
           key  == Joined(fg, zeros)
           pair == Joined(key, exponent)
           de   == Joined(d, e)
           list == Joined(de, pair)
           bits == Joined(c, list)
           ab   == Joined(a, b)
<1>7. fg \in Seq(Nat) /\ Length(fg) = 2 + field
  BY <1>3, <1>4, JoinedLength, JoinedFacts
<1>8. key \in Seq(Nat) /\ Length(key) = 2 + field + k
  BY <1>7, JoinedLength, JoinedFacts
<1>9. pair \in Seq(Nat) /\ Length(pair) = inner
  BY <1>8, JoinedLength, JoinedFacts
<1>10. de \in Seq(Nat) /\ Length(de) = 2 + field
  BY <1>2, <1>4, JoinedLength, JoinedFacts
<1>11. list \in Seq(Nat) /\ Length(list) = 2 + field + inner
  BY <1>9, <1>10, JoinedLength, JoinedFacts
<1>12. bits \in Seq(Nat) /\ Length(bits) = outer
  BY <1>4, <1>11, JoinedLength, JoinedFacts
<1>13. Der(2, zeros) = key
  BY <1>6 DEF f, g
<1>14. Der(48, pair) = list
  BY <1>6, <1>9 DEF d, e
<1>15. Der(3, bits) = Joined(ab, bits)
  BY <1>6, <1>12 DEF a, b
<1>16. KeyInDer(zeros, exponent) = Joined(ab, bits)
  <2>1. Joined(<<0>>, list) = bits
    BY DEF c
  <2>2. KeyInDer(zeros, exponent) = Der(3, Joined(<<0>>, Der(48, pair)))
    BY <1>13 DEF KeyInDer
  <2> QED
    BY <1>14, <1>15, <2>1, <2>2
<1> HIDE DEF fg, key, pair, de, list, bits, ab
<1>17. Joined(Joined(a, B), bb) = ab /\ ab \in Seq(Nat)
  <2>1. Joined(Joined(a, B), bb) = Joined(a, Joined(B, bb))
    BY <1>0, <1>2, <1>4
  <2>2. Joined(a, b) \in Seq(Nat)
    BY <1>0, <1>2, <1>4
  <2> QED
    BY <1>2, <2>1, <2>2 DEF ab
<1> DEFINE abc == Joined(ab, c)
           dB  == Joined(d, B)
           fB  == Joined(f, B)
           x5  == Joined(Joined(abc, d), e)
           x7  == Joined(Joined(x5, f), g)
<1>18. abc \in Seq(Nat)
  BY <1>4, <1>17, JoinedFacts
<1>19. Joined(Joined(abc, dB), ee) = x5
  BY <1>2, <1>4, <1>18, Absorbed
<1>20. x5 \in Seq(Nat)
  <2>1. Joined(abc, d) \in Seq(Nat)
    BY <1>4, <1>18, JoinedFacts
  <2> QED
    BY <2>1, <1>2, JoinedFacts
<1>21. Joined(Joined(x5, fB), gg) = x7
  BY <1>3, <1>4, <1>20, Absorbed
<1>22. Joined(Joined(x7, zeros), exponent) = Joined(ab, bits)
  <2>1. x7 = Joined(x5, fg)
    <3> HIDE DEF x5
    <3> QED
      BY <1>0, <1>3, <1>4, <1>20 DEF fg
  <2>2. Joined(Joined(x5, fg), zeros) = Joined(x5, key)
    BY <1>0, <1>7, <1>20 DEF key
  <2>3. Joined(Joined(x5, key), exponent) = Joined(x5, pair)
    BY <1>0, <1>8, <1>20 DEF pair
  <2>4. x5 = Joined(abc, de)
    BY <1>0, <1>2, <1>4, <1>18 DEF de
  <2>5. Joined(Joined(abc, de), pair) = Joined(abc, list)
    BY <1>0, <1>9, <1>10, <1>18 DEF list
  <2>6. Joined(abc, list) = Joined(ab, bits)
    BY <1>0, <1>4, <1>11, <1>17 DEF bits
  <2> QED
    BY <2>1, <2>2, <2>3, <2>4, <2>5, <2>6
<1>23. KeyBytes(field, outer, inner, k, zeros, exponent)
         = Joined(Joined(Joined(Joined(Joined(Joined(Joined(Joined(Joined(a, B), bb), c), dB), ee), fB), gg), zeros), exponent)
  <2>1. c = <<0>>
    BY DEF c
  <2> QED
    BY <1>5, <2>1 DEF KeyBytes, bb, ee, gg
<1>24. KeyBytes(field, outer, inner, k, zeros, exponent) = Joined(ab, bits)
  BY <1>17, <1>19, <1>21, <1>22, <1>23
<1> QED
  BY <1>16, <1>24

\* The exponent, of four bytes.
LEMMA ExponentInDer == Der(2, <<0, 0, 0, 0>>) = <<2, 4, 0, 0, 0, 0>>
<1> DEFINE x == <<2>> \o <<4>> \o <<0, 0, 0, 0>>
           y == <<2, 4, 0, 0, 0, 0>>
<1>1. Der(2, <<0, 0, 0, 0>>) = x
  <2>1. Len(<<0, 0, 0, 0>>) = 4 /\ DerLength(4) = <<4>>
    BY DEF DerLength
  <2> QED
    BY <2>1 DEF Der
<1>2. <<2>> \o <<4>> = <<2, 4>>
  BY PairJoined DEF Joined
<1>3. <<2, 4>> \o <<0, 0, 0, 0>> = y
  <2> DEFINE z == <<2, 4>> \o <<0, 0, 0, 0>>
  <2>1. z \in Seq(Nat) /\ Len(z) = 6 /\ y \in Seq(Nat) /\ Len(y) = 6
    OBVIOUS
  <2>2. z[1] = 2 /\ z[2] = 4 /\ z[3] = 0 /\ z[4] = 0 /\ z[5] = 0 /\ z[6] = 0
    OBVIOUS
  <2>3. y[1] = 2 /\ y[2] = 4 /\ y[3] = 0 /\ y[4] = 0 /\ y[5] = 0 /\ y[6] = 0
    OBVIOUS
  <2> HIDE DEF y, z
  <2>4. \A i \in 1..6 : z[i] = y[i]
    BY <2>2, <2>3
  <2>5. z = y
    BY <2>1, <2>4, SameSequence
  <2> QED
    BY <2>5 DEF z
<1>4. x = y
  BY <1>2, <1>3
<1> QED
  BY <1>1, <1>4

\* Around any modulus that the checks let through the bytes are those of DER.
LEMMA ModulusHeader ==
  ASSUME NEW n \in {128, 256}, NEW negative \in BOOLEAN
  PROVE  BitString(n, negative) = DerRsaKey(n, negative)
<1> DEFINE exponent == <<2, 4, 0, 0, 0, 0>>
<1>1. exponent \in Seq(Nat) /\ Length(exponent) = 6
  BY DEF Length
<1>2. PICK sign \in {0, 1} : sign = (IF negative THEN 1 ELSE 0)
  OBVIOUS
<1>3. PICK field \in {1, 2} : field = LengthFieldInBytes(n) /\ field = (IF n = 128 THEN 1 ELSE 2)
  BY DEF LengthFieldInBytes
<1>4. PICK k \in Nat : k = n + sign
  OBVIOUS
<1>5. PICK inner \in Nat : inner = 8 + k + field
  OBVIOUS
<1>6. PICK outer \in Nat : outer = 11 + k + 2 * field
  OBVIOUS
<1>7. 7 + n + sign + 4 + 2 * field = outer /\ 4 + n + sign + 4 + field = inner
  BY <1>4, <1>5, <1>6
<1>8. (field = 1 /\ 127 < k /\ k < 256 /\ 127 < inner /\ inner < 256 /\ 127 < outer /\ outer < 256)
      \/ (field = 2 /\ 255 < k /\ k < 512 /\ 255 < inner /\ inner < 512 /\ 255 < outer /\ outer < 512)
  BY <1>3, <1>4, <1>5, <1>6
<1>9. Nulls(k) \in Seq(Nat) /\ Length(Nulls(k)) = k
  BY NullsFacts
<1>10. BitString(n, negative) = KeyBytes(field, outer, inner, k, Nulls(k), exponent)
  <2> DEFINE F == LengthFieldInBytes(n)
             G == IF negative THEN 1 ELSE 0
  <2>1. BitString(n, negative)
          = KeyBytes(F, 7 + n + G + 4 + 2 * F, 4 + n + G + 4 + F, n + G, Nulls(n + G), exponent)
    BY Zenon DEF BitString, Nulls, KeyBytes, Joined
  <2>2. F = field /\ G = sign
    BY <1>2, <1>3
  <2> HIDE DEF F, G
  <2>3. 7 + n + G + 4 + 2 * F = outer /\ 4 + n + G + 4 + F = inner /\ n + G = k
    BY <1>4, <1>7, <2>2
  <2> QED
    BY <2>1, <2>2, <2>3, Zenon
<1>11. DerRsaKey(n, negative) = KeyInDer(Nulls(k), exponent)
  <2>1. (IF negative THEN n + 1 ELSE n) = k
    BY <1>2, <1>4
  <2>2. DerRsaKey(n, negative)
          = Der(3, <<0>> \o Der(48, Der(2, Nulls(IF negative THEN n + 1 ELSE n)) \o Der(2, <<0, 0, 0, 0>>)))
    BY Zenon DEF DerRsaKey, Nulls
  <2> QED
    BY <2>1, <2>2, ExponentInDer, Zenon DEF KeyInDer, Joined
<1> HIDE DEF exponent
<1>12. field \in Nat
  OBVIOUS
<1>13. KeyBytes(field, outer, inner, k, Nulls(k), exponent) = KeyInDer(Nulls(k), exponent)
  BY <1>1, <1>5, <1>6, <1>8, <1>9, <1>12, KeyParts
<1> QED
  BY <1>10, <1>11, <1>13

-----------------------------------------------------------------------------
(* What the operations work on *)

\* The arguments that a command is issued with.
Ready(op, arg) ==
  /\ op = "ecdsa_genkey" => Supported(arg[1])
  /\ op \in {"ecdsa_verify", "ecdh_compute_shared"} => arg[1] \in Nat /\ Supported(arg[1])
  /\ op \in {"rsa_encrypt", "rsa_verify"} => arg[1] \in {128, 256} /\ arg[2] \in BOOLEAN

\* What an operation is called with.
Suits(op, arg) ==
  /\ op \in {"ecdsa_verify", "ecdh_compute_shared"} => arg[1] \in Nat
  /\ op \in {"rsa_encrypt", "rsa_verify"} => arg[2] \in BOOLEAN
  /\ op \in ReadOps => arg \in Certificates
  /\ op = "read_trust_anchor" => ~arg[2]

Supplied(t) ==
  /\ call[t].op \in ReadOps /\ ~At(t, "idle") =>
       call[t].arg \in Certificates /\ (call[t].op = "read_trust_anchor" => ~call[t].arg[2])
  /\ At(t, "issue") \/ At(t, "wait") => Ready(call[t].op, call[t].arg)
AllSupplied == \A t \in Tasks : Supplied(t)

\* The last element of two sequences put together.
LEMMA LastJoined ==
  ASSUME NEW S, NEW p \in Seq(S), NEW q \in Seq(S), NEW m \in Nat, NEW n \in Nat \ {0},
         Length(p) = m, Length(q) = n
  PROVE  /\ Joined(p, q) \in Seq(S) /\ Length(Joined(p, q)) = m + n
         /\ Joined(p, q)[m + n] = q[n]
BY DEF Joined, Length

\* The places of the checks that matter.
LEMMA CheckPlaces ==
  /\ Length(Table["ecdsa_genkey"].before) = 2 /\ Table["ecdsa_genkey"].before[2][1] = "curve"
  /\ Length(Table["ecdsa_verify"].before) = 3 /\ Table["ecdsa_verify"].before[2][1] = "curve"
  /\ Length(Table["ecdh_compute_shared"].before) = 2 /\ Table["ecdh_compute_shared"].before[1][1] = "curve"
  /\ Length(Table["rsa_encrypt"].before) = 6 /\ Table["rsa_encrypt"].before[6][1] = "key_type"
  /\ Length(Table["rsa_verify"].before) = 7 /\ Table["rsa_verify"].before[7][1] = "key_type"
<1>1. /\ Table["ecdsa_verify"] = mbedtls_ecdsa_verify /\ Table["ecdh_compute_shared"] = mbedtls_ecdh_compute_shared
      /\ Table["rsa_encrypt"] = mbedtls_rsa_rsaes_pkcs1_v15_encrypt
      /\ Table["rsa_verify"] = mbedtls_rsa_rsassa_pkcs1_v15_verify
      /\ Table["ecdsa_genkey"] = mbedtls_ecdsa_genkey
  BY DEF Table, Ops, EccOps, RsaOps
<1>2. Length(Table["ecdsa_verify"].before) = 3 /\ Table["ecdsa_verify"].before[2][1] = "curve"
  BY <1>1 DEF mbedtls_ecdsa_verify, Operation, Length
<1>3. Length(Table["ecdh_compute_shared"].before) = 2 /\ Table["ecdh_compute_shared"].before[1][1] = "curve"
  BY <1>1 DEF mbedtls_ecdh_compute_shared, Operation, Length
<1> DEFINE S      == Steps \X Errors
           digest == <<<<"digest", "RSA_BAD_INPUT_DATA">>>>
           first  == Joined(CheckPadding, digest)
<1>4. /\ CheckPadding \in Seq(S) /\ Length(CheckPadding) = 2
      /\ PublicKeyChecks \in Seq(S) /\ Length(PublicKeyChecks) = 4 /\ PublicKeyChecks[4][1] = "key_type"
      /\ digest \in Seq(S) /\ Length(digest) = 1
  <2>1. CheckPadding \in CheckList /\ PublicKeyChecks \in CheckList /\ digest \in CheckList
    BY PaddingChecks
  <2> QED
    BY <2>1 DEF CheckPadding, PublicKeyChecks, CheckList, Length
<1>5. Length(Joined(CheckPadding, PublicKeyChecks)) = 6 /\ Joined(CheckPadding, PublicKeyChecks)[6][1] = "key_type"
  <2> HIDE DEF S
  <2> QED
    BY <1>4, LastJoined
<1>6. Length(Joined(first, PublicKeyChecks)) = 7 /\ Joined(first, PublicKeyChecks)[7][1] = "key_type"
  <2> HIDE DEF S, digest
  <2>1. first \in Seq(S) /\ Length(first) = 3
    BY <1>4, LastJoined
  <2> HIDE DEF first
  <2> QED
    BY <1>4, <2>1, LastJoined
<1>7. Table["rsa_encrypt"].before = Joined(CheckPadding, PublicKeyChecks)
  BY <1>1 DEF mbedtls_rsa_rsaes_pkcs1_v15_encrypt, Operation, Joined
<1>8. Table["rsa_verify"].before = Joined(first, PublicKeyChecks)
  BY <1>1 DEF mbedtls_rsa_rsassa_pkcs1_v15_verify, Operation, Joined
<1>9. Length(Table["ecdsa_genkey"].before) = 2 /\ Table["ecdsa_genkey"].before[2][1] = "curve"
  BY <1>1 DEF mbedtls_ecdsa_genkey, Operation, Length
<1> QED
  BY <1>2, <1>3, <1>5, <1>6, <1>7, <1>8, <1>9

\* With the last check passed, a command is issued with what the checks let through.
LEMMA PassedReady ==
  ASSUME NEW t, NEW op \in Ops, NEW arg, Suits(op, arg), NEW n \in Stops(t, arg, Table[op].before),
         n > Len(Table[op].before)
  PROVE  Ready(op, arg)
<1> DEFINE checks == Table[op].before
<1>1. Len(checks) \in Nat /\ n \in 1..(Len(checks) + 1) /\ n > Len(checks)
  BY TableFacts DEF CheckList, Stops
<1>2. \A place \in Nat \ {0} : place <= Length(checks) => TRUE \in Outcomes(t, arg, checks[place][1])
  <2>1. \A i \in 1..(n - 1) : TRUE \in Outcomes(t, arg, checks[i][1])
    BY DEF Stops
  <2> HIDE DEF checks
  <2>2. \A place \in Nat \ {0} : place <= Len(checks) => place \in 1..(n - 1)
    BY <1>1
  <2> QED
    BY <2>1, <2>2 DEF Length
<1> HIDE DEF checks
<1>3. TRUE \in Outcomes(t, arg, "curve") => Supported(arg[1])
  BY DEF Outcomes
<1>4. TRUE \in Outcomes(t, arg, "key_type") => arg[1] \in {128, 256}
  BY DEF Outcomes
<1>5. CASE op = "ecdsa_verify"
  <2>0. Length(checks) = 3
    BY <1>5, CheckPlaces DEF checks
  <2>9. 2 \in Nat \ {0} /\ 2 <= Length(checks)
    BY <2>0
  <2>1. TRUE \in Outcomes(t, arg, checks[2][1])
    BY <1>2, <2>9
  <2> QED
    BY <1>3, <1>5, <2>1, CheckPlaces DEF Ready, Suits, checks
<1>6. CASE op = "ecdh_compute_shared"
  <2>0. Length(checks) = 2
    BY <1>6, CheckPlaces DEF checks
  <2>9. 1 \in Nat \ {0} /\ 1 <= Length(checks)
    BY <2>0
  <2>1. TRUE \in Outcomes(t, arg, checks[1][1])
    BY <1>2, <2>9
  <2> QED
    BY <1>3, <1>6, <2>1, CheckPlaces DEF Ready, Suits, checks
<1>7. CASE op = "rsa_encrypt"
  <2>0. Length(checks) = 6
    BY <1>7, CheckPlaces DEF checks
  <2>9. 6 \in Nat \ {0} /\ 6 <= Length(checks)
    BY <2>0
  <2>1. TRUE \in Outcomes(t, arg, checks[6][1])
    BY <1>2, <2>9
  <2> QED
    BY <1>4, <1>7, <2>1, CheckPlaces DEF Ready, Suits, checks
<1>8. CASE op = "rsa_verify"
  <2>0. Length(checks) = 7
    BY <1>8, CheckPlaces DEF checks
  <2>9. 7 \in Nat \ {0} /\ 7 <= Length(checks)
    BY <2>0
  <2>1. TRUE \in Outcomes(t, arg, checks[7][1])
    BY <1>2, <2>9
  <2> QED
    BY <1>4, <1>8, <2>1, CheckPlaces DEF Ready, Suits, checks
<1>9. CASE op = "ecdsa_genkey"
  <2>0. Length(checks) = 2
    BY <1>9, CheckPlaces DEF checks
  <2>9. 2 \in Nat \ {0} /\ 2 <= Length(checks)
    BY <2>0
  <2>1. TRUE \in Outcomes(t, arg, checks[2][1])
    BY <1>2, <2>9
  <2> QED
    BY <1>3, <1>9, <2>1, CheckPlaces DEF Ready, checks
<1> QED
  BY <1>5, <1>6, <1>7, <1>8, <1>9 DEF Ready

\* A task that stays where it is, or goes on with the same operation and argument.
LEMMA SameCall ==
  ASSUME NEW t \in Tasks, Supplied(t), call'[t].op = call[t].op, call'[t].arg = call[t].arg,
         ~At(t, "idle") \/ At(t, "idle")',
         At(t, "issue")' \/ At(t, "wait")' => At(t, "issue") \/ At(t, "wait")
  PROVE  Supplied(t)'
BY DEF Supplied, At

\* One task moves on.
LEMMA MoveSupplied ==
  ASSUME Types, AllSupplied, NEW t \in Tasks, NEW new, Move(t, new), Supplied(t)'
  PROVE  AllSupplied'
<1>1. ASSUME NEW u \in Tasks, u # t PROVE Supplied(u)'
  <2>1. call'[u] = call[u]
    BY <1>1 DEF Move, Types
  <2> QED
    BY <2>1 DEF AllSupplied, Supplied, At
<1> QED
  BY <1>1 DEF AllSupplied

LEMMA EnterSupplied ==
  ASSUME Inv, AllSupplied, NEW t \in Tasks, NEW op \in Ops, NEW arg, NEW held, Suits(op, arg), Enter(t, op, arg, held)
  PROVE  AllSupplied'
<1>1. PICK n \in Stops(t, arg, Table[op].before) :
        LET passed  == n > Len(Table[op].before)
            created == IF \E i \in 1..(n - 1) : Creates(Table[op].before[i]) THEN 1 ELSE 0
        IN  Move(t, [op |-> op, pc |-> IF passed THEN "issue" ELSE "done", arg |-> arg,
                     ret |-> Result(Table[op].before, n, Table[op].entry), held |-> held + created])
  BY DEF Enter
<1> DEFINE new == [op |-> op, pc |-> IF n > Len(Table[op].before) THEN "issue" ELSE "done", arg |-> arg,
                   ret |-> Result(Table[op].before, n, Table[op].entry),
                   held |-> held + IF \E i \in 1..(n - 1) : Creates(Table[op].before[i]) THEN 1 ELSE 0]
<1>2. Move(t, new) /\ new.op = op /\ new.arg = arg /\ (new.pc = "issue" => n > Len(Table[op].before))
      /\ new.pc # "wait"
  BY <1>1
<1> HIDE DEF new
<1>3. call'[t] = new
  BY <1>2 DEF Move, Inv, Types
<1>4. new.pc = "issue" => Ready(op, arg)
  BY <1>2, PassedReady
<1>5. Supplied(t)'
  BY <1>2, <1>3, <1>4 DEF Supplied, At, Suits
<1> QED
  BY <1>2, <1>5, MoveSupplied DEF Inv

LEMMA NextSupplied == Inv /\ AllSupplied /\ [Next]_vars => AllSupplied'
<1> SUFFICES ASSUME Inv, AllSupplied, [Next]_vars PROVE AllSupplied'
  OBVIOUS
<1>1. CASE UNCHANGED vars
  BY <1>1 DEF vars, AllSupplied, Supplied, At
<1>2. ASSUME NEW t \in Clients, Begin(t) PROVE AllSupplied'
  <2>1. PICK op \in asks[t] : \E arg \in ArgumentsOf(op) : Enter(t, op, arg, 0)
    BY <1>2 DEF Begin
  <2>2. PICK arg \in ArgumentsOf(op) : Enter(t, op, arg, 0)
    BY <2>1
  <2>3. op \in EccOps \cup RsaOps \cup {"read_trust_anchor"}
    BY <2>1, TasksAssumption DEF Inv, Types
  <2>4. Suits(op, arg)
    <3>1. CASE op \in {"ecdsa_verify", "ecdh_compute_shared"}
      <4>1. arg \in Curves \X {FALSE}
        BY <2>2, <3>1 DEF ArgumentsOf, EccOps, RsaOps, BootOps, ReadOps
      <4> QED
        BY <3>1, <4>1, ArgumentsAssumption DEF Suits, ReadOps
    <3>2. CASE op \in {"rsa_encrypt", "rsa_verify"}
      <4>1. arg \in Moduli
        BY <2>2, <3>2 DEF ArgumentsOf, EccOps, RsaOps, BootOps, ReadOps
      <4> QED
        BY <3>2, <4>1, ArgumentsAssumption DEF Suits, ReadOps
    <3>3. CASE op = "read_trust_anchor"
      BY <2>2, <3>3 DEF ArgumentsOf, EccOps, RsaOps, BootOps, ReadOps, Suits
    <3> QED
      BY <2>3, <3>1, <3>2, <3>3 DEF Suits, EccOps, RsaOps, ReadOps
  <2>5. op \in Ops /\ t \in Tasks
    BY <2>3 DEF Ops, ReadOps, Tasks
  <2> QED
    BY <2>2, <2>4, <2>5, EnterSupplied
<1>3. ASSUME optiga_client_task PROVE AllSupplied'
  <2>1. PICK object \in ArgumentsOf(boot) : Enter(Boot, boot, object, 0)
    BY <1>3 DEF optiga_client_task
  <2>2. boot \in {"trust_init", "read_certificate"}
    BY <1>3 DEF optiga_client_task, Inv, Types
  <2>3. Boot \in Tasks /\ boot \in Ops
    BY <2>2 DEF Tasks, Ops, BootOps
  <2>4. Suits(boot, object)
    BY <2>1, <2>2 DEF Suits, ArgumentsOf, EccOps, RsaOps, BootOps, ReadOps
  <2> QED
    BY <2>1, <2>3, <2>4, EnterSupplied
<1>4. ASSUME NEW t \in Tasks, write_set_high_performance(t) PROVE AllSupplied'
  <2>1. Enter(t, "write_data_object", call[t].arg, call[t].held)
    BY <1>4 DEF write_set_high_performance
  <2>2. "write_data_object" \in Ops /\ Suits("write_data_object", call[t].arg)
    BY DEF Ops, BootOps, Suits, ReadOps
  <2> QED
    BY <2>1, <2>2, EnterSupplied
<1>5. ASSUME NEW t \in Tasks, Issue(t) \/ Fail(t) \/ Conclude(t) PROVE AllSupplied'
  <2>1. PICK new : /\ Move(t, new) /\ new.op = call[t].op /\ new.arg = call[t].arg
                   /\ new.pc \notin {"idle", "issue"} /\ (new.pc = "wait" => At(t, "issue"))
    <3>1. \A ret : /\ [call[t] EXCEPT !.pc = "done", !.ret = ret].op = call[t].op
                   /\ [call[t] EXCEPT !.pc = "done", !.ret = ret].arg = call[t].arg
                   /\ [call[t] EXCEPT !.pc = "done", !.ret = ret].pc = "done"
                   /\ [call[t] EXCEPT !.pc = "wait"].op = call[t].op
                   /\ [call[t] EXCEPT !.pc = "wait"].arg = call[t].arg
                   /\ [call[t] EXCEPT !.pc = "wait"].pc = "wait"
      <4>1. call[t] \in Calls
        BY DEF Inv, Types
      <4> QED
        BY <4>1 DEF Calls
    <3>2. CASE At(t, "issue") /\ Move(t, [call[t] EXCEPT !.pc = "wait"])
      BY <3>1, <3>2
    <3>3. CASE \E ret : Move(t, [call[t] EXCEPT !.pc = "done", !.ret = ret])
      BY <3>1, <3>3
    <3> QED
      BY <1>5, <3>2, <3>3 DEF Issue, Fail, Conclude
  <2>2. ~At(t, "idle")
    BY <1>5 DEF Issue, Fail, Conclude, Awake, At
  <2>3. call'[t] = new
    BY <2>1 DEF Move, Inv, Types
  <2>4. Supplied(t)'
    BY <2>1, <2>2, <2>3, SameCall DEF AllSupplied, At
  <2> QED
    BY <2>1, <2>4, MoveSupplied DEF Inv
<1>6. ASSUME NEW t \in Tasks, Return(t) PROVE AllSupplied'
  <2>1. Move(t, Idle)
    BY <1>6 DEF Return
  <2>2. call'[t] = Idle
    BY <2>1 DEF Move, Inv, Types
  <2>3. Supplied(t)'
    BY <2>2 DEF Supplied, At, Idle
  <2> QED
    BY <2>1, <2>3, MoveSupplied DEF Inv
<1>7. ASSUME StrayCompleted \/ \E t \in Tasks : optiga_crypt_event_completed(t) PROVE AllSupplied'
  BY <1>7 DEF StrayCompleted, optiga_crypt_event_completed, AllSupplied, Supplied, At
<1> QED
  BY <1>1, <1>2, <1>3, <1>4, <1>5, <1>6, <1>7 DEF Next, Run

LEMMA InitSupplied == Init => AllSupplied
BY DEF Init, AllSupplied, Supplied, At, Idle

\* Every public key that a command is issued with is a well-formed DER bit string, for any
\* curves and moduli that applications bring: what the functions do not support stops
\* before the command.
THEOREM KeyHeadersCorrect == Spec => []KeyHeadersAreDer
<1>1. AllSupplied => KeyHeadersAreDer
  <2> SUFFICES ASSUME AllSupplied, NEW t \in Tasks, At(t, "issue")
               PROVE  LET arg   == call[t].arg
                          curve == arg[1]
                      IN  /\ call[t].op = "ecdsa_verify" =>
                               IsPrefix(VerifyHeader(curve), DerPoint(curve))
                               /\ Len(VerifyHeader(curve)) + PointLength(curve) = Len(DerPoint(curve))
                          /\ call[t].op = "ecdh_compute_shared" =>
                               IsPrefix(SharedHeader(curve), DerPoint(curve))
                               /\ Len(SharedHeader(curve)) + PointLength(curve) = Len(DerPoint(curve))
                          /\ call[t].op \in {"rsa_encrypt", "rsa_verify"} =>
                               BitString(arg[1], arg[2]) = DerRsaKey(arg[1], arg[2])
    BY DEF KeyHeadersAreDer
  <2>1. Ready(call[t].op, call[t].arg)
    BY DEF AllSupplied, Supplied
  <2> QED
    BY <2>1, PointHeaders, ModulusHeader DEF Ready, Length
<1> QED
  BY <1>1, InitInv, NextInv, InitSupplied, NextSupplied, PTL DEF Spec

-----------------------------------------------------------------------------
(* The lines of a PEM text *)

\* The lines from one place of the text to its end, as LinesFrom() takes them.
Lines(total, h) ==
  h = [read \in 0..total |->
         IF read >= total THEN 0
         ELSE LET size == IF read + 64 >= total THEN total - read ELSE 64
              IN  size + 1 + h[read + size]]

LEMMA LinesExist ==
  ASSUME NEW total \in Nat
  PROVE  Lines(total, [read \in 0..total |-> (total - read) + (total - read + 63) \div 64])
<1> DEFINE w    == [read \in 0..total |-> (total - read) + (total - read + 63) \div 64]
           size(read) == IF read + 64 >= total THEN total - read ELSE 64
<1>1. ASSUME NEW read \in 0..total
      PROVE  w[read] = IF read >= total THEN 0 ELSE size(read) + 1 + w[read + size(read)]
  <2>1. CASE read = total
    <3>1. total - read = 0 /\ (0 + 63) \div 64 = 0
      BY <2>1
    <3> QED
      BY <2>1, <3>1
  <2>2. CASE read < total /\ read + 64 >= total
    <3>1. size(read) = total - read /\ read + size(read) = total
      BY <2>2
    <3>2. w[total] = 0
      OBVIOUS
    <3>3. (total - read + 63) \div 64 = 1
      BY <2>2
    <3> QED
      BY <2>2, <3>1, <3>2, <3>3
  <2>3. CASE read + 64 < total
    <3>1. size(read) = 64 /\ read + 64 \in 0..total
      BY <2>3
    <3>2. w[read + 64] = (total - (read + 64)) + (total - (read + 64) + 63) \div 64
      BY <3>1
    <3>3. (total - read + 63) \div 64 = 1 + (total - (read + 64) + 63) \div 64
      BY <2>3
    <3>4. w[read] = (total - read) + (total - read + 63) \div 64
      OBVIOUS
    <3> HIDE DEF w
    <3> QED
      BY <2>3, <3>1, <3>2, <3>3, <3>4
  <2> QED
    BY <2>1, <2>2, <2>3
<1>2. \A read \in 0..total : w[read] = IF read >= total THEN 0 ELSE size(read) + 1 + w[read + size(read)]
  BY <1>1
<1> HIDE DEF w
<1>3. w = [read \in 0..total |-> IF read >= total THEN 0 ELSE size(read) + 1 + w[read + size(read)]]
  <2>1. w = [read \in 0..total |-> w[read]]
    BY DEF w
  <2> QED
    BY <1>2, <2>1
<1> QED
  BY <1>3 DEF Lines, w

LEMMA LinesUnique ==
  ASSUME NEW total \in Nat, NEW h, Lines(total, h)
  PROVE  \A read \in 0..total : h[read] = (total - read) + (total - read + 63) \div 64
<1> DEFINE w(read) == (total - read) + (total - read + 63) \div 64
           Good == {n \in Nat : n <= total => h[total - n] = w(total - n)}
<1>1. \A read \in 0..total :
        h[read] = IF read >= total THEN 0
                  ELSE LET size == IF read + 64 >= total THEN total - read ELSE 64
                       IN  size + 1 + h[read + size]
  BY DEF Lines
<1>2. ASSUME NEW n \in Nat, \A m \in Nat : m < n => m \in Good
      PROVE  n \in Good
  <2> SUFFICES ASSUME n <= total PROVE h[total - n] = w(total - n)
    OBVIOUS
  <2>1. PICK read \in 0..total : read = total - n
    OBVIOUS
  <2>2. CASE n = 0
    BY <1>1, <2>1, <2>2
  <2>3. CASE n > 0 /\ n <= 64
    <3>1. h[read] = n + 1 + h[total]
      BY <1>1, <2>1, <2>3
    <3>2. h[total] = 0
      BY <1>1
    <3>3. w(total - n) = n + 1
      BY <2>3
    <3> QED
      BY <2>1, <3>1, <3>2, <3>3
  <2>4. CASE n > 64
    <3>1. h[read] = 64 + 1 + h[read + 64]
      BY <1>1, <2>1, <2>4
    <3>2. n - 64 \in Nat /\ n - 64 < n /\ n - 64 <= total /\ total - (n - 64) = read + 64
      BY <2>1, <2>4
    <3>3. h[read + 64] = w(read + 64)
      <4>1. n - 64 \in Good
        BY <1>2, <3>2
      <4> QED
        BY <3>2, <4>1
    <3>4. w(read) = 64 + 1 + w(read + 64)
      BY <2>1, <2>4
    <3> QED
      BY <2>1, <3>1, <3>3, <3>4
  <2> QED
    BY <2>2, <2>3, <2>4
<1>3. \A n \in Nat : n \in Good
  <2> HIDE DEF Good
  <2> QED
    BY <1>2, StrongInduction
<1> QED
  <2> SUFFICES ASSUME NEW read \in 0..total PROVE h[read] = w(read)
    OBVIOUS
  <2>1. total - read \in Nat /\ total - read <= total /\ total - (total - read) = read
    OBVIOUS
  <2>2. total - read \in Good
    BY <1>3, <2>1
  <2> QED
    BY <2>1, <2>2

\* A newline after each 64 characters and after the rest.
LEMMA LinesLength ==
  ASSUME NEW total \in Nat
  PROVE  LinesFrom(total) = total + (total + 63) \div 64
<1> DEFINE taken == CHOOSE h : Lines(total, h)
<1>1. Lines(total, taken)
  BY LinesExist
<1>2. LinesFrom(total) = taken[0]
  BY DEF LinesFrom, Lines
<1> HIDE DEF taken
<1>3. taken[0] = (total - 0) + (total - 0 + 63) \div 64
  BY <1>1, LinesUnique
<1> QED
  BY <1>2, <1>3

\* The text of n bytes: whole when base64 has room for them, and when it fits 1200 bytes.
LEMMA TextOfCertificate ==
  ASSUME NEW n \in Nat
  PROVE  LET base64 == mbedtls_base64_encode(n)
             length == 28 + LinesFrom(base64.olen) + 27
             size   == Base64Length(n)
         IN  /\ base64.done <=> size < Base64Room
             /\ base64.done => length = 55 + size + (size + 63) \div 64
             /\ length > BootRoom <=> n > 843
<1>1. PICK m \in Nat : m = Base64Length(n) /\ m = 4 * ((n + 2) \div 3)
  BY DEF Base64Length
<1>2. n > 843 => m >= 1128
  BY <1>1
<1>3. n <= 843 => m <= 1124
  BY <1>1
<1>4. CASE m < 1200
  <2>1. mbedtls_base64_encode(n).done /\ mbedtls_base64_encode(n).olen = m
    BY <1>1, <1>4 DEF mbedtls_base64_encode, Base64Room
  <2>2. LinesFrom(m) = m + (m + 63) \div 64 /\ (m + 63) \div 64 \in Nat
    BY LinesLength
  <2>3. 28 + LinesFrom(m) + 27 = 55 + m + (m + 63) \div 64
    BY <2>2
  <2>4. CASE n > 843
    <3>1. (m + 63) \div 64 >= 18
      BY <1>2, <2>4
    <3> QED
      BY <1>1, <1>2, <1>4, <2>1, <2>3, <2>4, <3>1 DEF Base64Room, BootRoom
  <2>5. CASE n <= 843
    <3>1. (m + 63) \div 64 <= 18
      BY <1>3, <2>5
    <3> QED
      BY <1>1, <1>3, <1>4, <2>1, <2>3, <2>5, <3>1 DEF Base64Room, BootRoom
  <2> QED
    BY <2>4, <2>5
<1>5. CASE m >= 1200
  <2>1. ~mbedtls_base64_encode(n).done /\ mbedtls_base64_encode(n).olen = m + 1
    BY <1>1, <1>5 DEF mbedtls_base64_encode, Base64Room
  <2>2. LinesFrom(m + 1) = m + 1 + (m + 1 + 63) \div 64 /\ (m + 1 + 63) \div 64 \in Nat
    BY LinesLength
  <2> QED
    BY <1>1, <1>3, <1>5, <2>1, <2>2 DEF Base64Room, BootRoom
<1> QED
  BY <1>1, <1>4, <1>5

\* What the readers leave with the caller is the whole certificate, in lines, exactly when
\* its base64 form has room in theirs, for objects of any length, tagged or not; and the
\* text of a certificate runs over the boot task's 1200 bytes exactly from 844 bytes on.
THEOREM PemCorrect == Spec => []PemComplete
<1>1. AllSupplied => PemComplete
  <2> SUFFICES ASSUME AllSupplied, NEW t \in Tasks, At(t, "done"), call[t].op \in ReadOps
               PROVE  LET text == PemText(call[t].op, call[t].arg)
                          size == Base64Length(call[t].arg[1])
                      IN  /\ text.whole <=> size < Base64Room
                          /\ text.whole => text.length = 55 + size + (size + 63) \div 64
                          /\ text.length > BootRoom <=> call[t].arg[1] > 843
    BY DEF PemComplete
  <2> DEFINE op     == call[t].op
             object == call[t].arg
  <2>1. object \in Certificates /\ (op = "read_trust_anchor" => ~object[2])
    BY DEF AllSupplied, Supplied, At
  <2>2. object[1] \in Nat /\ object[2] \in BOOLEAN
    BY <2>1, ArgumentsAssumption
  <2>3. ObjectLength(object) - SkippedTag(op, object) = object[1]
    BY <2>1, <2>2 DEF ObjectLength, SkippedTag, ReadOps
  <2>4. PemText(op, object) = [whole |-> mbedtls_base64_encode(object[1]).done,
                               length |-> 28 + LinesFrom(mbedtls_base64_encode(object[1]).olen) + 27]
    BY <2>3 DEF PemText
  <2> HIDE DEF op, object
  <2>5. PemText(op, object).whole = mbedtls_base64_encode(object[1]).done
        /\ PemText(op, object).length = 28 + LinesFrom(mbedtls_base64_encode(object[1]).olen) + 27
    BY <2>4
  <2>6. LET text == PemText(op, object)
            size == Base64Length(object[1])
        IN  /\ text.whole <=> size < Base64Room
            /\ text.whole => text.length = 55 + size + (size + 63) \div 64
            /\ text.length > BootRoom <=> object[1] > 843
    BY <2>2, <2>5, TextOfCertificate
  <2> QED
    BY <2>6 DEF op, object
<1> QED
  BY <1>1, InitInv, NextInv, InitSupplied, NextSupplied, PTL DEF Spec

-----------------------------------------------------------------------------
(* Generated keys *)

\* What a key generation reports: a success only for its own key read at its place, and
\* undisturbed it is done with the chip.
Reported(t) ==
  At(t, "done") /\ call[t].op = "ecdsa_genkey" =>
    LET right == command[t] = "ok" /\ PublicKeyOffset(call[t].arg[1]) = 3
    IN  /\ call[t].ret = "ok" => right
        /\ t \notin overlapped => command[t] # "running" /\ (right => call[t].ret = "ok")

\* The point is read exactly if the chip has answered and the point stands where it is
\* looked for: no key has 150 - 3 bytes.
LEMMA PointAtThree ==
  ASSUME NEW curve, Supported(curve), NEW generated \in BOOLEAN
  PROVE  PointReads("ecdsa_genkey", curve, 3, generated) = {generated /\ PublicKeyOffset(curve) = 3}
<1>1. PointLength(curve) \in {65, 97, 133, 129}
  BY DEF Supported, PointLength, CurveBytes
<1>2. PublicKeyOffset(curve) \in {3, 4} /\ PublicKeyRoom("ecdsa_genkey") = 150
  BY DEF PublicKeyOffset, PublicKeyRoom
<1>3. CASE generated
  <2> DEFINE length == PublicKeyOffset(curve) + PointLength(curve)
  <2>1. (length - 3 # PointLength(curve)) <=> (PublicKeyOffset(curve) # 3)
    BY <1>1, <1>2
  <2>2. PointReads("ecdsa_genkey", curve, 3, generated) = IF length - 3 # PointLength(curve) THEN {FALSE} ELSE {TRUE}
    BY <1>3 DEF PointReads
  <2> QED
    BY <1>3, <2>1, <2>2
<1>4. CASE ~generated
  <2>1. 150 - 3 # PointLength(curve)
    BY <1>1
  <2>2. PointReads("ecdsa_genkey", curve, 3, generated) = {FALSE}
    BY <1>2, <1>4, <2>1 DEF PointReads
  <2> QED
    BY <1>4, <2>2
<1> QED
  BY <1>3, <1>4

\* What the check after the wait finds, and what is returned for it.
LEMMA ConcludeReported ==
  ASSUME Inv, AllSupplied, NEW t \in Tasks, Conclude(t), call[t].op = "ecdsa_genkey" PROVE Reported(t)'
<1> DEFINE checks == Table["ecdsa_genkey"].after
           curve  == call[t].arg[1]
           right  == command[t] = "ok" /\ PublicKeyOffset(curve) = 3
<1>1. PICK n \in Stops(t, call[t].arg, checks) :
        Move(t, [call[t] EXCEPT !.pc = "done", !.ret = Result(checks, n, "ok")])
  BY DEF Conclude
<1>2. checks = <<<<"read_point_at_3", "CRYPT_ERROR">>>>
  BY DEF Table, Ops, EccOps, mbedtls_ecdsa_genkey, Operation
<1>3. Outcomes(t, call[t].arg, "read_point_at_3") = {right}
  <2>1. Supported(curve)
    BY DEF AllSupplied, Supplied, Ready, Conclude, Awake
  <2>2. Outcomes(t, call[t].arg, "read_point_at_3") = PointReads("ecdsa_genkey", curve, 3, command[t] = "ok")
    BY DEF Outcomes
  <2> QED
    BY <2>1, <2>2, PointAtThree
<1>4. n \in {1, 2} /\ Len(checks) = 1 /\ checks[1] = <<"read_point_at_3", "CRYPT_ERROR">>
      /\ (n = 2 => TRUE \in {right}) /\ (n = 1 => FALSE \in {right})
  <2>1. Len(checks) = 1 /\ checks[1] = <<"read_point_at_3", "CRYPT_ERROR">> /\ checks[1][1] = "read_point_at_3"
    BY <1>2
  <2> HIDE DEF checks, right
  <2>2. /\ n \in 1..(Len(checks) + 1)
        /\ \A i \in 1..(n - 1) : TRUE \in Outcomes(t, call[t].arg, checks[i][1])
        /\ n <= Len(checks) => FALSE \in Outcomes(t, call[t].arg, checks[n][1])
    BY <1>1 DEF Stops
  <2>3. n \in {1, 2} /\ (n = 2 => 1 \in 1..(n - 1)) /\ (n = 1 => n <= Len(checks))
    BY <2>1, <2>2
  <2>4. n = 2 => TRUE \in Outcomes(t, call[t].arg, checks[1][1])
    BY <2>2, <2>3
  <2>5. n = 1 => FALSE \in Outcomes(t, call[t].arg, checks[1][1])
    BY <2>2, <2>3
  <2>6. Outcomes(t, call[t].arg, checks[1][1]) = {right}
    BY <1>3, <2>1
  <2> QED
    BY <2>1, <2>3, <2>4, <2>5, <2>6
<1>5. (n = 2) <=> right
  <2> right \in BOOLEAN
    OBVIOUS
  <2> HIDE DEF right
  <2> QED
    BY <1>4
<1>6. Result(checks, n, "ok") = IF right THEN "ok" ELSE "CRYPT_ERROR"
  <2>1. ~AssignsResult(checks[1])
    BY <1>4 DEF AssignsResult
  <2>2. \A i \in 1..Len(checks) : ~AssignsResult(checks[i])
    BY <1>4, <2>1
  <2> HIDE DEF checks
  <2>3. CASE right
    BY <1>4, <1>5, <2>2, <2>3 DEF Result
  <2>4. CASE ~right
    BY <1>4, <1>5, <2>4 DEF Result
  <2> QED
    BY <2>3, <2>4
<1>7. /\ call'[t] = [call[t] EXCEPT !.pc = "done", !.ret = Result(checks, n, "ok")]
      /\ call[t] \in Calls
  BY <1>1 DEF Move, Inv, Types
<1>8. call'[t].arg = call[t].arg /\ call'[t].ret = IF right THEN "ok" ELSE "CRYPT_ERROR"
  BY <1>6, <1>7 DEF Calls
<1>9. command'[t] = command[t] /\ overlapped' = overlapped
  BY DEF Conclude
<1>10. t \notin overlapped => command[t] # "running"
  BY DEF Conclude, Awake, Inv, Answered, OwnStatus
<1> QED
  BY <1>8, <1>9, <1>10 DEF Reported

LEMMA NextReported ==
  ASSUME Inv, AllSupplied, \A t \in Tasks : Reported(t), [Next]_vars
  PROVE  \A t \in Tasks : Reported(t)'
<1> SUFFICES ASSUME NEW t \in Tasks PROVE Reported(t)'
  OBVIOUS
\* A step that leaves the call and its command as they are, and no disturbance undone.
<1>1. CASE call'[t] = call[t] /\ command'[t] = command[t] /\ (t \notin overlapped' => t \notin overlapped)
  BY <1>1 DEF Reported, At
<1>2. ASSUME NEW op \in Ops, NEW arg, NEW held, Enter(t, op, arg, held) PROVE Reported(t)'
  <2>1. PICK n \in Stops(t, arg, Table[op].before) :
          Move(t, [op |-> op, pc |-> IF n > Len(Table[op].before) THEN "issue" ELSE "done", arg |-> arg,
                   ret |-> Result(Table[op].before, n, Table[op].entry),
                   held |-> held + IF \E i \in 1..(n - 1) : Creates(Table[op].before[i]) THEN 1 ELSE 0])
    BY <1>2 DEF Enter
  <2> DEFINE result == Result(Table[op].before, n, Table[op].entry)
  <2>2. Len(Table[op].before) \in Nat /\ n \in 1..(Len(Table[op].before) + 1)
    BY TableFacts DEF CheckList, Stops
  <2>3. n <= Len(Table[op].before) => result # "ok"
    BY <2>2, ResultFacts
  <2>4. call'[t].pc = (IF n > Len(Table[op].before) THEN "issue" ELSE "done") /\ call'[t].ret = result
    BY <2>1 DEF Move, Inv, Types
  <2>5. command'[t] = "none"
    BY <1>2 DEF Enter, Inv, Types
  <2> HIDE DEF result
  <2>6. At(t, "done")' => call'[t].ret # "ok"
    BY <2>2, <2>3, <2>4 DEF At
  <2> QED
    BY <2>5, <2>6 DEF Reported
<1>3. CASE Issue(t)
  <2>1. call[t].op \in Ops /\ call[t] \in Calls
    BY <1>3 DEF Issue, Inv, Types, At
  <2>2. CASE command' = [command EXCEPT ![t] = "running"] /\ Move(t, [call[t] EXCEPT !.pc = "wait"])
    BY <2>1, <2>2 DEF Reported, At, Move, Inv, Types, Calls
  <2>3. CASE LET refused == Table[call[t].op].refused
             IN  /\ command' = [command EXCEPT ![t] = "refused"]
                 /\ Move(t, [call[t] EXCEPT !.pc = "done", !.ret = IF refused = "keep" THEN @ ELSE refused])
    <3>1. command'[t] = "refused"
      BY <2>3 DEF Inv, Types
    <3>2. CASE call[t].op = "ecdsa_genkey"
      <4>1. Table["ecdsa_genkey"].refused = "ECP_BAD_INPUT_DATA"
        BY DEF Table, Ops, EccOps, mbedtls_ecdsa_genkey, Operation
      <4>2. call'[t].ret = "ECP_BAD_INPUT_DATA"
        BY <2>1, <2>3, <3>2, <4>1 DEF Move, Inv, Types, Calls
      <4> QED
        BY <3>1, <4>2 DEF Reported
    <3>3. CASE call[t].op # "ecdsa_genkey"
      <4>1. call'[t].op = call[t].op
        BY <2>1, <2>3 DEF Move, Inv, Types, Calls
      <4> QED
        BY <3>3, <4>1 DEF Reported
    <3> QED
      BY <3>2, <3>3
  <2> QED
    BY <1>3, <2>2, <2>3 DEF Issue
<1>4. CASE Fail(t) \/ (Conclude(t) /\ call[t].op # "ecdsa_genkey")
  <2>1. call[t].op # "ecdsa_genkey"
    <3>1. Table["ecdsa_genkey"].failed = "unchecked"
      BY DEF Table, Ops, EccOps, mbedtls_ecdsa_genkey, Operation
    <3> QED
      BY <1>4, <3>1 DEF Fail, GoesOn
  <2>2. call[t] \in Calls
    BY DEF Inv, Types
  <2>3. \A ret : [call[t] EXCEPT !.pc = "done", !.ret = ret].op = call[t].op
    BY <2>2 DEF Calls
  <2>4. PICK ret : Move(t, [call[t] EXCEPT !.pc = "done", !.ret = ret])
    BY <1>4 DEF Fail, Conclude
  <2>5. call'[t].op = call[t].op
    BY <2>3, <2>4 DEF Move, Inv, Types
  <2> QED
    BY <2>1, <2>5 DEF Reported
<1>5. CASE Return(t)
  <2>1. call'[t] = Idle
    BY <1>5 DEF Return, Move, Inv, Types
  <2> QED
    BY <2>1 DEF Reported, At, Idle
<1>6. CASE optiga_crypt_event_completed(t)
  <2>1. command[t] = "running" /\ call' = call /\ command'[t] \in {"ok", "error"}
        /\ (t \notin overlapped' => t \notin overlapped)
    BY <1>6 DEF optiga_crypt_event_completed, Inv, Types
  <2>2. At(t, "done") /\ call[t].op = "ecdsa_genkey" => t \in overlapped /\ call[t].ret # "ok"
    BY <2>1 DEF Reported
  <2> QED
    BY <2>1, <2>2 DEF Reported, At
\* Every other step is one of another task, or of nobody.
<1>7. ASSUME NEW u \in Tasks, u # t, Run(u) \/ optiga_crypt_event_completed(u) \/ (u \in Clients /\ Begin(u))
      PROVE  Reported(t)'
  <2>1. call'[t] = call[t] /\ command'[t] = command[t]
    BY <1>7 DEF Run, Issue, Fail, Conclude, write_set_high_performance, Return, optiga_client_task,
         optiga_crypt_event_completed, Begin, Enter, Move, Inv, Types
  <2>2. t \notin overlapped' => t \notin overlapped
    BY <1>7 DEF Run, Issue, Fail, Conclude, write_set_high_performance, Return, optiga_client_task,
         optiga_crypt_event_completed, Begin, Enter
  <2> QED
    BY <1>1, <2>1, <2>2
<1>8. CASE t \in Clients /\ Begin(t)
  <2>1. PICK op \in asks[t] : \E arg \in ArgumentsOf(op) : Enter(t, op, arg, 0)
    BY <1>8 DEF Begin
  <2>2. op \in Ops
    BY <1>8, <2>1, TasksAssumption DEF Inv, Types, Ops, ReadOps
  <2> QED
    BY <1>2, <2>1, <2>2
<1>9. CASE t = Boot /\ optiga_client_task
  <2>1. boot \in Ops
    BY <1>9 DEF optiga_client_task, Inv, Types, Ops, BootOps
  <2> QED
    BY <1>2, <1>9, <2>1 DEF optiga_client_task
<1>10. CASE write_set_high_performance(t)
  BY <1>2, <1>10 DEF write_set_high_performance, Ops, BootOps
<1>11. CASE StrayCompleted \/ UNCHANGED vars
  <2>1. call'[t] = call[t] /\ command'[t] = command[t] /\ (t \notin overlapped' => t \notin overlapped)
    BY <1>11 DEF StrayCompleted, vars
  <2> QED
    BY <1>1, <2>1
<1> QED
  <2>1. CASE \E u \in Clients : Begin(u)
    BY <1>7, <1>8, <2>1 DEF Tasks
  <2>2. CASE \E u \in Tasks : Run(u) \/ optiga_crypt_event_completed(u)
    <3>1. PICK u \in Tasks : Run(u) \/ optiga_crypt_event_completed(u)
      BY <2>2
    <3>2. CASE u = t
      BY <1>3, <1>4, <1>5, <1>6, <1>9, <1>10, <3>1, <3>2, ConcludeReported DEF Run
    <3> QED
      BY <1>7, <3>1, <3>2
  <2> QED
    BY <1>11, <2>1, <2>2 DEF Next

LEMMA InitReported == Init => \A t \in Tasks : Reported(t)
BY DEF Init, Reported, At, Idle

-----------------------------------------------------------------------------
(* What successes are worth *)

\* A key generation that reports success has its own key from the chip, read at its place,
\* whatever other calls of the file do to the completion status that it does not look at;
\* left alone it waits for the chip and succeeds for the curves of the fixed place.  For
\* any clients, uses and curves.
THEOREM GeneratedKeyCorrect == Spec => []GeneratedKeyRead
<1>1. (\A t \in Tasks : Reported(t)) => GeneratedKeyRead
  BY DEF Reported, GeneratedKeyRead
<1>2. Inv /\ AllSupplied /\ (\A t \in Tasks : Reported(t)) /\ [Next]_vars => (\A t \in Tasks : Reported(t))'
  BY NextReported
<1> QED
  BY <1>1, <1>2, InitInv, NextInv, InitSupplied, NextSupplied, InitReported, PTL DEF Spec

\* A success that a call of the chip returns is the chip's answer to that very command,
\* on every path through trustm_ecdsa.c, trustm_ecdh.c, trustm_rsa.c and the helpers,
\* unless another call of the same file has written the shared completion status meanwhile.
THEOREM SuccessCorrect == Spec => []SuccessMeansExecuted
<1>1. Inv /\ (\A t \in Tasks : Reported(t)) => SuccessMeansExecuted
  BY DEF Inv, Answered, Genuine, Reported, SuccessMeansExecuted, Exempt
<1>2. Inv /\ AllSupplied /\ (\A t \in Tasks : Reported(t)) /\ [Next]_vars => (\A t \in Tasks : Reported(t))'
  BY NextReported
<1> QED
  BY <1>1, <1>2, InitInv, NextInv, InitSupplied, NextSupplied, InitReported, PTL DEF Spec
===============================================================================
