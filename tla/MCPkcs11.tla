------------------------------- MODULE MCPkcs11 -------------------------------
(* Who asks what of the PKCS#11 layer in the model-checking runs of Pkcs11. *)
EXTENDS Pkcs11

TwoCallers == {"tls", "peer"}

\* Who waits for what: a TLS connection finds its key, asks for its type and signs; its
\* peer draws random numbers.
SignAndRandom == [c \in TwoCallers |->
  IF c = "tls" THEN {"find", "keytype", "sign", "private_key", "certificate",
                        "CKM_ECDSA"}
  ELSE {"random"}]

\* Both look objects up; they have a certificate in common.
FindAndRead == [c \in TwoCallers |->
  IF c = "tls" THEN {"find", "keytype", "value", "private_key", "certificate"}
  ELSE {"find", "certificate"}]

\* A TLS connection alone.
OneCaller == {"tls"}
TlsAlone  == [c \in OneCaller |-> Operations \cup Labels \cup Mechanisms]
=============================================================================
