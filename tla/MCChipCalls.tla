----------------------------- MODULE MCChipCalls -----------------------------
(* Who calls which operation of the chip in the model-checking run of ChipCalls. *)
EXTENDS ChipCalls

\* One task that uses everything, or two tasks that use one file.
TwoClients == {"tls", "peer"}
SomeUses ==
  {[c \in TwoClients |-> IF c = "tls" THEN EccOps \cup RsaOps \cup {"read_trust_anchor"} ELSE {}],
   [c \in TwoClients |-> IF c = "tls" THEN {"ecdsa_sign", "ecdsa_verify"} ELSE {"ecdsa_genkey"}]}

\* Curves of both header lengths, and unsupported ones; keys of both lengths, and others.
SomeCurves == {3, 4, 5, 8, 9}
SomeModuli == {<<64, TRUE>>, <<128, FALSE>>, <<128, TRUE>>, <<256, TRUE>>}
\* Short and tagged ones; the last length whose PEM text fits the boot task's buffer and
\* the first that does not; the last whose base64 form fits the readers' and the first that
\* does not; the longest that can be read, with a tag and as a trust anchor.
SomeCertificates == {<<48, FALSE>>, <<49, TRUE>>, <<843, TRUE>>, <<844, FALSE>>, <<897, TRUE>>,
                     <<898, FALSE>>, <<1015, TRUE>>, <<1300, FALSE>>}
=============================================================================
