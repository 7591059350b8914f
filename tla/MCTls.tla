-------------------------------- MODULE MCTls --------------------------------
(* Every source of the root certificate and of the client's certificate. *)
EXTENDS Tls

SomeParams == [ca : {"storage", "ram", "global"}, device : {"storage", "identity", "none"}]
=============================================================================
