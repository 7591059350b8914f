----------------------------- MODULE BusService -----------------------------
(***************************************************************************)
(* What the I2C layer of the PAL promises to the contexts that share the   *)
(* bus, without its semaphore, global context, interrupt and task.  One    *)
(* context has the bus at a time; a transfer it starts is answered once,   *)
(* to that context, before anyone else gets the bus.                       *)
(***************************************************************************)

CONSTANTS Contexts, None

VARIABLES
  holder,    \* the context that has the bus, or None
  stage,     \* what it has the bus for: "free", "call", "transfer" or "answered"
  waiting    \* contexts whose transfer is not answered

vars == <<holder, stage, waiting>>

Init == holder = None /\ stage = "free" /\ waiting = {}

Take(c) == stage = "free" /\ holder' = c /\ stage' = "call" /\ UNCHANGED waiting

Transfer ==
  /\ stage = "call" /\ holder \notin waiting
  /\ stage' = "transfer" /\ waiting' = waiting \cup {holder}
  /\ UNCHANGED holder

Reply ==
  /\ stage = "transfer" /\ holder \in waiting
  /\ stage' = "answered" /\ waiting' = waiting \ {holder}
  /\ UNCHANGED holder

\* After a call that started no transfer, or when the transfer is answered.
GiveBack ==
  /\ stage \in {"call", "answered"}
  /\ stage' = "free" /\ holder' = None
  /\ UNCHANGED waiting

Next == (\E c \in Contexts : Take(c)) \/ Transfer \/ Reply \/ GiveBack

Spec == Init /\ [][Next]_vars
=============================================================================
