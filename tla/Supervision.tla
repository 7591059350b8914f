----------------------------- MODULE Supervision -----------------------------
(***************************************************************************)
(* What the MQTT client task promises about the connection, without its    *)
(* queues, callbacks, flags and retries.  A live session is only ever lost *)
(* to the network; each loss is followed by exactly one recovery, which    *)
(* ends in a new session or in termination; and once the publisher and the *)
(* subscriber are running, giving up a recovery is the only way to end.    *)
(***************************************************************************)

VARIABLES
  conn,       \* where the connection is
  running     \* both worker tasks have been created

vars == <<conn, running>>

Conn == {"starting", "online", "lost", "recovering", "terminated"}

Init == conn = "starting" /\ running = FALSE

GoOnline == conn \in {"starting", "recovering"} /\ conn' = "online" /\ UNCHANGED running

LoseSession == conn = "online" /\ conn' = "lost" /\ UNCHANGED running

\* The first session may already be lost when the tasks are complete.
StartTasks ==
  /\ conn \in {"online", "lost"} /\ ~running
  /\ running' = TRUE
  /\ UNCHANGED conn

BeginRecovery == conn = "lost" /\ running /\ conn' = "recovering" /\ UNCHANGED running

\* Start-up or recovery has failed for good.
GiveUp == conn \in {"starting", "recovering"} /\ conn' = "terminated" /\ UNCHANGED running

\* A worker task could not be created.
Abort ==
  /\ conn \in {"online", "lost"} /\ ~running
  /\ conn' = "terminated"
  /\ UNCHANGED running

Next == GoOnline \/ LoseSession \/ StartTasks \/ BeginRecovery \/ GiveUp \/ Abort

Spec == Init /\ [][Next]_vars
=============================================================================
