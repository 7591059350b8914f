----------------------------- MODULE TokenService -----------------------------
(***************************************************************************)
(* What the PKCS#11 layer promises to its clients, without its sessions,   *)
(* its completion status and the chip's answers.  A token is opened empty  *)
(* and closed with nobody at it; one client at a time has it to itself;    *)
(* whoever looks an object up gets the place it has in the directory, the  *)
(* same for all and for as long as the token is open; and nothing is       *)
(* looked up while somebody has the token.                                 *)
(***************************************************************************)
EXTENDS Naturals

CONSTANTS Clients, Labels, Places, Nobody

VARIABLES
  open,       \* whether the token can be used
  holder,     \* the client that has it to itself, or Nobody
  directory,  \* the places of the objects found since it was opened
  handle      \* the places each client has been told of, or 0

vars == <<open, holder, directory, handle>>

Init ==
  /\ ~open /\ holder = Nobody /\ directory = {}
  /\ handle = [c \in Clients |-> [l \in Labels |-> 0]]

\* A client begins to open the token, or fails at once.
Begin(c) ==
  /\ ~open /\ holder = Nobody
  /\ holder' \in {c, Nobody} /\ directory' = {}
  /\ UNCHANGED <<open, handle>>

Opened ==
  /\ ~open /\ holder # Nobody
  /\ open' = TRUE /\ holder' = Nobody
  /\ UNCHANGED <<directory, handle>>

Close ==
  /\ open /\ holder = Nobody
  /\ open' = FALSE
  /\ handle' = [c \in Clients |-> [l \in Labels |-> 0]]
  /\ UNCHANGED <<holder, directory>>

Take(c) ==
  /\ open /\ holder = Nobody
  /\ holder' = c
  /\ UNCHANGED <<open, directory, handle>>

\* At the end of an operation, or when the token could not be opened.
GiveBack ==
  /\ holder # Nobody /\ holder' = Nobody
  /\ UNCHANGED <<open, directory, handle>>

Listed(l, p) == <<l, p>> \in directory
New(l, p) ==
  /\ \A q \in Places : ~Listed(l, q)
  /\ \A m \in Labels : ~Listed(m, p)

LookUp(c, l, p) ==
  /\ open /\ holder = Nobody
  /\ Listed(l, p) \/ New(l, p)
  /\ directory' = directory \cup {<<l, p>>}
  /\ handle' = [handle EXCEPT ![c][l] = p]
  /\ UNCHANGED <<open, holder>>

Next ==
  \/ \E c \in Clients : Begin(c) \/ Take(c)
  \/ Opened \/ Close \/ GiveBack
  \/ \E c \in Clients, l \in Labels, p \in Places : LookUp(c, l, p)

Spec == Init /\ [][Next]_vars
=============================================================================
