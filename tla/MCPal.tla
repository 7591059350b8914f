-------------------------------- MODULE MCPal ---------------------------------
(* The data of the data store in the model-checking run of Pal. *)
EXTENDS Pal

\* Data that fill the shared secret, that have one byte too many, and whose length takes
\* two bytes.  No two agree in any place.
SomeContents == {[i \in 1..n |-> (i + n) % 256] : n \in {64, 65, 258}}
\* The three buffers next to each other, in any order.
InOrder(first, second, third) ==
  [s \in Known |-> CASE s = first  -> 0
                     [] s = second -> RoomOf(first) + 2
                     [] s = third  -> RoomOf(first) + RoomOf(second) + 4]
SomeLayouts == {InOrder(o[1], o[2], o[3]) : o \in {p \in Known \X Known \X Known :
                                                   p[1] # p[2] /\ p[1] # p[3] /\ p[2] # p[3]}}
===============================================================================
