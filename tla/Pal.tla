--------------------------------- MODULE Pal ----------------------------------
(***************************************************************************)
(* The OPTIGA PAL: bus and events (PalI2c, PalEvent), and here the lock    *)
(* (pal_os_lock.c) and the data store (pal_os_datastore.c).  The four      *)
(* share no state; a behaviour exercises one of them.                      *)
(***************************************************************************)
EXTENDS PalI2c, PalEvent, Sequences

CONSTANTS
  Tasks,           \* tasks that use the lock
  Stores,          \* identifiers of the data store, known or not
  Contents,        \* data written
  SecretMax,       \* OPTIGA_SHARED_SECRET_MAX_LENGTH
  APP_CONTEXT_SIZE,
  Layouts          \* where the linker may place the three buffers

Known       == {"shared_secret", "manage_context", "hibernate_context"}
Unchecked   == {"manage_context", "hibernate_context"} \* their writes check no length
LENGTH_SIZE == 2
MANAGE_CONTEXT_BUFFER_SIZE == 66
\* Bytes of data that each buffer has room for.
RoomOf(s) == CASE s = "shared_secret"     -> SecretMax
               [] s = "manage_context"    -> MANAGE_CONTEXT_BUFFER_SIZE
               [] s = "hibernate_context" -> APP_CONTEXT_SIZE
Bytes     == 0..255
\* The addresses that n bytes of data and their length take from the start of a buffer.
Addresses(start, n) == start..(start + LENGTH_SIZE + n - 1)

ASSUME SizesAssumption    == SecretMax \in Nat /\ SecretMax >= 64 /\ APP_CONTEXT_SIZE \in Nat
ASSUME ContentsAssumption == Contents \subseteq Seq(Bytes) /\ \A data \in Contents : Len(data) < 256 * 256
ASSUME LayoutsAssumption  ==
  \A layout \in Layouts :
    /\ layout \in [Known -> Nat]
    /\ \A s, t \in Known : s # t =>
         Addresses(layout[s], RoomOf(s)) \cap Addresses(layout[t], RoomOf(t)) = {}

VARIABLES
  part,            \* "bus", "event", "lock" or "store"
  first_call_flag,
  xLockSemaphoreHandle, \* "absent", "free" or "taken"
  lock_pc,         \* where each task is
  base,            \* where the buffers are
  memory,          \* the bytes of the buffers
  written,         \* history: the data of the last accepted write to each store
  reached          \* history: stores that an unchecked write to another one has run into since

lockVars  == <<first_call_flag, xLockSemaphoreHandle, lock_pc>>
storeVars == <<base, memory, written, reached>>
vars      == <<part, i2cVars, eventVars, lockVars, storeVars>>

Absent == "absent"
AnyLayout == CHOOSE layout \in Layouts : TRUE \* the other parts do not see the buffers
DefaultSecret == [i \in 1..64 |-> i]
Cells == UNION {Addresses(base[s], RoomOf(s)) : s \in Known}

Init ==
  /\ part \in {"bus", "event", "lock", "store"}
  /\ I2cInit /\ EventInit
  /\ first_call_flag = 1
  /\ xLockSemaphoreHandle = Absent
  /\ lock_pc = [t \in Tasks |-> "idle"]
  /\ base \in Layouts /\ (part # "store" => base = AnyLayout)
  /\ memory = [a \in Cells |->
       LET place == a - base["shared_secret"]
       IN  IF place = 1 THEN 64 ELSE IF place \in 2..65 THEN DefaultSecret[place - 1] ELSE 0]
  /\ written = [s \in Known |-> IF s = "shared_secret" THEN DefaultSecret ELSE <<>>]
  /\ reached = {}
-----------------------------------------------------------------------------
\* pal_os_lock_acquire(): in a critical section the first call makes the semaphore, one for
\* all locks; then it is waited for.
MakeAlways(t) == \* mutant: the flag of the first call is not reset
  /\ lock_pc[t] = "idle"
  /\ xLockSemaphoreHandle' = "free"
  /\ lock_pc' = [lock_pc EXCEPT ![t] = "take"]
  /\ UNCHANGED first_call_flag
_lock_init(t) ==
  /\ lock_pc[t] = "idle"
  /\ IF first_call_flag = 1 THEN xLockSemaphoreHandle' = "free" /\ first_call_flag' = 0
     ELSE UNCHANGED <<xLockSemaphoreHandle, first_call_flag>>
  /\ lock_pc' = [lock_pc EXCEPT ![t] = "take"]
pal_os_lock_acquire(t) ==
  /\ lock_pc[t] = "take" /\ xLockSemaphoreHandle = "free"
  /\ xLockSemaphoreHandle' = "taken"
  /\ lock_pc' = [lock_pc EXCEPT ![t] = "holds"]
  /\ UNCHANGED first_call_flag
pal_os_lock_release(t) ==
  /\ lock_pc[t] = "holds"
  /\ xLockSemaphoreHandle' = "free"
  /\ lock_pc' = [lock_pc EXCEPT ![t] = "idle"]
  /\ UNCHANGED first_call_flag
LockNext == \E t \in Tasks : _lock_init(t) \/ pal_os_lock_acquire(t) \/ pal_os_lock_release(t)

\* pal_os_datastore_write() checks the length for the shared secret only; memcpy() puts any
\* other data where they come to lie.  What lies outside the three buffers is not followed.
AcceptsAny(s, length) == s \in Known \* mutant: the secret's length is not checked either
Accepts(s, length)    == s \in Known /\ (s = "shared_secret" => length <= SecretMax)
LengthBytes(length)   == <<(length \div 256) % 256, length % 256>>
pal_os_datastore_write ==
  /\ \E s \in Stores, data \in Contents :
       LET length == Len(data)
           taken  == Addresses(base[s], length)
       IN  /\ Accepts(s, length)
           /\ memory' = [a \in DOMAIN memory |->
                 LET place == a - base[s]
                 IN  IF a \notin taken THEN memory[a]
                     ELSE IF place < LENGTH_SIZE THEN LengthBytes(length)[place + 1]
                     ELSE data[place - LENGTH_SIZE + 1]]
           /\ written' = [written EXCEPT ![s] = data]
           /\ reached' = (reached \ {s}) \cup
                {t \in Known \ {s} : s \in Unchecked /\ taken \cap Addresses(base[t], RoomOf(t)) # {}}
  /\ UNCHANGED base

\* What pal_os_datastore_read() returns: success and the data, or failure.
Unknown == 256 \* a byte from outside the buffers
pal_os_datastore_read(s) ==
  IF s \notin Known THEN <<"failure", <<>>>>
  ELSE LET length == 256 * memory[base[s]] + memory[base[s] + 1]
           copied == [i \in 1..length |->
                        LET a == base[s] + LENGTH_SIZE + i - 1 IN IF a \in DOMAIN memory THEN memory[a] ELSE Unknown]
       IN  IF Accepts(s, length) THEN <<"ok", copied>> ELSE <<"failure", <<>>>>
-----------------------------------------------------------------------------
Next ==
  /\ \/ part = "bus" /\ I2cNext /\ UNCHANGED <<eventVars, lockVars, storeVars>>
     \/ part = "event" /\ EventNext /\ UNCHANGED <<i2cVars, lockVars, storeVars>>
     \/ part = "lock" /\ LockNext /\ UNCHANGED <<i2cVars, eventVars, storeVars>>
     \/ part = "store" /\ pal_os_datastore_write /\ UNCHANGED <<i2cVars, eventVars, lockVars>>
  /\ UNCHANGED part

Spec == Init /\ [][Next]_vars
\* A task that has the lock gives it back; a semaphore is given to the waiting tasks in turn.
LockFairness ==
  \A t \in Tasks : WF_lockVars(pal_os_lock_release(t)) /\ SF_lockVars(pal_os_lock_acquire(t))
FairSpec == Spec /\ I2cFairness /\ EventFairness /\ LockFairness
-----------------------------------------------------------------------------
TypeOK ==
  /\ I2cTypeOK /\ EventTypeOK
  /\ part \in {"bus", "event", "lock", "store"}
  /\ first_call_flag \in {0, 1} /\ xLockSemaphoreHandle \in {"absent", "free", "taken"}
  /\ lock_pc \in [Tasks -> {"idle", "take", "holds"}]

\* All locks are one semaphore, made by whoever comes first: at most one task holds it, and
\* no task takes it before it is made.
LockExclusive ==
  /\ \A t, u \in Tasks : lock_pc[t] = "holds" /\ lock_pc[u] = "holds" => t = u
  /\ (\E t \in Tasks : lock_pc[t] = "holds") => xLockSemaphoreHandle = "taken"

\* The bus is taken by one at a time, and it gives each result to the context it belongs to.
BusHeldByOne == BusHeldOnce /\ AnsweredToOwner /\ HalReady

\* Every task that waits for the lock gets it.
LockObtained == \A t \in Tasks : lock_pc[t] = "take" ~> lock_pc[t] = "holds"
\* Every transfer, every registered event and every request for the lock comes to its end.
PalProgress == TransferAnswered /\ BusComesFree /\ RegisteredIsCalled /\ LockObtained

\* A read gives back the data that were last accepted, at their length, and fails for an
\* unknown identifier.  Only writes of the two contexts, whose length is not checked, break
\* this, for their own store when the data are longer than its room, and for the stores
\* they run into; a write of the shared secret breaks nothing, wherever the buffers lie.
Overlong(s) == s \in Unchecked /\ Len(written[s]) > RoomOf(s)
DatastoreRoundTrip ==
  \A s \in Stores :
    IF s \in Known THEN s \in reached \/ Overlong(s) \/ pal_os_datastore_read(s) = <<"ok", written[s]>>
    ELSE pal_os_datastore_read(s)[1] = "failure"
=============================================================================
