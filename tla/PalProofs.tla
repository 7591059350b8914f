------------------------------- MODULE PalProofs -------------------------------
(***************************************************************************)
(* Theorems about Pal: the bus, the events, the lock and the data store,   *)
(* for any contexts, users, tasks, timers and lengths.                     *)
(***************************************************************************)
EXTENDS Pal, Integers, TLAPS

-----------------------------------------------------------------------------
(* The bus *)

\* The stages of a transfer exclude each other.
OneStage ==
  /\ transfer # None => notified = {} /\ i2c_pc = "wait"
  /\ notified # {} => i2c_pc = "wait"

\* A context waits for an answer exactly as long as its transfer runs or has just ended.
WaitingIsCurrent ==
  /\ awaiting # {} => awaiting = {gp_pal_i2c_current_ctx}
  /\ (transfer # None \/ notified # {}) <=> awaiting # {}

\* Without the task nobody uses the bus.
TaskServes == ~i2c_taskhandle => Holders = {}

BusInv == I2cTypeOK /\ OneStage /\ WaitingIsCurrent /\ TaskServes /\ BusHeldOnce /\ ~stray /\ HalReady

\* The invariant gives what is promised of the bus.
LEMMA BusInvImplies == BusInv => BusHeldByOne
  BY DEF BusInv, BusHeldByOne, AnsweredToOwner, WaitingIsCurrent

\* It holds before the first pal_i2c_init().
LEMMA BusInitially == I2cInit => BusInv
<1> SUFFICES ASSUME I2cInit PROVE BusInv
  OBVIOUS
<1>1. Holders = {}
  BY DEF I2cInit, Holders
<1>2. I2cTypeOK
  BY DEF I2cInit, I2cTypeOK
<1>3. OneStage /\ WaitingIsCurrent /\ HalReady /\ ~stray
  BY DEF I2cInit, OneStage, WaitingIsCurrent, HalReady
<1>4. TaskServes /\ BusHeldOnce
  BY <1>1 DEF I2cInit, TaskServes, BusHeldOnce
<1>5. QED
  BY <1>2, <1>3, <1>4 DEF BusInv

\* Initialisation and deinitialisation come when nobody uses the bus.
LEMMA BusSetup ==
  BusInv /\ (InitFirst \/ InitHal \/ DeinitContext \/ DeinitNull) => BusInv'
<1> SUFFICES ASSUME BusInv, InitFirst \/ InitHal \/ DeinitContext \/ DeinitNull PROVE BusInv'
  OBVIOUS
<1>1. UNCHANGED <<transfer, notified, i2c_pc, caller, awaiting, gp_pal_i2c_current_ctx, stray>> /\ Quiet
  BY DEF InitFirst, InitHal, DeinitContext, DeinitNull
<1>2. Holders = {} /\ Holders' = {}
  BY <1>1 DEF Quiet, Holders
<1>3. I2cTypeOK'
  BY <1>1 DEF BusInv, I2cTypeOK, InitFirst, InitHal, DeinitContext, DeinitNull, pal_i2c_release
<1>4. OneStage' /\ WaitingIsCurrent' /\ ~stray'
  BY <1>1 DEF BusInv, OneStage, WaitingIsCurrent
<1>5. TaskServes' /\ BusHeldOnce'
  BY <1>1, <1>2 DEF BusInv, TaskServes, BusHeldOnce, I2cTypeOK, InitFirst, InitHal, DeinitContext, DeinitNull, pal_i2c_release
<1>6. HalReady'
  BY DEF BusInv, HalReady, InitFirst, InitHal, DeinitContext, DeinitNull
<1>7. QED
  BY <1>3, <1>4, <1>5, <1>6 DEF BusInv

\* A caller takes the bus when nobody has it, and passes it on or gives it back.
LEMMA BusCaller ==
  ASSUME NEW c \in Contexts, BusInv,
         Begin(c) \/ StartTransfer(c) \/ pal_i2c_set_bitrate(c) \/ ReleaseBus(c)
  PROVE  BusInv'
<1> USE ContextsAssumption
        DEF BusInv, I2cTypeOK, OneStage, WaitingIsCurrent, TaskServes, BusHeldOnce, HalReady, setup
<1>1. CASE Begin(c)
  <2>1. CASE pal_i2c_acquire /\ Hold(c, "acquired")
    <3>1. Holders = {} /\ i2c_taskhandle
      BY <1>1, <2>1 DEF Begin, pal_i2c_acquire
    <3>2. Holders' = {c}
      BY <1>1, <2>1, <3>1 DEF Begin, Hold, Holders
    <3>3. QED
      BY <1>1, <2>1, <3>1, <3>2 DEF Begin, pal_i2c_acquire, Hold
  <2>2. CASE UNCHANGED <<xIicSemaphoreHandle, caller>>
    BY <1>1, <2>2 DEF Begin, Holders
  <2>3. QED
    BY <1>1, <2>1, <2>2 DEF Begin, Acquire
<1>2. ASSUME caller[c] # "idle" PROVE Holders = {c} /\ transfer = None /\ notified = {} /\ i2c_pc = "wait" /\ i2c_taskhandle
  BY <1>2 DEF Holders
<1>3. CASE StartTransfer(c)
  <2>1. awaiting = {} /\ gp_pal_i2c_current_ctx' = c
    BY <1>2, <1>3 DEF StartTransfer
  <2>2. CASE transfer' = c /\ awaiting' = awaiting \cup {c} /\ Hold(c, "idle")
    <3>1. Holders' = {None}
      BY <1>2, <1>3, <2>2 DEF StartTransfer, Hold, Holders
    <3>2. QED
      BY <1>2, <1>3, <2>1, <2>2, <3>1 DEF StartTransfer, Hold
  <2>3. CASE UNCHANGED <<transfer, awaiting>> /\ Hold(c, "release")
    <3>1. Holders' = {c}
      BY <1>2, <1>3, <2>3 DEF StartTransfer, Hold, Holders
    <3>2. QED
      BY <1>2, <1>3, <2>1, <2>3, <3>1 DEF StartTransfer, Hold
  <2>4. QED
    BY <1>3, <2>2, <2>3 DEF StartTransfer
<1>4. CASE pal_i2c_set_bitrate(c)
  <2>1. Holders' = {c}
    BY <1>2, <1>4 DEF pal_i2c_set_bitrate, Hold, Holders
  <2>2. QED
    BY <1>2, <1>4, <2>1 DEF pal_i2c_set_bitrate, Hold
<1>5. CASE ReleaseBus(c)
  <2>1. Holders' = {}
    BY <1>2, <1>5 DEF ReleaseBus, Hold, Holders
  <2>2. QED
    BY <1>2, <1>5, <2>1 DEF ReleaseBus, Hold, pal_i2c_release
<1>6. QED
  BY <1>1, <1>3, <1>4, <1>5

\* The interrupt and the task pass the bus on; the task gives it back.
LEMMA BusTask ==
  BusInv /\ (i2c_master_event_handler \/ Answer \/ Release) => BusInv'
<1> SUFFICES ASSUME BusInv, i2c_master_event_handler \/ Answer \/ Release PROVE BusInv'
  OBVIOUS
<1> USE ContextsAssumption
        DEF BusInv, I2cTypeOK, OneStage, WaitingIsCurrent, TaskServes, BusHeldOnce, HalReady, setup
<1>1. ASSUME transfer # None \/ notified # {} \/ i2c_pc = "release" PROVE Holders = {None} /\ i2c_taskhandle
  <2>1. None \in Holders
    BY <1>1 DEF Holders
  <2>2. QED
    BY <2>1
<1>2. CASE i2c_master_event_handler
  <2>1. notified' # {} /\ notified' \subseteq Events /\ transfer' = None
    BY <1>2 DEF i2c_master_event_handler
  <2>2. Holders = {None} /\ Holders' = Holders
    BY <1>1, <1>2, <2>1 DEF i2c_master_event_handler, Holders
  <2>3. QED
    BY <1>2, <2>1, <2>2 DEF i2c_master_event_handler
<1>3. CASE Answer
  <2>1. Holders = {None} /\ Holders' = Holders
    BY <1>1, <1>3 DEF Answer, Holders
  <2>2. awaiting = {gp_pal_i2c_current_ctx} /\ awaiting' = {} /\ transfer = None
    BY <1>3 DEF Answer
  <2>3. QED
    BY <1>3, <2>1, <2>2 DEF Answer
<1>4. CASE Release
  <2>1. Holders = {None} /\ transfer = None /\ notified = {}
    BY <1>1, <1>4 DEF Release
  <2>2. Holders' = {}
    BY <1>4, <2>1 DEF Release, Holders
  <2>3. QED
    BY <1>4, <2>1, <2>2 DEF Release, pal_i2c_release
<1>5. QED
  BY <1>2, <1>3, <1>4

\* Steps of the other parts do not touch the bus.
LEMMA BusStutter == BusInv /\ UNCHANGED i2cVars => BusInv'
  BY DEF i2cVars, BusInv, I2cTypeOK, OneStage, WaitingIsCurrent, TaskServes, BusHeldOnce, HalReady, Holders

\* Between its initialisation and its deinitialisation, the bus has one holder at a time,
\* and the result of each transfer goes to the context that started it, and to no other,
\* for any contexts.
THEOREM BusCorrect == Spec => []BusHeldByOne
<1>1. Init => BusInv
  BY BusInitially DEF Init
<1>2. BusInv /\ [Next]_vars => BusInv'
  BY BusSetup, BusCaller, BusTask, BusStutter DEF Next, I2cNext, vars
<1>3. QED
  BY <1>1, <1>2, BusInvImplies, PTL DEF Spec
-----------------------------------------------------------------------------
(* The bus as its callers see it *)

\* Whoever has the bus in his call is the one who holds it.
LEMMA CallerHolds ==
  ASSUME BusInv, NEW c \in Contexts, caller[c] # "idle" PROVE Stage = "call" /\ Holder = c
<1>1. \A d \in Contexts : caller[d] # "idle" => d = c
  BY DEF BusInv, BusHeldOnce, Holders
<1>2. Stage = "call"
  BY DEF Stage
<1>3. QED
  BY <1>1, <1>2 DEF Holder

\* Without such a caller the stage follows transfer, notification and task.
LEMMA NoCaller ==
  ASSUME \A c \in Contexts : caller[c] = "idle"
  PROVE  /\ transfer # None \/ notified # {} => Stage = "transfer" /\ Holder = gp_pal_i2c_current_ctx
         /\ transfer = None /\ notified = {} /\ i2c_pc = "release" =>
              Stage = "answered" /\ Holder = gp_pal_i2c_current_ctx
         /\ transfer = None /\ notified = {} /\ i2c_pc # "release" => Stage = "free" /\ Holder = None
  BY DEF Stage, Holder

\* While a transfer is carried out or handed over nobody is in a call.
LEMMA TaskExcludesCallers ==
  ASSUME BusInv, transfer # None \/ notified # {} \/ i2c_pc = "release"
  PROVE  \A c \in Contexts : caller[c] = "idle"
<1>1. None \in Holders
  BY DEF Holders
<1>2. QED
  BY <1>1, ContextsAssumption DEF BusInv, BusHeldOnce, Holders

\* A caller takes the bus, starts a transfer, or gives the bus back.
LEMMA CallerServed ==
  ASSUME NEW c \in Contexts, BusInv, BusInv',
         Begin(c) \/ StartTransfer(c) \/ pal_i2c_set_bitrate(c) \/ ReleaseBus(c)
  PROVE  [Bus!Next]_(Bus!vars)
<1>1. caller \in [Contexts -> {"idle", "acquired", "release"}]
  BY DEF BusInv, I2cTypeOK
<1>2. ASSUME caller'[c] # "idle" PROVE Stage' = "call" /\ Holder' = c
  <2>1. \A d \in Contexts : caller'[d] # "idle" => d = c
    BY <1>2 DEF BusInv, BusHeldOnce, Holders
  <2>2. Stage' = "call"
    BY <1>2 DEF Stage
  <2>3. QED
    BY <1>2, <2>1, <2>2 DEF Holder
<1>3. CASE Begin(c)
  <2>1. CASE pal_i2c_acquire /\ Hold(c, "acquired")
    <3>1. Holders = {}
      BY <1>3, <2>1 DEF Begin, pal_i2c_acquire, BusInv, BusHeldOnce
    <3>2. Stage = "free" /\ Holder = None
      BY <3>1, NoCaller DEF Holders
    <3>3. caller'[c] = "acquired" /\ UNCHANGED awaiting
      BY <1>1, <1>3, <2>1 DEF Begin, Hold
    <3>4. Bus!Take(c)
      BY <1>2, <3>2, <3>3 DEF Bus!Take
    <3>5. QED
      BY <3>4 DEF Bus!Next
  <2>2. CASE UNCHANGED caller
    BY <1>3, <2>2 DEF Begin, Stage, Holder, Bus!vars
  <2>3. QED
    BY <1>3, <2>1, <2>2 DEF Begin, Acquire
<1>4. ASSUME caller[c] # "idle" PROVE Stage = "call" /\ Holder = c /\ transfer = None /\ awaiting = {}
                                      /\ notified = {} /\ i2c_pc # "release"
  <2>1. transfer = None /\ notified = {} /\ i2c_pc # "release"
    BY <1>4, TaskExcludesCallers
  <2>2. QED
    BY <1>4, <2>1, CallerHolds DEF BusInv, WaitingIsCurrent
<1>5. CASE StartTransfer(c)
  <2>1. CASE transfer' = c /\ awaiting' = awaiting \cup {c} /\ Hold(c, "idle")
    <3>1. transfer' # None /\ gp_pal_i2c_current_ctx' = c
      BY <1>5, <2>1, ContextsAssumption DEF StartTransfer
    <3>2. \A d \in Contexts : caller'[d] = "idle"
      BY <3>1, ContextsAssumption DEF BusInv, BusHeldOnce, Holders
    <3>3. Stage' = "transfer" /\ Holder' = c
      BY <3>1, <3>2 DEF Stage, Holder
    <3>4. Bus!Transfer
      BY <1>4, <1>5, <2>1, <3>3 DEF StartTransfer, Bus!Transfer
    <3>5. QED
      BY <3>4 DEF Bus!Next
  <2>2. CASE UNCHANGED <<transfer, awaiting>> /\ Hold(c, "release")
    <3>1. caller'[c] # "idle"
      BY <1>1, <2>2 DEF Hold
    <3>2. QED
      BY <1>2, <1>4, <1>5, <2>2, <3>1 DEF StartTransfer, Bus!vars
  <2>3. QED
    BY <1>5, <2>1, <2>2 DEF StartTransfer
<1>6. CASE pal_i2c_set_bitrate(c)
  <2>1. caller'[c] # "idle" /\ caller[c] # "idle" /\ UNCHANGED awaiting
    BY <1>1, <1>6 DEF pal_i2c_set_bitrate, Hold
  <2>2. QED
    BY <1>2, <1>4, <2>1 DEF Bus!vars
<1>7. CASE ReleaseBus(c)
  <2>1. Stage = "call" /\ Holder = c /\ transfer = None /\ notified = {} /\ i2c_pc # "release"
    BY <1>4, <1>7 DEF ReleaseBus
  <2>2. UNCHANGED <<transfer, notified, i2c_pc, awaiting>>
    BY <1>7 DEF ReleaseBus
  <2>3. \A d \in Contexts : caller[d] # "idle" => d = c
    BY <1>7 DEF ReleaseBus, BusInv, BusHeldOnce, Holders
  <2>4. \A d \in Contexts : caller'[d] = "idle"
    BY <1>1, <1>7, <2>3 DEF ReleaseBus, Hold
  <2>5. Stage' = "free" /\ Holder' = None
    BY <2>1, <2>2, <2>4 DEF Stage, Holder
  <2>6. Bus!GiveBack
    BY <2>1, <2>2, <2>5 DEF Bus!GiveBack
  <2>7. QED
    BY <2>6 DEF Bus!Next
<1>8. QED
  BY <1>3, <1>5, <1>6, <1>7

\* The interrupt is not seen; the task replies and gives the bus back.
LEMMA TaskServed ==
  ASSUME BusInv, i2c_master_event_handler \/ Answer \/ Release
  PROVE  [Bus!Next]_(Bus!vars)
<1>1. \A c \in Contexts : caller[c] = "idle"
  BY TaskExcludesCallers DEF i2c_master_event_handler, Answer, Release
<1>2. \A c \in Contexts : caller'[c] = "idle"
  BY <1>1 DEF i2c_master_event_handler, Answer, Release
<1>3. CASE i2c_master_event_handler
  <2>1. transfer # None /\ notified' # {} /\ UNCHANGED <<awaiting, gp_pal_i2c_current_ctx>>
    BY <1>3 DEF i2c_master_event_handler
  <2>2. Stage = "transfer" /\ Holder = gp_pal_i2c_current_ctx
    BY <1>1, <2>1, NoCaller
  <2>3. Stage' = "transfer" /\ Holder' = gp_pal_i2c_current_ctx'
    BY <1>2, <2>1 DEF Stage, Holder
  <2>4. QED
    BY <2>1, <2>2, <2>3 DEF Bus!vars
<1>4. CASE Answer
  <2>1. /\ notified # {} /\ transfer = None /\ notified' = {} /\ i2c_pc' = "release"
        /\ UNCHANGED <<transfer, gp_pal_i2c_current_ctx>>
        /\ gp_pal_i2c_current_ctx \in awaiting /\ awaiting' = awaiting \ {gp_pal_i2c_current_ctx}
    BY <1>4 DEF Answer, BusInv, OneStage, WaitingIsCurrent
  <2>2. Stage = "transfer" /\ Holder = gp_pal_i2c_current_ctx
    BY <1>1, <2>1, NoCaller
  <2>3. Stage' = "answered" /\ Holder' = gp_pal_i2c_current_ctx
    BY <1>2, <2>1 DEF Stage, Holder
  <2>4. Bus!Reply
    BY <2>1, <2>2, <2>3 DEF Bus!Reply
  <2>5. QED
    BY <2>4 DEF Bus!Next
<1>5. CASE Release
  <2>1. /\ transfer = None /\ notified = {} /\ i2c_pc = "release" /\ i2c_pc' = "wait"
        /\ UNCHANGED <<transfer, notified, awaiting>>
    BY <1>5 DEF Release, BusInv, OneStage
  <2>2. Stage = "answered"
    BY <1>1, <2>1, NoCaller
  <2>3. Stage' = "free" /\ Holder' = None
    BY <1>2, <2>1 DEF Stage, Holder
  <2>4. Bus!GiveBack
    BY <2>1, <2>2, <2>3 DEF Bus!GiveBack
  <2>5. QED
    BY <2>4 DEF Bus!Next
<1>6. QED
  BY <1>3, <1>4, <1>5

\* Initialisation, deinitialisation and the other parts of the PAL are not seen on the bus.
LEMMA BusUnseen ==
  UNCHANGED i2cVars \/ InitFirst \/ InitHal \/ DeinitContext \/ DeinitNull => UNCHANGED Bus!vars
<1> SUFFICES ASSUME UNCHANGED i2cVars \/ InitFirst \/ InitHal \/ DeinitContext \/ DeinitNull
             PROVE  UNCHANGED Bus!vars
  OBVIOUS
<1>1. UNCHANGED <<caller, transfer, notified, i2c_pc, gp_pal_i2c_current_ctx, awaiting>>
  BY DEF i2cVars, InitFirst, InitHal, DeinitContext, DeinitNull
<1>2. QED
  BY <1>1 DEF Bus!vars, Stage, Holder

\* The I2C layer implements a bus that serves one context at a time and answers each
\* transfer once, to the context that started it, for any contexts.
THEOREM BusRefined == Spec => ImplementsBusService
<1>1. Init => BusInv
  BY BusInitially DEF Init
<1>2. BusInv /\ [Next]_vars => BusInv'
  BY BusSetup, BusCaller, BusTask, BusStutter DEF Next, I2cNext, vars
<1>3. Init => Bus!Init
  BY NoCaller DEF Init, I2cInit, Bus!Init
<1>4. BusInv /\ BusInv' /\ [Next]_vars => [Bus!Next]_(Bus!vars)
  BY CallerServed, TaskServed, BusUnseen DEF Next, I2cNext, vars
<1>5. QED
  BY <1>1, <1>2, <1>3, <1>4, PTL DEF Spec, ImplementsBusService, Bus!Spec
-----------------------------------------------------------------------------
(* The events *)

Running    == {t \in Timers : timer[t] = "running"}
Commands   == {"change_period", "delete"} \X Timers
Registered == event.callback \in Users /\ event.ctx = event.callback /\ owed = {event.callback}

\* What registers a callback has a timer to start, and the queue holds commands.
EventShape ==
  /\ event \in [callback : Users \cup {NULL}, ctx : Users \cup {NULL}, triggered : BOOLEAN,
                os_timer : Timers \cup {0}]
  /\ timer \in [Timers -> {"none", "dormant", "running"}]
  /\ queue \in Seq(Commands)
  /\ user \in [Users -> [pc : Pcs, start : BOOLEAN]]
  /\ owed \subseteq Users
  /\ \A u \in Users : user[u].pc \in {"write_ctx", "change_period"} => event.os_timer # 0

\* One thing at a time is under way: a user, a command, or a timer.
OneUnderWay ==
  /\ \A u, v \in Users : ~At(u, "idle") /\ ~At(v, "idle") => u = v
  /\ (\E u \in Users : ~At(u, "idle")) => queue = <<>> /\ Running = {}
  /\ queue # <<>> => Len(queue) = 1 /\ Running = {}
  /\ \A s, t \in Running : s = t

\* What is registered is complete when its timer starts, and stays until it is called.
RegistrationKept ==
  /\ \A u \in Users : At(u, "write_ctx") => event.callback = u /\ owed = {u}
  /\ \A u \in Users : At(u, "change_period") => event.callback = u /\ event.ctx = u /\ owed = {u}
  /\ queue # <<>> /\ Head(queue)[1] = "change_period" => Registered
  /\ Running # {} => Registered

EventClean == OneUnderWay /\ RegistrationKept /\ called[1] # NULL /\ called[1] = called[2] /\ called[3]
EventInv   == EventShape /\ (crossed \/ EventClean)

\* Nothing is under way in the beginning.
LEMMA EventInitially == EventInit => EventInv
<1> SUFFICES ASSUME EventInit PROVE EventInv
  OBVIOUS
<1>1. EventShape
  BY UsersAssumption DEF EventInit, EventShape, Pcs
<1>2. Running = {} /\ queue = <<>> /\ (\A u \in Users : At(u, "idle"))
  BY DEF EventInit, Running, At
<1>3. OneUnderWay /\ RegistrationKept
  BY <1>2 DEF OneUnderWay, RegistrationKept, At
<1>4. QED
  BY <1>1, <1>3 DEF EventInv, EventClean, EventInit, Nobody, NULL

\* A registration, a creation or a destruction begins when nothing is under way, or it
\* counts as crossed.
LEMMA EventBegins ==
  ASSUME EventInv, NEW u \in Users,
         \/ pal_os_event_create(u) \/ pal_os_event_register_callback_oneshot(u)
         \/ pal_os_event_start(u) \/ pal_os_event_destroy(u)
  PROVE  EventInv'
<1> DEFINE Begins(start) ==
      /\ event.os_timer # 0 /\ At(u, "idle")
      /\ event' = [event EXCEPT !.callback = u, !.triggered = start \/ @]
      /\ Goto(u, "write_ctx")
      /\ owed' = {u} /\ UNCHANGED <<timer, queue>>
<1>1. called' = Nobody \/ called' = called
  BY DEF pal_os_event_create, pal_os_event_register_callback_oneshot, pal_os_event_start, Register, pal_os_event_destroy
<1>2. crossed' = (crossed \/ UnderWay) /\ timer' = timer /\ Running' = Running
  BY DEF pal_os_event_create, pal_os_event_register_callback_oneshot, pal_os_event_start, Register,
         pal_os_event_destroy, Running
<1> DEFINE Owed(c) == c[1] # NULL /\ c[1] = c[2] /\ c[3]
<1>3. ASSUME EventClean PROVE Owed(called')
  <2>1. Owed(Nobody)
    BY DEF Nobody, NULL
  <2>2. Owed(called)
    BY <1>3 DEF EventClean
  <2> HIDE DEF Owed
  <2>3. QED
    BY <1>1, <2>1, <2>2
<1>4. CASE pal_os_event_create(u)
  <2>1. PICK start \in BOOLEAN :
          /\ event' = [event EXCEPT !.callback = IF start THEN u ELSE NULL]
          /\ GotoStart(u, [pc |-> "init_ctx", start |-> start])
    BY <1>4 DEF pal_os_event_create
  <2>2. /\ owed' = {} /\ queue' = queue
        /\ user' = [user EXCEPT ![u] = [pc |-> "init_ctx", start |-> start]]
    BY <1>4, <2>1 DEF pal_os_event_create, GotoStart
  <2>3. EventShape'
    BY <1>2, <2>1, <2>2 DEF EventInv, EventShape, Pcs
  <2>4. ASSUME ~crossed' PROVE EventClean'
    <3>1. EventClean /\ ~UnderWay
      BY <1>2, <2>4 DEF EventInv
    <3>2. queue = <<>> /\ Running = {} /\ \A v \in Users : At(v, "idle")
      BY <3>1 DEF UnderWay, Running
    <3>3. \A v \in Users : user'[v].pc = IF v = u THEN "init_ctx" ELSE "idle"
      BY <2>2, <3>2 DEF At, EventInv, EventShape
    <3>4. OneUnderWay' /\ RegistrationKept'
      BY <1>2, <2>2, <3>2, <3>3 DEF OneUnderWay, RegistrationKept, At
    <3>5. QED
      BY <1>3, <3>1, <3>4 DEF EventClean
  <2>5. QED
    BY <2>3, <2>4 DEF EventInv
<1>5. CASE pal_os_event_register_callback_oneshot(u) \/ pal_os_event_start(u)
  <2>1. PICK start \in BOOLEAN : Begins(start)
    BY <1>5 DEF pal_os_event_register_callback_oneshot, pal_os_event_start, Register, Alive
  <2>2. user' = [user EXCEPT ![u].pc = "write_ctx"]
    BY <2>1 DEF Goto
  <2>3. EventShape'
    BY <2>1, <2>2 DEF EventInv, EventShape, Pcs
  <2>4. ASSUME ~crossed' PROVE EventClean'
    <3>1. EventClean /\ ~UnderWay
      BY <1>2, <2>4 DEF EventInv
    <3>2. queue = <<>> /\ Running = {} /\ \A v \in Users : At(v, "idle")
      BY <3>1 DEF UnderWay, Running
    <3>3. \A v \in Users : user'[v].pc = IF v = u THEN "write_ctx" ELSE "idle"
      BY <2>2, <3>2 DEF At, EventInv, EventShape
    <3>4. event'.callback = u /\ owed' = {u}
      BY <2>1 DEF EventInv, EventShape
    <3>5. OneUnderWay' /\ RegistrationKept'
      BY <1>2, <2>1, <3>2, <3>3, <3>4 DEF OneUnderWay, RegistrationKept, At
    <3>6. QED
      BY <1>3, <3>1, <3>5 DEF EventClean
  <2>5. QED
    BY <2>3, <2>4 DEF EventInv
<1>6. CASE pal_os_event_destroy(u)
  <2>1. /\ event.os_timer \in Timers /\ user' = user /\ owed' = {}
        /\ event' = [event EXCEPT !.triggered = FALSE]
        /\ queue' = Append(queue, <<"delete", event.os_timer>>)
    BY <1>6 DEF pal_os_event_destroy, Alive, EventInv, EventShape
  <2>2. EventShape'
    <3>1. <<"delete", event.os_timer>> \in Commands /\ queue \in Seq(Commands)
      BY <2>1 DEF Commands, EventInv, EventShape
    <3>2. queue' \in Seq(Commands)
      BY <2>1, <3>1
    <3>3. QED
      BY <1>2, <2>1, <3>2 DEF EventInv, EventShape
  <2>3. ASSUME ~crossed' PROVE EventClean'
    <3>1. EventClean /\ ~UnderWay
      BY <1>2, <2>3 DEF EventInv
    <3>2. queue = <<>> /\ Running = {} /\ \A v \in Users : At(v, "idle")
      BY <3>1 DEF UnderWay, Running
    <3>3. \A v \in Users : user'[v].pc = "idle"
      BY <2>1, <3>2 DEF At
    <3>4. Len(queue') = 1 /\ Head(queue') = <<"delete", event.os_timer>>
      BY <2>1, <3>2
    <3>5. OneUnderWay' /\ RegistrationKept'
      BY <1>2, <3>2, <3>3, <3>4 DEF OneUnderWay, RegistrationKept, At
    <3>6. QED
      BY <1>3, <3>1, <3>5 DEF EventClean
  <2>4. QED
    BY <2>2, <2>3 DEF EventInv
<1>7. QED
  BY <1>4, <1>5, <1>6

\* A user that is under way writes what it registers, and then hands it to the timer.
LEMMA EventGoes == ASSUME EventInv, NEW u \in Users, Goes(u) PROVE EventInv'
<1>1. called' = called /\ crossed' = crossed
  BY DEF Goes, InitCtx, InitTimer, WriteCtx, ChangePeriod
<1> DEFINE Alone == queue = <<>> /\ Running = {} /\ \A v \in Users \ {u} : At(v, "idle")
<1>2. ASSUME EventClean PROVE Alone
  BY <1>2 DEF Goes, InitCtx, InitTimer, WriteCtx, ChangePeriod, EventClean, OneUnderWay, At
<1>3. ASSUME UNCHANGED queue, Running' = Running, EventClean,
             \A v \in Users \ {u} : user'[v] = user[v],
             user'[u].pc = "write_ctx" => event'.callback = u /\ owed' = {u},
             user'[u].pc = "change_period" => event'.callback = u /\ event'.ctx = u /\ owed' = {u}
      PROVE  EventClean'
  <2>1. Alone
    BY <1>2, <1>3
  <2>2. OneUnderWay' /\ RegistrationKept'
    BY <2>1, <1>3 DEF OneUnderWay, RegistrationKept, At
  <2>3. QED
    BY <1>1, <1>3, <2>2 DEF EventClean
<1>4. CASE InitCtx(u)
  <2>1. EventShape'
    BY <1>4 DEF InitCtx, Goto, EventInv, EventShape, Pcs
  <2>2. Running' = Running
    BY <1>4 DEF InitCtx, Running
  <2>3. QED
    BY <1>1, <1>3, <1>4, <2>1, <2>2 DEF InitCtx, Goto, EventInv, EventShape
<1>5. CASE InitTimer(u)
  <2>1. CASE /\ GotoStart(u, [pc |-> "idle", start |-> FALSE])
             /\ UNCHANGED <<timer, event, owed>>
    <3>1. EventShape'
      BY <1>5, <2>1 DEF InitTimer, GotoStart, EventInv, EventShape, Pcs
    <3>2. Running' = Running
      BY <2>1 DEF Running
    <3>3. user'[u].pc = "idle" /\ \A v \in Users \ {u} : user'[v] = user[v]
      BY <2>1 DEF GotoStart, EventInv, EventShape
    <3>4. queue' = queue
      BY <1>5 DEF InitTimer
    <3>5. user'[u].pc # "write_ctx" /\ user'[u].pc # "change_period"
      BY <3>3
    <3>6. EventClean => EventClean'
      BY <1>3, <3>2, <3>3, <3>4, <3>5
    <3>7. QED
      BY <1>1, <3>1, <3>6 DEF EventInv
  <2>2. CASE ~(GotoStart(u, [pc |-> "idle", start |-> FALSE]) /\ UNCHANGED <<timer, event, owed>>)
    <3> DEFINE start == user[u].start
    <3>1. PICK t \in Timers :
            /\ timer[t] = "none" /\ timer' = [timer EXCEPT ![t] = "dormant"]
            /\ event' = [event EXCEPT !.os_timer = t, !.triggered = start, !.callback = IF start THEN u ELSE @]
      BY <1>5, <2>2 DEF InitTimer
    <3>2. /\ user' = [user EXCEPT ![u] = [pc |-> IF start THEN "write_ctx" ELSE "idle", start |-> FALSE]]
          /\ owed' = (IF start THEN {u} ELSE owed) /\ queue' = queue
      BY <1>5, <2>2 DEF InitTimer, GotoStart
    <3>3. start \in BOOLEAN /\ t # 0
      BY TimersAssumption DEF EventInv, EventShape
    <3>4. EventShape'
      BY <3>1, <3>2, <3>3 DEF EventInv, EventShape, Pcs
    <3>5. Running' = Running
      BY <3>1 DEF Running, EventInv, EventShape
    <3>6. /\ user'[u].pc = "write_ctx" => event'.callback = u /\ owed' = {u}
          /\ user'[u].pc # "change_period" /\ \A v \in Users \ {u} : user'[v] = user[v]
      BY <3>1, <3>2, <3>3 DEF EventInv, EventShape
    <3>7. QED
      BY <1>1, <1>3, <3>2, <3>4, <3>5, <3>6 DEF EventInv
  <2>3. QED
    BY <2>1, <2>2
<1>6. CASE WriteCtx(u)
  <2>1. EventShape'
    BY <1>6 DEF WriteCtx, At, Goto, EventInv, EventShape, Pcs
  <2>2. Running' = Running
    BY <1>6 DEF WriteCtx, Running
  <2>3. ASSUME EventClean PROVE event.callback = u /\ owed = {u}
    BY <1>6, <2>3 DEF WriteCtx, EventClean, RegistrationKept
  <2>4. /\ event' = [event EXCEPT !.ctx = u] /\ user' = [user EXCEPT ![u].pc = "change_period"]
        /\ UNCHANGED <<owed, queue>>
    BY <1>6 DEF WriteCtx, Goto
  <2>5. ASSUME EventClean PROVE EventClean'
    <3>1. event'.callback = u /\ event'.ctx = u /\ owed' = {u}
      BY <2>3, <2>4, <2>5 DEF EventInv, EventShape
    <3>2. user'[u].pc = "change_period" /\ \A v \in Users \ {u} : user'[v] = user[v]
      BY <2>4 DEF EventInv, EventShape
    <3>3. QED
      BY <1>3, <2>2, <2>4, <2>5, <3>1, <3>2
  <2>6. QED
    BY <1>1, <2>1, <2>5 DEF EventInv
<1>7. CASE ChangePeriod(u)
  <2>1. event.os_timer \in Timers
    BY <1>7 DEF ChangePeriod, At, EventInv, EventShape
  <2>2. /\ user' = [user EXCEPT ![u].pc = "idle"] /\ UNCHANGED <<event, timer>>
        /\ IF Len(queue) < QueueLength
           THEN queue' = Append(queue, <<"change_period", event.os_timer>>) /\ owed' = owed
           ELSE queue' = queue /\ owed' = {}
    BY <1>7 DEF ChangePeriod, Goto
  <2>3. EventShape'
    <3>1. queue' \in Seq(Commands) /\ owed' \subseteq Users
      <4>1. <<"change_period", event.os_timer>> \in Commands /\ queue \in Seq(Commands)
        BY <2>1 DEF Commands, EventInv, EventShape
      <4> DEFINE command == <<"change_period", event.os_timer>>
      <4>2. Append(queue, command) \in Seq(Commands)
        <5> HIDE DEF command
        <5>1. command \in Commands
          BY <4>1 DEF command
        <5>2. QED
          BY <4>1, <5>1
      <4>3. queue' \in Seq(Commands)
        BY <2>2, <4>1, <4>2, Zenon
      <4>4. QED
        BY <2>2, <4>3 DEF EventInv, EventShape
    <3>2. QED
      BY <2>2, <3>1 DEF EventInv, EventShape, Pcs
  <2>4. ASSUME EventClean PROVE EventClean'
    <3>1. event.callback = u /\ event.ctx = u /\ owed = {u}
      BY <1>7, <2>4 DEF ChangePeriod, EventClean, RegistrationKept
    <3>2. Alone
      BY <1>2, <2>4
    <3>3. queue' = <<<<"change_period", event.os_timer>>>> /\ owed' = {u}
      BY <2>2, <3>1, <3>2, TimersAssumption
    <3>4. Running' = {} /\ \A v \in Users : user'[v].pc = "idle"
      BY <2>2, <3>2 DEF Running, At, EventInv, EventShape
    <3>5. Registered' /\ Len(queue') = 1
      BY <2>2, <3>1, <3>3 DEF Registered
    <3>6. OneUnderWay' /\ RegistrationKept'
      BY <3>4, <3>5 DEF OneUnderWay, RegistrationKept, At
    <3>7. QED
      BY <1>1, <2>4, <3>6 DEF EventClean
  <2>5. QED
    BY <1>1, <2>3, <2>4 DEF EventInv
<1>8. QED
  BY <1>4, <1>5, <1>6, <1>7 DEF Goes

\* The daemon starts the timer of the last registration, calls it, and then nothing is
\* under way.
LEMMA EventDaemon ==
  ASSUME EventInv, DaemonCommand \/ pal_os_event_timer_callback \/ Settle
  PROVE  EventInv'
<1>1. CASE DaemonCommand
  <2> DEFINE t == Head(queue)[2]
  <2>1. Head(queue) \in Commands /\ Tail(queue) \in Seq(Commands) /\ t \in Timers
    BY <1>1 DEF DaemonCommand, EventInv, EventShape, Commands
  <2>2. /\ queue' = Tail(queue) /\ UNCHANGED <<event, user, owed, called, crossed>> /\ queue # <<>>
        /\ timer' = [timer EXCEPT ![t] = CASE Head(queue)[1] = "delete" -> "none"
                                           [] timer[t] = "none" -> "none"
                                           [] OTHER -> "running"]
    BY <1>1 DEF DaemonCommand
  <2>3. timer' \in [Timers -> {"none", "dormant", "running"}] /\ Running' \subseteq Running \cup {t}
    BY <2>1, <2>2 DEF Running, EventInv, EventShape
  <2>4. EventShape'
    BY <2>1, <2>2, <2>3 DEF EventInv, EventShape
  <2>5. ASSUME EventClean PROVE EventClean'
    <3>1. Len(queue) = 1 /\ Running = {} /\ \A u \in Users : At(u, "idle")
      BY <2>2, <2>5 DEF EventClean, OneUnderWay
    <3>2. queue' = <<>>
      BY <2>2, <3>1 DEF EventInv, EventShape
    <3>3. Running' # {} => Registered'
      <4>1. Head(queue)[1] = "delete" => Running' = {}
        BY <2>1, <2>2, <3>1 DEF Running, EventInv, EventShape
      <4>2. Head(queue)[1] = "change_period" => Registered
        BY <2>2, <2>5 DEF EventClean, RegistrationKept
      <4>3. QED
        BY <2>1, <2>2, <4>1, <4>2 DEF Registered, Commands
    <3>4. OneUnderWay' /\ RegistrationKept'
      BY <2>2, <2>3, <3>1, <3>2, <3>3 DEF OneUnderWay, RegistrationKept, At
    <3>5. QED
      BY <2>2, <2>5, <3>4 DEF EventClean
  <2>6. QED
    BY <2>2, <2>4, <2>5 DEF EventInv
<1>2. CASE pal_os_event_timer_callback
  <2>1. PICK t \in Timers : timer[t] = "running" /\ timer' = [timer EXCEPT ![t] = "dormant"]
    BY <1>2 DEF pal_os_event_timer_callback
  <2>2. /\ called' = <<event.callback, event.ctx, event.callback \in owed>>
        /\ owed' = owed \ {event.callback} /\ UNCHANGED <<event, queue, user, crossed>>
    BY <1>2 DEF pal_os_event_timer_callback
  <2>3. EventShape' /\ Running' = Running \ {t} /\ t \in Running
    BY <2>1, <2>2 DEF Running, EventInv, EventShape
  <2>4. ASSUME EventClean PROVE EventClean'
    <3>1. Running' = {} /\ Registered /\ queue = <<>>
      BY <2>3, <2>4 DEF EventClean, OneUnderWay, RegistrationKept
    <3>2. \A u \in Users : At(u, "idle")
      BY <2>3, <2>4 DEF EventClean, OneUnderWay
    <3>3. OneUnderWay' /\ RegistrationKept'
      BY <2>2, <3>1, <3>2 DEF OneUnderWay, RegistrationKept, At
    <3>4. called'[1] # NULL /\ called'[1] = called'[2] /\ called'[3]
      BY <2>2, <3>1, UsersAssumption DEF Registered
    <3>5. QED
      BY <3>3, <3>4 DEF EventClean
  <2>5. QED
    BY <2>2, <2>3, <2>4 DEF EventInv
<1>3. CASE Settle
  <2>1. /\ UNCHANGED <<event, timer, queue, user>> /\ owed' = {} /\ called' = Nobody
        /\ queue = <<>> /\ \A u \in Users : At(u, "idle")
    BY <1>3 DEF Settle, UnderWay
  <2>2. Running' = {}
    BY <1>3 DEF Settle, UnderWay, Running
  <2>3. EventShape'
    BY <2>1 DEF EventInv, EventShape
  <2>4. OneUnderWay' /\ RegistrationKept'
    BY <2>1, <2>2 DEF OneUnderWay, RegistrationKept, At
  <2>5. QED
    BY <2>1, <2>3, <2>4 DEF EventInv, EventClean, Nobody, NULL
<1>4. QED
  BY <1>1, <1>2, <1>3

\* Stopping an event leaves its timer and its registration alone, as do other parts.
LEMMA EventUndisturbed ==
  ASSUME EventInv, (\E u \in Users : pal_os_event_stop(u)) \/ UNCHANGED eventVars
  PROVE  EventInv'
<1>1. /\ UNCHANGED <<timer, queue, user, owed, called, crossed>>
      /\ event' = event \/ event' = [event EXCEPT !.triggered = FALSE]
  BY DEF pal_os_event_stop, eventVars
<1>2. EventShape' /\ event'.callback = event.callback /\ event'.ctx = event.ctx
  BY <1>1 DEF EventInv, EventShape
<1>3. EventClean => EventClean'
  BY <1>1, <1>2 DEF EventClean, OneUnderWay, RegistrationKept, Registered, Running, At
<1>4. QED
  BY <1>1, <1>2, <1>3 DEF EventInv

\* A timer calls the callback and the context of one registration, which has not been
\* called yet, for any users, timers and queue length: unless the event was registered or
\* destroyed while an earlier one-shot was under way.
THEOREM EventCorrect == Spec => []CalledAsRegistered
<1>1. EventInv /\ [Next]_vars => EventInv'
  BY EventBegins, EventGoes, EventDaemon, EventUndisturbed DEF Next, EventNext, vars
<1>2. EventInv => CalledAsRegistered
  BY DEF EventInv, EventClean, CalledAsRegistered
<1>3. Init => EventInv
  BY EventInitially DEF Init
<1>4. QED
  BY <1>1, <1>2, <1>3, PTL DEF Spec

-----------------------------------------------------------------------------
(* The lock *)

\* The semaphore exists from the first acquisition on, and it is taken while a task is
\* between taking and giving it.
LockInv ==
  /\ first_call_flag \in {0, 1} /\ xLockSemaphoreHandle \in {"absent", "free", "taken"}
  /\ lock_pc \in [Tasks -> {"idle", "take", "holds"}]
  /\ first_call_flag = 1 => \A t \in Tasks : lock_pc[t] = "idle"
  /\ LockExclusive

\* Nobody is in possession of the lock before the semaphore is made.
LEMMA LockInitially == Init => LockInv
  BY DEF Init, LockInv, LockExclusive, Absent

\* The lock is made once, taken by one task when it is free, and given by its holder.
LEMMA LockStep == ASSUME LockInv, LockNext PROVE LockInv'
<1> PICK t \in Tasks : _lock_init(t) \/ pal_os_lock_acquire(t) \/ pal_os_lock_release(t)
  BY DEF LockNext
<1> USE DEF LockInv, LockExclusive
<1>1. CASE _lock_init(t)
  BY <1>1 DEF _lock_init
<1>2. CASE pal_os_lock_acquire(t)
  BY <1>2 DEF pal_os_lock_acquire
<1>3. CASE pal_os_lock_release(t)
  BY <1>3 DEF pal_os_lock_release
<1>4. QED
  BY <1>1, <1>2, <1>3

\* However many tasks meet at the first call of pal_os_lock_acquire() and at later ones, at
\* most one of them has the lock.
THEOREM LockCorrect == Spec => []LockExclusive
<1>1. LockInv /\ [Next]_vars => LockInv'
  <2> SUFFICES ASSUME LockInv, [Next]_vars PROVE LockInv'
    OBVIOUS
  <2>1. CASE LockNext
    BY <2>1, LockStep
  <2>2. CASE UNCHANGED lockVars
    BY <2>2 DEF lockVars, LockInv, LockExclusive
  <2>3. QED
    BY <2>1, <2>2 DEF Next, vars
<1>2. LockInv => LockExclusive
  BY DEF LockInv
<1>3. QED
  BY <1>1, <1>2, LockInitially, PTL DEF Spec

-----------------------------------------------------------------------------
(* The data store *)

\* The bytes of a store that no unchecked write of another one has run into are the length
\* and the data last written, as far as its room goes; the secret always fits.
Holds(s) ==
  /\ <<memory[base[s]], memory[base[s] + 1]>> = LengthBytes(Len(written[s]))
  /\ \A i \in 1..Len(written[s]) : i <= RoomOf(s) => memory[base[s] + LENGTH_SIZE + i - 1] = written[s][i]
StoreInv ==
  /\ base \in Layouts
  /\ DOMAIN memory = Cells
  /\ written \in [Known -> Seq(Bytes)]
  /\ \A s \in Known : Len(written[s]) < 256 * 256
  /\ Len(written["shared_secret"]) <= SecretMax
  /\ \A s \in Known \ reached : Holds(s)

\* Two bytes hold every length that can be written.
LEMMA TwoBytes ==
  ASSUME NEW length \in Nat, length < 256 * 256
  PROVE  /\ LengthBytes(length)[1] \in Bytes /\ LengthBytes(length)[2] \in Bytes
         /\ 256 * LengthBytes(length)[1] + LengthBytes(length)[2] = length
<1> DEFINE high == length \div 256
           low  == length % 256
<1>1. high \in Nat /\ low \in Nat /\ low < 256 /\ 256 * high + low = length
  <2>1. high \in Int /\ low \in 0..255 /\ length = 256 * high + low
    BY SMTT(30)
  <2>2. high >= 0
    BY <2>1
  <2>3. QED
    BY <2>1, <2>2
<1>2. high < 256
  BY <1>1
<1>3. (length \div 256) % 256 = length \div 256
  BY <1>1, <1>2
<1>4. LengthBytes(length) = <<high, low>>
  <2>1. LengthBytes(length) = <<high % 256, low>>
    BY DEF LengthBytes
  <2>2. QED
    BY <2>1, <1>3
<1> HIDE DEF high, low
<1>5. QED
  BY <1>1, <1>2, <1>4 DEF Bytes

\* The rooms are lengths, and the buffers do not overlap.
LEMMA Rooms ==
  ASSUME base \in Layouts
  PROVE  /\ \A s \in Known : base[s] \in Nat /\ RoomOf(s) \in Nat
         /\ \A s, t \in Known : s # t =>
              Addresses(base[s], RoomOf(s)) \cap Addresses(base[t], RoomOf(t)) = {}
         /\ \A s \in Known : Addresses(base[s], RoomOf(s)) \subseteq Cells
<1>1. \A s \in Known : RoomOf(s) \in Nat
  BY SizesAssumption DEF RoomOf, Known, MANAGE_CONTEXT_BUFFER_SIZE
<1>2. QED
  BY <1>1, LayoutsAssumption, Zenon DEF Cells

\* The default of the shared secret is one that fits.
LEMMA StoreInitially == Init => StoreInv
<1> SUFFICES ASSUME Init PROVE StoreInv
  OBVIOUS
<1>1. base \in Layouts /\ reached = {} /\ DOMAIN memory = Cells
  BY DEF Init
<1>2. DefaultSecret \in Seq(Bytes) /\ Len(DefaultSecret) = 64 /\ <<>> \in Seq(Bytes) /\ Len(<<>>) = 0
  BY DEF DefaultSecret, Bytes
<1>3. written \in [Known -> Seq(Bytes)] /\ "shared_secret" \in Known
      /\ written["shared_secret"] = DefaultSecret
      /\ \A s \in Known : s # "shared_secret" => written[s] = <<>>
  BY <1>2 DEF Init, Known
<1>4. /\ \A s \in Known : Len(written[s]) < 256 * 256
      /\ Len(written["shared_secret"]) <= SecretMax
  <2>1. \A s \in Known : written[s] = DefaultSecret \/ written[s] = <<>>
    BY <1>3
  <2>2. \A s \in Known : Len(written[s]) \in {0, 64}
    BY <1>2, <2>1
  <2>3. Len(written["shared_secret"]) = 64 /\ 64 <= SecretMax
    BY <1>2, <1>3, SizesAssumption
  <2>4. \A n \in {0, 64} : n < 256 * 256
    OBVIOUS
  <2>5. QED
    BY <2>2, <2>3, <2>4
<1>5. ASSUME NEW s \in Known PROVE Holds(s)
  <2> DEFINE first == base["shared_secret"]
  <2>1. base[s] \in Nat /\ RoomOf(s) \in Nat /\ first \in Nat /\ RoomOf("shared_secret") = SecretMax
        /\ Addresses(base[s], RoomOf(s)) \subseteq Cells
    BY <1>1, <1>3, Rooms DEF RoomOf
  <2>2. \A a \in Cells : memory[a] = IF a - first = 1 THEN 64
                                     ELSE IF a - first \in 2..65 THEN DefaultSecret[(a - first) - 1] ELSE 0
    BY DEF Init
  <2>3. {base[s], base[s] + 1} \subseteq Cells
        /\ \A i \in 1..RoomOf(s) : base[s] + LENGTH_SIZE + i - 1 \in Cells
    BY <2>1 DEF Addresses, LENGTH_SIZE
  <2>4. LengthBytes(64) = <<0, 64>> /\ LengthBytes(0) = <<0, 0>>
    BY DEF LengthBytes
  <2>5. CASE s = "shared_secret"
    <3>1. memory[first] = 0 /\ memory[first + 1] = 64
      BY <2>1, <2>2, <2>3, <2>5
    <3>2. ASSUME NEW i \in 1..64 PROVE memory[first + LENGTH_SIZE + i - 1] = DefaultSecret[i]
      BY <2>1, <2>2, <2>3, <2>5, SizesAssumption DEF LENGTH_SIZE
    <3>3. QED
      BY <1>2, <1>3, <2>4, <2>5, <3>1, <3>2 DEF Holds
  <2>6. CASE s # "shared_secret"
    <3>1. Addresses(base[s], RoomOf(s)) \cap Addresses(first, RoomOf("shared_secret")) = {}
      BY <1>1, <1>3, <2>6, Rooms
    <3>2. {base[s], base[s] + 1} \subseteq Addresses(base[s], RoomOf(s))
      BY <2>1 DEF Addresses, LENGTH_SIZE
    <3>3. \A a \in {base[s], base[s] + 1} : a \in Int /\ a - first \notin 1..65
      <4>1. \A a \in Int : a - first \in 1..65 => a \in Addresses(first, RoomOf("shared_secret"))
        BY <2>1, SizesAssumption DEF Addresses, LENGTH_SIZE
      <4>2. QED
        BY <2>1, <3>1, <3>2, <4>1
    <3>4. memory[base[s]] = 0 /\ memory[base[s] + 1] = 0
      BY <2>1, <2>2, <2>3, <3>3
    <3>5. QED
      BY <1>2, <1>3, <2>4, <2>6, <3>4 DEF Holds
  <2>7. QED
    BY <2>5, <2>6
<1>6. QED
  BY <1>1, <1>3, <1>4, <1>5 DEF StoreInv

\* A write leaves its own store right, and every store that it does not run into.
LEMMA WriteKeepsStore == ASSUME StoreInv, pal_os_datastore_write PROVE StoreInv'
<1>1. PICK s \in Stores, data \in Contents :
        LET length == Len(data)
            taken  == Addresses(base[s], length)
        IN  /\ Accepts(s, length)
            /\ memory' = [a \in DOMAIN memory |->
                  LET place == a - base[s]
                  IN  IF a \notin taken THEN memory[a]
                      ELSE IF place < LENGTH_SIZE THEN LengthBytes(length)[place + 1]
                      ELSE data[place - LENGTH_SIZE + 1]]
            /\ written' = [written EXCEPT ![s] = data]
            /\ reached' = (reached \ {s}) \cup
                 {t \in Known \ {s} : s \in Unchecked /\ taken \cap Addresses(base[t], RoomOf(t)) # {}}
  BY DEF pal_os_datastore_write
<1> DEFINE length == Len(data)
           taken  == Addresses(base[s], length)
<1>2. /\ s \in Known /\ (s = "shared_secret" => length <= SecretMax)
      /\ data \in Seq(Bytes) /\ length \in Nat /\ length < 256 * 256
      /\ base' = base /\ base \in Layouts
  BY <1>1, ContentsAssumption DEF Accepts, StoreInv, pal_os_datastore_write
<1>3. /\ \A a \in Cells : memory'[a] = IF a \notin taken THEN memory[a]
                                       ELSE IF a - base[s] < LENGTH_SIZE THEN LengthBytes(length)[(a - base[s]) + 1]
                                       ELSE data[(a - base[s]) - LENGTH_SIZE + 1]
      /\ DOMAIN memory' = Cells
  BY <1>1 DEF StoreInv
<1>4. written'[s] = data /\ \A t \in Known \ {s} : written'[t] = written[t]
  BY <1>1, <1>2 DEF StoreInv
<1>5. written' \in [Known -> Seq(Bytes)]
  BY <1>1, <1>2 DEF StoreInv
<1>6. /\ \A t \in Known : Len(written'[t]) < 256 * 256
      /\ Len(written'["shared_secret"]) <= SecretMax
  BY <1>2, <1>4 DEF StoreInv, Known
<1>7. Cells' = Cells
  BY <1>2 DEF Cells
<1>8. Holds(s)'
  <2>1. base[s] \in Nat /\ RoomOf(s) \in Nat /\ Addresses(base[s], RoomOf(s)) \subseteq Cells
    BY <1>2, Rooms
  <2>2. memory'[base[s]] = LengthBytes(length)[1] /\ memory'[base[s] + 1] = LengthBytes(length)[2]
    <3>1. {base[s], base[s] + 1} \subseteq taken \cap Cells
      BY <1>2, <2>1 DEF Addresses, LENGTH_SIZE
    <3>2. (base[s] - base[s]) + 1 = 1 /\ ((base[s] + 1) - base[s]) + 1 = 2
          /\ base[s] - base[s] < LENGTH_SIZE /\ (base[s] + 1) - base[s] < LENGTH_SIZE
      BY <2>1 DEF LENGTH_SIZE
    <3> HIDE DEF taken
    <3>3. QED
      BY <1>3, <3>1, <3>2
  <2>3. LengthBytes(length) = <<LengthBytes(length)[1], LengthBytes(length)[2]>>
    BY DEF LengthBytes
  <2>4. ASSUME NEW i \in 1..length, i <= RoomOf(s) PROVE memory'[base[s] + LENGTH_SIZE + i - 1] = data[i]
    <3> DEFINE a == base[s] + LENGTH_SIZE + i - 1
    <3>1. i \in Nat /\ 1 <= i /\ i <= length
      BY <1>2, <2>4
    <3> HIDE DEF length
    <3>2. a \in taken /\ ~(a - base[s] < LENGTH_SIZE) /\ (a - base[s]) - LENGTH_SIZE + 1 = i
      <4>1. a = base[s] + i + 1 /\ a \in Int
        BY <2>1, <3>1 DEF LENGTH_SIZE
      <4>2. a \in taken
        BY <1>2, <2>1, <3>1, <4>1 DEF Addresses, LENGTH_SIZE
      <4> HIDE DEF a
      <4>3. QED
        BY <2>1, <3>1, <4>1, <4>2 DEF LENGTH_SIZE
    <3>3. a \in Cells
      BY <2>1, <2>4, <3>1 DEF Addresses, LENGTH_SIZE
    <3> HIDE DEF a, taken
    <3>4. memory'[a] = data[i]
      BY <1>3, <3>2, <3>3
    <3>5. QED
      BY <3>4 DEF a
  <2>5. QED
    BY <1>2, <1>4, <2>2, <2>3, <2>4 DEF Holds
<1>9. ASSUME NEW t \in Known \ {s}, t \notin reached' PROVE Holds(t)'
  <2>1. taken \cap Addresses(base[t], RoomOf(t)) = {}
    <3>1. CASE s \in Unchecked
      BY <1>1, <1>9, <3>1
    <3>2. CASE s = "shared_secret"
      <4>1. base[s] \in Nat /\ RoomOf(s) = SecretMax
        BY <1>2, <3>2, Rooms DEF RoomOf
      <4>2. taken \subseteq Addresses(base[s], RoomOf(s))
        BY <1>2, <3>2, <4>1, SizesAssumption DEF Addresses, LENGTH_SIZE
      <4>3. QED
        BY <1>2, <1>9, <4>2, Rooms
    <3>3. QED
      BY <1>2, <3>1, <3>2 DEF Known, Unchecked
  <2>2. t \notin reached /\ Holds(t)
    BY <1>1, <1>9 DEF StoreInv
  <2>3. base[t] \in Nat /\ RoomOf(t) \in Nat /\ Addresses(base[t], RoomOf(t)) \subseteq Cells
    BY <1>2, <1>9, Rooms
  <2>4. \A a \in Addresses(base[t], RoomOf(t)) : memory'[a] = memory[a]
    <3> HIDE DEF taken
    <3>1. QED
      BY <1>3, <2>1, <2>3
  <2>5. {base[t], base[t] + 1} \subseteq Addresses(base[t], RoomOf(t))
        /\ \A i \in Nat \ {0} : i <= RoomOf(t) => base[t] + LENGTH_SIZE + i - 1 \in Addresses(base[t], RoomOf(t))
    BY <2>3 DEF Addresses, LENGTH_SIZE
  <2>6. \A i \in 1..Len(written[t]) : i \in Nat \ {0}
    BY DEF StoreInv
  <2>7. QED
    BY <1>2, <1>4, <1>9, <2>2, <2>4, <2>5, <2>6 DEF Holds
<1>10. \A t \in Known \ reached' : Holds(t)'
  BY <1>8, <1>9
<1>11. QED
  BY <1>2, <1>3, <1>5, <1>6, <1>7, <1>10 DEF StoreInv

\* A store that holds what was written, in its room, gives it back.
LEMMA ReadGivesWritten ==
  ASSUME StoreInv, NEW s \in Known, s \notin reached, ~Overlong(s)
  PROVE  pal_os_datastore_read(s) = <<"ok", written[s]>>
<1> DEFINE n == Len(written[s])
<1>1. written[s] \in Seq(Bytes) /\ n \in Nat /\ n < 256 * 256 /\ Holds(s)
  BY DEF StoreInv
<1>2. 256 * memory[base[s]] + memory[base[s] + 1] = n
  <2>1. memory[base[s]] = LengthBytes(n)[1] /\ memory[base[s] + 1] = LengthBytes(n)[2]
    BY <1>1 DEF Holds
  <2>2. QED
    BY <1>1, <2>1, TwoBytes
<1>3. base[s] \in Nat /\ RoomOf(s) \in Nat /\ Addresses(base[s], RoomOf(s)) \subseteq Cells
  BY Rooms DEF StoreInv
<1>4. n <= RoomOf(s) /\ Accepts(s, n)
  BY <1>1, <1>3 DEF StoreInv, Overlong, Unchecked, Known, RoomOf, Accepts
<1>5. ASSUME NEW i \in 1..n
      PROVE  base[s] + LENGTH_SIZE + i - 1 \in DOMAIN memory
             /\ memory[base[s] + LENGTH_SIZE + i - 1] = written[s][i]
  <2>1. i <= RoomOf(s)
    BY <1>1, <1>3, <1>4
  <2>2. base[s] + LENGTH_SIZE + i - 1 \in Addresses(base[s], RoomOf(s))
    BY <1>3, <2>1 DEF Addresses, LENGTH_SIZE
  <2>3. QED
    BY <1>1, <1>3, <2>1, <2>2 DEF Holds, StoreInv
<1>6. written[s] = [i \in 1..n |-> written[s][i]]
  BY <1>1
<1> HIDE DEF n
<1>7. pal_os_datastore_read(s) =
        <<"ok", [i \in 1..n |-> LET a == base[s] + LENGTH_SIZE + i - 1
                                IN  IF a \in DOMAIN memory THEN memory[a] ELSE Unknown]>>
  BY <1>2, <1>4 DEF pal_os_datastore_read
<1>8. [i \in 1..n |-> LET a == base[s] + LENGTH_SIZE + i - 1
                      IN  IF a \in DOMAIN memory THEN memory[a] ELSE Unknown]
        = [i \in 1..n |-> written[s][i]]
  BY <1>5
<1>9. QED
  BY <1>6, <1>7, <1>8

\* Wherever the three buffers lie and whatever their sizes, a store gives back what was last
\* accepted, unless the data of an unchecked write had no room, in it or in a store before
\* it; the shared secret, whose length is checked, never harms another store.
THEOREM DatastoreCorrect == Spec => []DatastoreRoundTrip
<1>1. StoreInv /\ [Next]_vars => StoreInv'
  <2> SUFFICES ASSUME StoreInv, [Next]_vars PROVE StoreInv'
    OBVIOUS
  <2>1. CASE pal_os_datastore_write
    BY <2>1, WriteKeepsStore
  <2>2. CASE UNCHANGED storeVars
    BY <2>2 DEF storeVars, StoreInv, Holds, Cells
  <2>3. QED
    BY <2>1, <2>2 DEF Next, vars
<1>2. StoreInv => DatastoreRoundTrip
  <2> SUFFICES ASSUME StoreInv, NEW s \in Stores
               PROVE  IF s \in Known
                      THEN s \in reached \/ Overlong(s) \/ pal_os_datastore_read(s) = <<"ok", written[s]>>
                      ELSE pal_os_datastore_read(s)[1] = "failure"
    BY DEF DatastoreRoundTrip
  <2>1. CASE s \in Known
    BY <2>1, ReadGivesWritten
  <2>2. CASE s \notin Known
    BY <2>2 DEF pal_os_datastore_read
  <2>3. QED
    BY <2>1, <2>2
<1>3. QED
  BY <1>1, <1>2, StoreInitially, PTL DEF Spec
=============================================================================
