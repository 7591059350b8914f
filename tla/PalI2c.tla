-------------------------------- MODULE PalI2c --------------------------------
(***************************************************************************)
(* The I2C bus of the OPTIGA PAL (pal_i2c.c, pal.c): one semaphore, one    *)
(* current context, and a task at the highest priority that hands the      *)
(* result of each transfer to the handler of the current context.          *)
(*                                                                         *)
(* External: the I2C master of the HAL ends each transfer it has started   *)
(* with one interrupt; the protocol stack above opens and closes the PAL   *)
(* when no transfer is under way, and calls pal_init() before anything     *)
(* else.  Its callers are tasks of one lower priority and the handlers     *)
(* themselves.                                                             *)
(***************************************************************************)
EXTENDS Naturals, FiniteSets

CONSTANTS Contexts, None
ASSUME ContextsAssumption == None \notin Contexts /\ IsFiniteSet(Contexts)

VARIABLES
  xIicSemaphoreHandle,    \* "absent", "free" or "taken"
  i2c_taskhandle,         \* the task exists
  g_pal_i2c_init_flag,
  gp_pal_i2c_current_ctx,
  hal,         \* the HAL's I2C master is initialised
  transfer,    \* the transfer the HAL is carrying out: its context, or None
  notified,    \* events notified to the task and not yet taken
  i2c_pc,      \* where i2c_task() is
  caller,      \* where the caller of each context is
  awaiting,    \* contexts with a transfer that was accepted and not answered
  stray,       \* an answer went to a context that waited for none
  freed        \* pal_i2c_deinit() has freed the HAL's master

i2cVars == <<xIicSemaphoreHandle, i2c_taskhandle, g_pal_i2c_init_flag, gp_pal_i2c_current_ctx,
             hal, transfer, notified, i2c_pc, caller, awaiting, stray, freed>>
setup == <<i2c_taskhandle, g_pal_i2c_init_flag, hal, freed>>

Events == {"ERR", "WR_CMPLT", "RD_CMPLT"}

I2cInit ==
  /\ xIicSemaphoreHandle = "absent"
  /\ i2c_taskhandle = FALSE
  /\ g_pal_i2c_init_flag = 0
  /\ gp_pal_i2c_current_ctx = None
  /\ hal = FALSE
  /\ transfer = None
  /\ notified = {}
  /\ i2c_pc = "wait"
  /\ caller = [c \in Contexts |-> "idle"]
  /\ awaiting = {}
  /\ stray = FALSE
  /\ freed = FALSE

Quiet == transfer = None /\ notified = {} /\ i2c_pc = "wait" /\ \A c \in Contexts : caller[c] = "idle"
\* The task preempts its callers.
CallersRun == i2c_pc = "wait" /\ (notified = {} \/ ~i2c_taskhandle)
Hold(c, pc) == caller' = [caller EXCEPT ![c] = pc]

pal_i2c_acquire == xIicSemaphoreHandle = "free" /\ xIicSemaphoreHandle' = "taken"
pal_i2c_release == xIicSemaphoreHandle' = "free"

\* pal_i2c_init(): the first call makes semaphore and task, whatever context it is given;
\* a later one with a context initialises the HAL.  (With NULL it may then only come when
\* the flag is set: without it the context is dereferenced.)
InitFirst ==
  /\ Quiet /\ ~i2c_taskhandle
  /\ \/ i2c_taskhandle' = TRUE /\ pal_i2c_release
     \/ i2c_taskhandle' = FALSE /\ xIicSemaphoreHandle' = "taken" \* the task is not created
  /\ UNCHANGED <<g_pal_i2c_init_flag, gp_pal_i2c_current_ctx, hal, transfer, notified, i2c_pc, caller,
                 awaiting, stray, freed>>
InitHal ==
  /\ Quiet /\ i2c_taskhandle /\ g_pal_i2c_init_flag = 0
  /\ \/ g_pal_i2c_init_flag' = 1 /\ hal' = TRUE
     \/ UNCHANGED <<g_pal_i2c_init_flag, hal>> \* the HAL fails
  /\ UNCHANGED <<xIicSemaphoreHandle, i2c_taskhandle, gp_pal_i2c_current_ctx, transfer, notified, i2c_pc,
                 caller, awaiting, stray, freed>>

\* pal_i2c_deinit() with a context and, from pal_deinit(), without.
DeinitContext ==
  /\ Quiet /\ g_pal_i2c_init_flag = 1
  /\ hal' = FALSE /\ freed' = TRUE
  /\ UNCHANGED <<xIicSemaphoreHandle, i2c_taskhandle, g_pal_i2c_init_flag, gp_pal_i2c_current_ctx, transfer,
                 notified, i2c_pc, caller, awaiting, stray>>
DeinitNull ==
  /\ Quiet /\ i2c_taskhandle
  /\ i2c_taskhandle' = FALSE /\ xIicSemaphoreHandle' = "absent"
  /\ UNCHANGED <<g_pal_i2c_init_flag, gp_pal_i2c_current_ctx, hal, transfer, notified, i2c_pc, caller,
                 awaiting, stray, freed>>

\* pal_i2c_write() and pal_i2c_read(): take the bus or report BUSY; then start the transfer,
\* or report ERROR and give the bus back.
AcquireNot(c) == \* mutant: a bus that is taken is not found busy
  xIicSemaphoreHandle # "absent" /\ xIicSemaphoreHandle' = "taken" /\ Hold(c, "acquired")
Acquire(c) ==
  \/ pal_i2c_acquire /\ Hold(c, "acquired")
  \/ xIicSemaphoreHandle = "taken" /\ UNCHANGED <<xIicSemaphoreHandle, caller>>
BeginEarly(c) == \* mutant: the current context is set before the bus is taken
  /\ CallersRun /\ i2c_taskhandle /\ hal /\ caller[c] = "idle" /\ c \notin awaiting
  /\ Acquire(c)
  /\ gp_pal_i2c_current_ctx' = c
  /\ UNCHANGED <<transfer, notified, i2c_pc, awaiting, stray, setup>>
Begin(c) ==
  /\ CallersRun /\ i2c_taskhandle /\ hal /\ caller[c] = "idle" /\ c \notin awaiting
  /\ Acquire(c)
  /\ UNCHANGED <<gp_pal_i2c_current_ctx, transfer, notified, i2c_pc, awaiting, stray, setup>>

StartTransfer(c) ==
  /\ CallersRun /\ caller[c] = "acquired"
  /\ gp_pal_i2c_current_ctx' = c
  /\ \/ transfer' = c /\ awaiting' = awaiting \cup {c} /\ Hold(c, "idle")
     \/ UNCHANGED <<transfer, awaiting>> /\ Hold(c, "release") \* the HAL refuses: handler with ERROR
  /\ UNCHANGED <<xIicSemaphoreHandle, notified, i2c_pc, stray, setup>>

\* pal_i2c_set_bitrate() sets the divider, calls the handler, and gives the bus back.
pal_i2c_set_bitrate(c) ==
  /\ CallersRun /\ caller[c] = "acquired"
  /\ Hold(c, "release")
  /\ UNCHANGED <<xIicSemaphoreHandle, gp_pal_i2c_current_ctx, transfer, notified, i2c_pc, awaiting, stray, setup>>

ReleaseBus(c) ==
  /\ CallersRun /\ caller[c] = "release"
  /\ pal_i2c_release /\ Hold(c, "idle")
  /\ UNCHANGED <<gp_pal_i2c_current_ctx, transfer, notified, i2c_pc, awaiting, stray, setup>>

\* The interrupt at the end of a transfer; an error may come with a completion.
i2c_master_event_handler ==
  /\ transfer # None
  /\ \E events \in SUBSET Events : events # {} /\ notified' = notified \cup events
  /\ transfer' = None
  /\ UNCHANGED <<xIicSemaphoreHandle, gp_pal_i2c_current_ctx, i2c_pc, caller, awaiting, stray, setup>>

\* i2c_task(): the result to the handler of the current context; then the bus is released.
\* A transfer that the handler starts itself finds the bus taken and is reported BUSY.
AnswerNoError == \* mutant: an error is not reported
  /\ i2c_taskhandle /\ i2c_pc = "wait" /\ notified # {}
  /\ i2c_pc' = "release" /\ notified' = {}
  /\ IF "ERR" \in notified THEN UNCHANGED <<awaiting, stray>>
     ELSE /\ stray' = (stray \/ gp_pal_i2c_current_ctx \notin awaiting)
          /\ awaiting' = awaiting \ {gp_pal_i2c_current_ctx}
  /\ UNCHANGED <<xIicSemaphoreHandle, gp_pal_i2c_current_ctx, transfer, caller, setup>>
Answer ==
  /\ i2c_taskhandle /\ i2c_pc = "wait" /\ notified # {}
  /\ i2c_pc' = "release" /\ notified' = {}
  /\ stray' = (stray \/ gp_pal_i2c_current_ctx \notin awaiting)
  /\ awaiting' = awaiting \ {gp_pal_i2c_current_ctx}
  /\ UNCHANGED <<xIicSemaphoreHandle, gp_pal_i2c_current_ctx, transfer, caller, setup>>
Release ==
  /\ i2c_pc = "release"
  /\ pal_i2c_release /\ i2c_pc' = "wait"
  /\ UNCHANGED <<gp_pal_i2c_current_ctx, transfer, notified, caller, awaiting, stray, setup>>

I2cNext ==
  \/ InitFirst \/ InitHal \/ DeinitContext \/ DeinitNull
  \/ \E c \in Contexts : Begin(c) \/ StartTransfer(c) \/ pal_i2c_set_bitrate(c) \/ ReleaseBus(c)
  \/ i2c_master_event_handler \/ Answer \/ Release

\* A caller that has the bus goes on; the HAL ends every transfer; the task runs first.
I2cFairness ==
  /\ \A c \in Contexts : WF_i2cVars(StartTransfer(c) \/ pal_i2c_set_bitrate(c) \/ ReleaseBus(c))
  /\ WF_i2cVars(i2c_master_event_handler)
  /\ WF_i2cVars(Answer \/ Release)
-----------------------------------------------------------------------------
I2cTypeOK ==
  /\ xIicSemaphoreHandle \in {"absent", "free", "taken"}
  /\ i2c_taskhandle \in BOOLEAN /\ hal \in BOOLEAN /\ stray \in BOOLEAN /\ freed \in BOOLEAN
  /\ g_pal_i2c_init_flag \in {0, 1}
  /\ gp_pal_i2c_current_ctx \in Contexts \cup {None} /\ transfer \in Contexts \cup {None}
  /\ notified \subseteq Events
  /\ i2c_pc \in {"wait", "release"}
  /\ caller \in [Contexts -> {"idle", "acquired", "release"}]
  /\ awaiting \subseteq Contexts

\* Who has the bus: a caller between taking it and starting the transfer or giving it back,
\* a transfer that runs or has ended, or the task that has answered it.  There is one of
\* them at a time, and the semaphore is free exactly when there is none.
Holders == {c \in Contexts : caller[c] # "idle"}
             \cup (IF transfer # None \/ notified # {} \/ i2c_pc = "release" THEN {None} ELSE {})
BusHeldOnce ==
  /\ \A g, h \in Holders : g = h
  /\ i2c_taskhandle => (xIicSemaphoreHandle = "free" <=> Holders = {})

\* The current context is a global: still the result of each transfer goes to the context
\* that started it, once, and no context that waits is overwritten by another.
AnsweredToOwner ==
  /\ ~stray
  /\ awaiting # {} => awaiting = {gp_pal_i2c_current_ctx}

\* The flag stands for an initialised HAL up to the first pal_i2c_deinit() with a context.
\* That call does not reset it: from then on no pal_i2c_init() initialises the HAL again, in
\* whatever order the calls come.
HalReady ==
  /\ hal <=> g_pal_i2c_init_flag = 1 /\ ~freed
  /\ freed => g_pal_i2c_init_flag = 1

\* The bus as its callers see it: free, held by a caller, carrying out the transfer of the
\* current context, or on its way back after the answer.
Stage ==
  IF \E c \in Contexts : caller[c] # "idle" THEN "call"
  ELSE IF transfer # None \/ notified # {} THEN "transfer"
  ELSE IF i2c_pc = "release" THEN "answered" ELSE "free"
Holder ==
  IF Stage = "call" THEN CHOOSE c \in Contexts : caller[c] # "idle"
  ELSE IF Stage = "free" THEN None ELSE gp_pal_i2c_current_ctx
Bus == INSTANCE BusService WITH holder <- Holder, stage <- Stage, waiting <- awaiting

\* Semaphore, global context, interrupt and task together implement a bus that serves one
\* context from taking it to its answer, whatever calls come in between.
ImplementsBusService == Bus!Spec

\* Every accepted transfer is answered, and the bus does not stay taken.
TransferAnswered == \A c \in Contexts : c \in awaiting ~> c \notin awaiting
BusComesFree == (i2c_taskhandle /\ xIicSemaphoreHandle = "taken") ~> xIicSemaphoreHandle # "taken"
=============================================================================
