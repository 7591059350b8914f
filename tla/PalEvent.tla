------------------------------- MODULE PalEvent -------------------------------
(***************************************************************************)
(* The events of the OPTIGA PAL (pal_os_event.c): one static context,      *)
(* whoever creates an event, and a one-shot FreeRTOS timer that calls back *)
(* whatever is registered in it when it expires.                           *)
(*                                                                         *)
(* External: the timer daemon carries out the commands of its queue in     *)
(* order, and the callback of an expired timer; it shares a priority with  *)
(* the callers, which it may interrupt between any two writes.             *)
(***************************************************************************)
EXTENDS Naturals, Sequences

CONSTANTS
  Users,        \* layers of the stack that register a callback, each with its context
  Timers,       \* handles that xTimerCreate() can return
  QueueLength   \* configTIMER_QUEUE_LENGTH
NULL == "NULL"
ASSUME UsersAssumption  == NULL \notin Users
ASSUME TimersAssumption == Timers \subseteq Nat \ {0} /\ QueueLength \in Nat \ {0}

VARIABLES
  event,       \* pal_os_event_ctx: callback_registered, callback_ctx, is_event_triggered, os_timer
  timer,       \* the timers: "none", "dormant" or "running"
  queue,       \* commands to the timer daemon
  user,        \* where each user is
  owed,        \* the last registration, until its callback is called
  called,      \* the last call of a timer: callback, context, and whether it was owed
  crossed      \* registered or destroyed while an earlier one-shot was under way

eventVars == <<event, timer, queue, user, owed, called, crossed>>

Nobody == <<"nobody", "nobody", TRUE>>
Pcs == {"idle", "write_ctx", "change_period", "init_ctx", "init_timer"}

EventInit ==
  /\ event = [callback |-> NULL, ctx |-> NULL, triggered |-> FALSE, os_timer |-> 0]
  /\ timer = [t \in Timers |-> "none"]
  /\ queue = <<>>
  /\ user = [u \in Users |-> [pc |-> "idle", start |-> FALSE]]
  /\ owed = {}
  /\ called = Nobody
  /\ crossed = FALSE

At(u, pc)       == user[u].pc = pc
Goto(u, pc)     == user' = [user EXCEPT ![u].pc = pc]
GotoStart(u, s) == user' = [user EXCEPT ![u] = s]
\* An event that is destroyed is not used before one is created again.
Alive == /\ event.os_timer # 0 /\ timer[event.os_timer] # "none"
         /\ <<"delete", event.os_timer>> \notin {queue[i] : i \in 1..Len(queue)}
UnderWay        == queue # <<>> \/ (\E t \in Timers : timer[t] = "running") \/ (\E u \in Users : ~At(u, "idle"))

\* pal_os_event_create() with a callback and its context, or with NULL for both:
\* pal_os_event_init(), write by write, then pal_os_event_start().
pal_os_event_create(u) ==
  /\ At(u, "idle")
  /\ \E start \in BOOLEAN :
       /\ event' = [event EXCEPT !.callback = IF start THEN u ELSE NULL]
       /\ GotoStart(u, [pc |-> "init_ctx", start |-> start])
  /\ crossed' = (crossed \/ UnderWay)
  /\ owed' = {} /\ called' = Nobody
  /\ UNCHANGED <<timer, queue>>
InitCtx(u) ==
  /\ At(u, "init_ctx")
  /\ event' = [event EXCEPT !.ctx = IF user[u].start THEN u ELSE NULL, !.triggered = FALSE]
  /\ Goto(u, "init_timer")
  /\ UNCHANGED <<timer, queue, owed, called, crossed>>
\* The new timer replaces the handle of an earlier one, which is not deleted.
InitTimer(u) ==
  /\ At(u, "init_timer")
  /\ \/ /\ \E t \in Timers : /\ timer[t] = "none"
                             /\ timer' = [timer EXCEPT ![t] = "dormant"]
                             /\ event' = [event EXCEPT !.os_timer = t,
                                                       !.triggered = user[u].start,
                                                       !.callback = IF user[u].start THEN u ELSE @]
        /\ GotoStart(u, [pc |-> IF user[u].start THEN "write_ctx" ELSE "idle", start |-> FALSE])
        /\ owed' = IF user[u].start THEN {u} ELSE owed
     \/ GotoStart(u, [pc |-> "idle", start |-> FALSE]) /\ UNCHANGED <<timer, event, owed>> \* no timer: create returns NULL
  /\ UNCHANGED <<queue, called, crossed>>

\* pal_os_event_register_callback_oneshot(): the callback, its context, the timer; and
\* pal_os_event_start(), which does it only for an event that is not triggered.
Register(u, start) ==
  /\ At(u, "idle") /\ Alive
  /\ event' = [event EXCEPT !.callback = u, !.triggered = start \/ @]
  /\ Goto(u, "write_ctx")
  /\ crossed' = (crossed \/ UnderWay)
  /\ owed' = {u} /\ called' = Nobody
  /\ UNCHANGED <<timer, queue>>
pal_os_event_register_callback_oneshot(u) == Register(u, FALSE)
pal_os_event_start(u) == ~event.triggered /\ Register(u, TRUE)

WriteCtx(u) ==
  /\ At(u, "write_ctx")
  /\ event' = [event EXCEPT !.ctx = u]
  /\ Goto(u, "change_period")
  /\ UNCHANGED <<timer, queue, owed, called, crossed>>
\* xTimerChangePeriod() does not wait for room in the queue, and its result is not looked at.
ChangePeriod(u) ==
  /\ At(u, "change_period")
  /\ queue' = IF Len(queue) < QueueLength THEN Append(queue, <<"change_period", event.os_timer>>) ELSE queue
  /\ owed' = IF Len(queue) < QueueLength THEN owed ELSE {}
  /\ Goto(u, "idle")
  /\ UNCHANGED <<event, timer, called, crossed>>

\* pal_os_event_stop() does not touch the timer; pal_os_event_destroy() deletes it.
pal_os_event_stop(u) ==
  /\ At(u, "idle") /\ event.triggered
  /\ event' = [event EXCEPT !.triggered = FALSE]
  /\ UNCHANGED <<timer, queue, user, owed, called, crossed>>
pal_os_event_destroy(u) ==
  /\ At(u, "idle") /\ Alive
  /\ Len(queue) < QueueLength
  /\ event' = [event EXCEPT !.triggered = FALSE]
  /\ queue' = Append(queue, <<"delete", event.os_timer>>)
  /\ crossed' = (crossed \/ UnderWay)
  /\ owed' = {}
  /\ UNCHANGED <<timer, user, called>>

\* The timer daemon.
DaemonCommand ==
  /\ queue # <<>>
  /\ LET t == Head(queue)[2]
     IN  timer' = [timer EXCEPT ![t] = CASE Head(queue)[1] = "delete" -> "none"
                                         [] timer[t] = "none" -> "none"
                                         [] OTHER -> "running"]
  /\ queue' = Tail(queue)
  /\ UNCHANGED <<event, user, owed, called, crossed>>
TimerReloads == \* mutant: the timer is created with automatic reload
  /\ \E t \in Timers : timer[t] = "running"
  /\ called' = <<event.callback, event.ctx, event.callback \in owed>>
  /\ owed' = owed \ {event.callback}
  /\ UNCHANGED <<event, timer, queue, user, crossed>>
pal_os_event_timer_callback ==
  /\ \E t \in Timers : timer[t] = "running" /\ timer' = [timer EXCEPT ![t] = "dormant"]
  /\ called' = <<event.callback, event.ctx, event.callback \in owed>>
  /\ owed' = owed \ {event.callback}
  /\ UNCHANGED <<event, queue, user, crossed>>
\* Once no timer runs, a registration starts from a clean state again.
Settle ==
  /\ crossed /\ ~UnderWay
  /\ crossed' = FALSE /\ called' = Nobody /\ owed' = {}
  /\ UNCHANGED <<event, timer, queue, user>>

Goes(u) == InitCtx(u) \/ InitTimer(u) \/ WriteCtx(u) \/ ChangePeriod(u)
EventNext ==
  \/ \E u \in Users : \/ pal_os_event_create(u) \/ pal_os_event_register_callback_oneshot(u) \/ pal_os_event_start(u)
                      \/ Goes(u) \/ pal_os_event_stop(u) \/ pal_os_event_destroy(u)
  \/ DaemonCommand \/ pal_os_event_timer_callback \/ Settle

EventFairness ==
  /\ \A u \in Users : WF_eventVars(Goes(u))
  /\ WF_eventVars(DaemonCommand) /\ WF_eventVars(pal_os_event_timer_callback)
-----------------------------------------------------------------------------
EventTypeOK ==
  /\ event \in [callback : Users \cup {NULL}, ctx : Users \cup {NULL}, triggered : BOOLEAN,
                os_timer : Timers \cup {0}]
  /\ timer \in [Timers -> {"none", "dormant", "running"}]
  /\ Len(queue) <= QueueLength /\ \A i \in 1..Len(queue) : queue[i] \in {"change_period", "delete"} \X Timers
  /\ user \in [Users -> [pc : Pcs, start : BOOLEAN]]
  /\ owed \subseteq Users /\ crossed \in BOOLEAN

\* The callback that the timer calls is one that was registered and has not been called
\* since, and it gets the context that was registered with it: unless the event was
\* registered or destroyed while an earlier one-shot was under way, which
\* pal_os_event_stop() does not prevent.
CalledAsRegistered ==
  crossed \/ (called[1] # NULL /\ called[1] = called[2] /\ called[3])

\* The last registration is called in any case, when the timer queue takes the command.
RegisteredIsCalled == \A u \in Users : u \in owed ~> u \notin owed
=============================================================================
