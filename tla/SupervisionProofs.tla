-------------------------- MODULE SupervisionProofs --------------------------
(***************************************************************************)
(* The application implements module Supervision, for every value of the   *)
(* constants: its steps map to steps of the abstract specification, or     *)
(* change nothing that it sees.  And, from the same invariants:            *)
(* publisher_init() and publisher_deinit() always find the button as they  *)
(* need it, although their commands wait in publisher_task_q among publish *)
(* commands.                                                               *)
(***************************************************************************)
EXTENDS MqttAppProofs

-----------------------------------------------------------------------------
(* Which calls are made before, and which after, both tasks are created *)

ConnectFrame ==
  mqtt_pc \in MqttConnectPcs \/ (mqtt_pc \in WifiConnectPcs /\ wifi_caller = "mqtt_connect")

Phases ==
  /\ mqtt_pc \in StartupPcs => ~Tasks
  /\ mqtt_pc \in {"receive"} \union RecoveryPcs => Tasks
  /\ mqtt_pc \in WifiConnectPcs /\ wifi_caller = "startup" => ~Tasks
  /\ mqtt_pc \in WifiConnectPcs /\ wifi_caller = "recovery" => Tasks
  /\ mqtt_pc \in WifiConnectPcs /\ wifi_caller = "recovery" => mqtt_caller = "recovery"
  /\ ConnectFrame => (Tasks <=> mqtt_caller = "recovery")

LEMMA InitPhases == Init => Phases
BY DEF Init, MqttInit, PubInit, Phases, ConnectFrame, Tasks, StartupPcs, RecoveryPcs,
       WifiConnectPcs, MqttConnectPcs

\* Nothing but CreatePublisher changes whether the tasks exist.
LEMMA TasksKept ==
  ASSUME [Next]_vars, ~CreatePublisher PROVE Tasks' <=> Tasks
<1>1. CASE MqttTask
  BY <1>1 DEF Tasks, pubVars, MqttTask, MqttTaskStep, MqttCreateQueue, WcmInit, MqttLibInit, MqttMalloc, MqttCreate,
         Acquire, MqttRegisterCallback, CreateSubscriber, CreatePublisher,
         WifiConnectEnter, WifiConnectApSucceeds, WifiConnectApFails, MqttConnectClientId,
         MqttConnectApCheck, MqttConnectSucceeds, MqttConnectFails, MqttConnectLoadFlags,
         MqttConnectStoreSuccess, StoreFlags, MqttReceive, SendDeinit, MqttDisconnect,
         RecoveryApCheck, SendSubscribe, SendInit, SendToPublisher, MqttTaskHalts,
         DeleteSubscriber, DeletePublisher, CleanupDisconnect, CleanupDelete, CleanupFree,
         CleanupDeinit, CleanupWifi, CleanupWcm, Release
<1>2. CASE Publisher
  BY <1>2 DEF Tasks, Publisher, PublisherStep, PublisherStart, PublisherCreateQueue,
              PublisherReceive, PublisherInit, PublisherDeinit, PublishSucceeds, PublishFails,
              ReportPublishFailure
<1>3. CASE UNCHANGED pubVars
  BY <1>3 DEF Tasks, pubVars
<1> QED
  BY <1>1, <1>2, <1>3 DEF Next, Callback, CallbackStep, Subscriber, Press, ButtonPress, Network, vars

\* A step of anyone else leaves the client task where it is.
LEMMA OthersKeepFrames ==
  ASSUME [Next]_vars, ~MqttTask PROVE UNCHANGED <<mqtt_pc, wifi_caller, mqtt_caller>>
BY DEF Next, Callback, CallbackStep, frames, Subscriber, Publisher, Press, Network, vars, mqttVars

LEMMA NextPhases == TypeOK /\ Phases /\ [Next]_vars => Phases'
<1> SUFFICES ASSUME TypeOK, Phases, [Next]_vars PROVE Phases'
  OBVIOUS
<1>0. wifi_caller \in {"startup", "recovery", "mqtt_connect"} /\ mqtt_caller \in {"startup", "recovery"}
  BY DEF TypeOK, MqttTypeOK
<1>1. CASE CreatePublisher
  BY <1>1 DEF CreatePublisher, Goto, frames, Phases, ConnectFrame, Tasks, StartupPcs, RecoveryPcs,
              WifiConnectPcs, MqttConnectPcs
<1>2. CASE MqttTask /\ ~CreatePublisher
  <2>1. Tasks' <=> Tasks
    BY <1>2, TasksKept
  <2>2. CASE WifiConnectEnter \/ WifiConnectApSucceeds \/ WifiConnectApFails
    BY <1>0, <2>1, <2>2 DEF WifiConnectEnter, WifiConnectApSucceeds, WifiConnectApFails,
         WifiConnectReturns, Goto, Phases, ConnectFrame, StartupPcs, RecoveryPcs,
         WifiConnectPcs, MqttConnectPcs
  <2>3. CASE ~(WifiConnectEnter \/ WifiConnectApSucceeds \/ WifiConnectApFails)
    BY <1>0, <1>2, <2>1, <2>3
       DEF MqttTask, MqttTaskStep, MqttCreateQueue, WcmInit, MqttLibInit, MqttMalloc, MqttCreate,
         Acquire, MqttRegisterCallback, CreateSubscriber, CreatePublisher,
         WifiConnectEnter, WifiConnectApSucceeds, WifiConnectApFails, MqttConnectClientId,
         MqttConnectApCheck, MqttConnectSucceeds, MqttConnectFails, MqttConnectLoadFlags,
         MqttConnectStoreSuccess, StoreFlags, MqttReceive, SendDeinit, MqttDisconnect,
         RecoveryApCheck, SendSubscribe, SendInit, SendToPublisher, MqttTaskHalts,
         DeleteSubscriber, DeletePublisher, CleanupDisconnect, CleanupDelete, CleanupFree,
         CleanupDeinit, CleanupWifi, CleanupWcm, Release,
         Goto, CallWifiConnect, CallMqttConnect, frames, Phases, ConnectFrame, StartupPcs,
         RecoveryPcs, WifiConnectPcs, MqttConnectPcs
  <2> QED
    BY <2>2, <2>3
<1>3. CASE ~MqttTask
  <2>1. UNCHANGED <<mqtt_pc, wifi_caller, mqtt_caller>>
    BY <1>3, OthersKeepFrames
  <2>2. Tasks' <=> Tasks
    BY <2>1, TasksKept DEF CreatePublisher, Goto
  <2> QED
    BY <2>1, <2>2 DEF Phases, ConnectFrame
<1> QED
  BY <1>1, <1>2, <1>3

-----------------------------------------------------------------------------
(* The refinement *)

IInv == TypeOK /\ Accounted /\ Phases

LEMMA InvariantHolds == Spec => []IInv
<1>1. Init => IInv
  BY InitTypeOK, InitAccounted, InitPhases DEF IInv
<1>2. IInv /\ [Next]_vars => IInv'
  BY NextTypeOK, NextAccounted, NextPhases DEF IInv
<1> QED
  BY <1>1, <1>2, PTL DEF Spec

LEMMA InitRefines == Init => Supervised!Init
BY DEF Init, MqttInit, PubInit, Supervised!Init, Conn, Tasks, ExitPcs, ConnectingPcs

\* The value of Conn in terms of who holds the connection.
LEMMA ConnByHolder ==
  /\ mqtt_pc \in ExitPcs => Conn = "terminated"
  /\ InTask /\ Tasks => Conn = "recovering"
  /\ InTask /\ ~Tasks => Conn = "starting"
  /\ mqtt_pc \notin ExitPcs /\ ~InTask /\ session_up => Conn = "online"
  /\ mqtt_pc \notin ExitPcs /\ ~InTask /\ ~session_up => Conn = "lost"
  /\ mqtt_pc \in ExitPcs => ~InTask
BY DEF Conn, InTask, ExitPcs, ConnectingPcs, WifiConnectPcs

LEMMA ConnByHolderNext ==
  /\ mqtt_pc' \in ExitPcs => Conn' = "terminated"
  /\ InTask' /\ Tasks' => Conn' = "recovering"
  /\ InTask' /\ ~Tasks' => Conn' = "starting"
  /\ mqtt_pc' \notin ExitPcs /\ ~InTask' /\ session_up' => Conn' = "online"
  /\ mqtt_pc' \notin ExitPcs /\ ~InTask' /\ ~session_up' => Conn' = "lost"
BY DEF Conn, InTask, ExitPcs, ConnectingPcs, WifiConnectPcs

LEMMA NextRefines == IInv /\ [Next]_vars => [Supervised!Next]_(Supervised!vars)
<1> SUFFICES ASSUME IInv, [Next]_vars PROVE [Supervised!Next]_(Supervised!vars)
  OBVIOUS
<1> USE ConnByHolder, ConnByHolderNext
<1>0. TypeOK /\ Accounted /\ Phases
  BY DEF IInv
<1>1. CASE CreatePublisher
  <2>1. mqtt_pc = "create_publisher" /\ session_up' = session_up
    BY <1>1 DEF CreatePublisher, queuesAndNet, netVars
  <2>2. /\ ~Tasks /\ ~InTask /\ mqtt_pc \notin ExitPcs
    BY <1>0, <2>1 DEF Phases, StartupPcs, InTask, ConnectingPcs, WifiConnectPcs, ExitPcs
  <2>3. CASE pub_pc' = "start" /\ mqtt_pc' = "receive"
    <3>1. Tasks' /\ ~InTask' /\ mqtt_pc' \notin ExitPcs
      BY <2>3 DEF Tasks, InTask, ConnectingPcs, WifiConnectPcs, ExitPcs
    <3> QED
      BY <2>1, <2>2, <3>1 DEF Supervised!Next, Supervised!StartTasks
  <2>4. CASE pub_pc' = pub_pc /\ mqtt_pc' = "exit_cleanup"
    <3>1. Tasks' = Tasks /\ mqtt_pc' \in ExitPcs
      BY <2>2, <2>4 DEF Tasks, ExitPcs
    <3> QED
      BY <2>1, <2>2, <3>1 DEF Supervised!Next, Supervised!Abort
  <2> QED
    BY <1>1, <2>3, <2>4 DEF CreatePublisher, Goto
<1>2. CASE ~CreatePublisher
  <2>0. Tasks' <=> Tasks
    BY <1>2, TasksKept
  <2>1. Tasks' = Tasks
    BY <2>0 DEF Tasks
  <2>2. CASE CreateSubscriber
    <3>1. mqtt_pc = "create_subscriber" /\ session_up' = session_up
          /\ mqtt_pc' \in {"create_publisher", "exit_cleanup"}
      BY <2>2 DEF CreateSubscriber, Goto, queuesAndNet, netVars
    <3>2. ~Tasks /\ ~InTask /\ mqtt_pc \notin ExitPcs
      BY <1>0, <3>1 DEF Phases, StartupPcs, InTask, ConnectingPcs, WifiConnectPcs, ExitPcs
    <3>3. CASE mqtt_pc' = "create_publisher"
      <4>1. ~InTask' /\ mqtt_pc' \notin ExitPcs
        BY <3>3 DEF InTask, ConnectingPcs, WifiConnectPcs, ExitPcs
      <4>2. Conn' = Conn
        BY <3>1, <3>2, <4>1
      <4> QED
        BY <2>1, <4>2 DEF Supervised!vars
    <3>4. CASE mqtt_pc' = "exit_cleanup"
      <4>1. mqtt_pc' \in ExitPcs
        BY <3>4 DEF ExitPcs
      <4>2. Conn \in {"online", "lost"} /\ Conn' = "terminated"
        BY <3>2, <4>1
      <4> QED
        BY <2>1, <3>2, <4>2 DEF Supervised!Next, Supervised!Abort
    <3> QED
      BY <3>1, <3>3, <3>4
  <2>3. CASE MqttReceive
    <3>1. mqtt_pc = "receive" /\ session_up' = session_up /\ Tasks
          /\ mqtt_pc' = IF Head(mqtt_task_q) = "HANDLE_DISCONNECTION" THEN "send_deinit" ELSE "receive"
      BY <1>0, <2>3 DEF MqttReceive, Goto, netVars, Phases
    <3>2. ~InTask /\ mqtt_pc \notin ExitPcs
      BY <3>1 DEF InTask, ConnectingPcs, WifiConnectPcs, ExitPcs
    <3>3. CASE Head(mqtt_task_q) = "HANDLE_DISCONNECTION"
      <4>1. InTask'
        BY <3>1, <3>3 DEF InTask, ConnectingPcs
      <4>2. InQueue
        <5>1. mqtt_task_q \in Seq(MqttTaskCmd) /\ mqtt_task_q # <<>>
          BY <1>0, <2>3 DEF TypeOK, PlatformTypeOK, MqttReceive
        <5> QED
          BY <5>1, <3>3 DEF InQueue, Contains
      <4>3. ~session_up
        BY <1>0, <4>2 DEF Accounted
      <4> QED
        BY <2>1, <3>1, <3>2, <4>1, <4>3 DEF Supervised!Next, Supervised!BeginRecovery
    <3>4. CASE Head(mqtt_task_q) # "HANDLE_DISCONNECTION"
      <4>1. mqtt_pc' = mqtt_pc
        BY <3>1, <3>4
      <4> QED
        BY <2>1, <3>1, <4>1 DEF Supervised!vars, Conn
    <3> QED
      BY <3>3, <3>4
  <2>4. CASE MqttConnectSucceeds
    <3>1. InTask /\ ~InTask' /\ session_up' /\ mqtt_pc' \notin ExitPcs
      BY <2>4 DEF MqttConnectSucceeds, Goto, InTask, ConnectingPcs, WifiConnectPcs, ExitPcs
    <3> QED
      BY <2>1, <3>1 DEF Supervised!Next, Supervised!GoOnline
  <2>5. CASE MqttDisconnect
    <3>1. InTask /\ InTask'
      BY <2>5 DEF MqttDisconnect, Goto, InTask, ConnectingPcs
    <3> QED
      BY <2>1, <3>1 DEF Supervised!vars
  <2>6. CASE CleanupDisconnect
    <3>1. mqtt_pc \in ExitPcs /\ mqtt_pc' \in ExitPcs
      BY <2>6 DEF CleanupDisconnect, Goto, ExitPcs
    <3> QED
      BY <2>1, <3>1 DEF Supervised!vars
  <2>7. CASE MqttTaskOtherwise /\ ~CreateSubscriber
    <3>1. session_up' = session_up
      BY <2>7 DEF MqttTaskOtherwise, MqttTaskStep, MqttCreateQueue, WcmInit, MqttLibInit, MqttMalloc, MqttCreate,
         Acquire, MqttRegisterCallback, CreateSubscriber, CreatePublisher,
         WifiConnectEnter, WifiConnectApSucceeds, WifiConnectApFails, MqttConnectClientId,
         MqttConnectApCheck, MqttConnectSucceeds, MqttConnectFails, MqttConnectLoadFlags,
         MqttConnectStoreSuccess, StoreFlags, MqttReceive, SendDeinit, MqttDisconnect,
         RecoveryApCheck, SendSubscribe, SendInit, SendToPublisher, MqttTaskHalts,
         DeleteSubscriber, DeletePublisher, CleanupDisconnect, CleanupDelete, CleanupFree,
         CleanupDeinit, CleanupWifi, CleanupWcm, Release,
         queuesAndNet, netVars
    <3>2. /\ InTask' => InTask
          /\ InTask => InTask' \/ mqtt_pc' \in ExitPcs
          /\ mqtt_pc \in ExitPcs => mqtt_pc' \in ExitPcs
      BY <1>0, <2>7, MqttTaskMoves
    <3>3. mqtt_pc' \in ExitPcs => mqtt_pc \in ExitPcs \/ InTask
      BY <1>2, <2>7 DEF MqttTaskOtherwise, MqttTaskStep, MqttCreateQueue, WcmInit, MqttLibInit, MqttMalloc, MqttCreate,
         Acquire, MqttRegisterCallback, CreateSubscriber, CreatePublisher,
         WifiConnectEnter, WifiConnectApSucceeds, WifiConnectApFails, MqttConnectClientId,
         MqttConnectApCheck, MqttConnectSucceeds, MqttConnectFails, MqttConnectLoadFlags,
         MqttConnectStoreSuccess, StoreFlags, MqttReceive, SendDeinit, MqttDisconnect,
         RecoveryApCheck, SendSubscribe, SendInit, SendToPublisher, MqttTaskHalts,
         DeleteSubscriber, DeletePublisher, CleanupDisconnect, CleanupDelete, CleanupFree,
         CleanupDeinit, CleanupWifi, CleanupWcm, Release,
         CallWifiConnect, CallMqttConnect, WifiConnectReturns, Goto, InTask, ConnectingPcs,
         WifiConnectPcs, ExitPcs
    <3>4. CASE InTask /\ ~InTask'
      BY <2>1, <3>2, <3>4 DEF Supervised!Next, Supervised!GiveUp
    <3>5. CASE InTask <=> InTask'
      BY <2>1, <3>1, <3>2, <3>3, <3>5 DEF Supervised!vars
    <3> QED
      BY <3>2, <3>4, <3>5
  <2>8. CASE Network /\ LoseSession
    <3>1. session_up /\ ~session_up' /\ mqtt_pc' = mqtt_pc
      BY <2>8 DEF Network, mqttVars, LoseSession
    <3>2. ~InTask /\ ~InTask'
      BY <1>0, <3>1 DEF Accounted, InTask
    <3> QED
      BY <2>1, <3>1, <3>2 DEF Supervised!Next, Supervised!LoseSession, Supervised!vars
  <2>9. CASE UNCHANGED <<mqtt_pc, session_up>>
    BY <2>1, <2>9 DEF Conn, Supervised!vars
  <2>10. CASE ~MqttTask /\ ~(Network /\ LoseSession)
    <3>1. UNCHANGED <<mqtt_pc, session_up>>
      BY <2>10 DEF Next, vars, mqttVars, netVars, Callback, CallbackStep, Subscriber, Publisher,
         Press, ButtonPress, Network, WifiDrops, WifiRejoins, SessionDrops, KeepAliveExpires,
         ForeignMessage, CallbackEnter, CallbackClearFlag, CallbackSendDisconnection,
         CallbackSetFlag, SubscriptionCallbackSend, SubscriptionCallbackHalts,
         SubscriberStep, SubscribeSucceeds, SubscribeFails, ReportSubscribeFailure,
         SubscriberInitLed, SubscriberCreateQueue, SubscriberReceive, SubscriberWriteLed,
         SubscriberWriteState, PublisherStep, PublisherStart, PublisherCreateQueue,
         PublisherReceive, PublisherInit, PublisherDeinit, PublishSucceeds, PublishFails,
         ReportPublishFailure
    <3> QED
      BY <2>9, <3>1
  <2> QED
    BY <2>2, <2>3, <2>4, <2>5, <2>6, <2>7, <2>8, <2>10 DEF MqttTask, MqttTaskOtherwise
<1> QED
  BY <1>1, <1>2

\* The client task's connection life cycle, behind queues, callbacks, flags and
\* retries, is that of module Supervision: one recovery per loss, each ending in
\* a new session or in termination, and no other way to end once both tasks run.
THEOREM SupervisionRefined == Spec => ImplementsSupervision
<1>1. Init => Supervised!Init
  BY InitRefines
<1>2. IInv /\ [Next]_vars => [Supervised!Next]_(Supervised!vars)
  BY NextRefines
<1> QED
  BY <1>1, <1>2, InvariantHolds, PTL DEF Spec, ImplementsSupervision, Supervised!Spec

-----------------------------------------------------------------------------
(* Sequences of commands *)

Configures == {"PUBLISHER_INIT", "PUBLISHER_DEINIT"}

Other(cmd) == IF cmd = "PUBLISHER_INIT" THEN "PUBLISHER_DEINIT" ELSE "PUBLISHER_INIT"

\* Leaving publish commands aside, the commands of q alternate and begin with `first`.
InTurn(q, first) ==
  /\ \A i \in 1..Len(q) :
       q[i].cmd \in Configures /\ (\A k \in 1..(i - 1) : q[k].cmd \notin Configures) => q[i].cmd = first
  /\ \A i, j \in 1..Len(q) :
       /\ i < j /\ q[i].cmd \in Configures /\ q[j].cmd \in Configures
       /\ \A k \in (i + 1)..(j - 1) : q[k].cmd \notin Configures
       => q[i].cmd # q[j].cmd

\* The command to follow those in q is `next`.
FollowedBy(q, first, next) ==
  /\ \A i \in 1..Len(q) :
       q[i].cmd \in Configures /\ (\A k \in (i + 1)..Len(q) : q[k].cmd \notin Configures) => q[i].cmd # next
  /\ (\A i \in 1..Len(q) : q[i].cmd \notin Configures) => first = next

LEMMA AppendElements ==
  ASSUME NEW q \in Seq(PublisherData), NEW x \in PublisherData
  PROVE  /\ Len(q) \in Nat /\ Len(Append(q, x)) = Len(q) + 1
         /\ Append(q, x)[Len(q) + 1] = x
         /\ \A i \in 1..Len(q) : Append(q, x)[i] = q[i]
OBVIOUS

LEMMA TailElements ==
  ASSUME NEW q \in Seq(PublisherData), q # <<>>
  PROVE  /\ Len(q) \in Nat \ {0} /\ Len(Tail(q)) = Len(q) - 1
         /\ Head(q) = q[1]
         /\ \A i \in 1..(Len(q) - 1) : Tail(q)[i] = q[i + 1]
OBVIOUS

LEMMA AppendPublishInTurn ==
  ASSUME NEW q \in Seq(PublisherData), NEW x \in PublisherData, x.cmd \notin Configures,
         NEW first, InTurn(q, first)
  PROVE  InTurn(Append(q, x), first)
<1> DEFINE r == Append(q, x)
<1>1. /\ Len(q) \in Nat /\ Len(r) = Len(q) + 1 /\ r[Len(q) + 1] = x
      /\ \A i \in 1..Len(q) : r[i] = q[i]
  BY AppendElements
<1> HIDE DEF r
<1>2. \A i \in 1..Len(r) : r[i].cmd \in Configures => i \in 1..Len(q)
  BY <1>1
<1>3. ASSUME NEW i \in 1..Len(r), r[i].cmd \in Configures,
             \A k \in 1..(i - 1) : r[k].cmd \notin Configures
      PROVE  r[i].cmd = first
  <2>1. i \in 1..Len(q) /\ \A k \in 1..(i - 1) : k \in 1..Len(q)
    BY <1>1, <1>2, <1>3
  <2> QED
    BY <1>1, <1>3, <2>1 DEF InTurn
<1>4. ASSUME NEW i \in 1..Len(r), NEW j \in 1..Len(r), i < j, r[i].cmd \in Configures,
             r[j].cmd \in Configures, \A k \in (i + 1)..(j - 1) : r[k].cmd \notin Configures
      PROVE  r[i].cmd # r[j].cmd
  <2>1. i \in 1..Len(q) /\ j \in 1..Len(q) /\ \A k \in (i + 1)..(j - 1) : k \in 1..Len(q)
    BY <1>1, <1>2, <1>4
  <2> QED
    BY <1>1, <1>4, <2>1 DEF InTurn
<1> QED
  BY <1>3, <1>4 DEF InTurn, r

LEMMA AppendPublishFollowedBy ==
  ASSUME NEW q \in Seq(PublisherData), NEW x \in PublisherData, x.cmd \notin Configures,
         NEW first, NEW next, FollowedBy(q, first, next)
  PROVE  FollowedBy(Append(q, x), first, next)
BY AppendElements DEF FollowedBy

LEMMA AppendConfigureInTurn ==
  ASSUME NEW q \in Seq(PublisherData), NEW x \in PublisherData, NEW first,
         InTurn(q, first), FollowedBy(q, first, x.cmd)
  PROVE  InTurn(Append(q, x), first)
<1> DEFINE r == Append(q, x)
<1>1. /\ Len(q) \in Nat /\ Len(r) = Len(q) + 1 /\ r[Len(q) + 1] = x
      /\ \A i \in 1..Len(q) : r[i] = q[i]
  BY AppendElements
<1> HIDE DEF r
<1>2. ASSUME NEW i \in 1..Len(r), r[i].cmd \in Configures,
             \A k \in 1..(i - 1) : r[k].cmd \notin Configures
      PROVE  r[i].cmd = first
  <2>1. CASE i \in 1..Len(q)
    <3>1. \A k \in 1..(i - 1) : k \in 1..Len(q)
      BY <1>1, <2>1
    <3> QED
      BY <1>1, <1>2, <2>1, <3>1 DEF InTurn
  <2>2. CASE i = Len(q) + 1
    <3>1. \A k \in 1..Len(q) : q[k].cmd \notin Configures
      BY <1>1, <1>2, <2>2
    <3> QED
      BY <1>1, <2>2, <3>1 DEF FollowedBy
  <2> QED
    BY <1>1, <2>1, <2>2
<1>3. ASSUME NEW i \in 1..Len(r), NEW j \in 1..Len(r), i < j, r[i].cmd \in Configures,
             r[j].cmd \in Configures, \A k \in (i + 1)..(j - 1) : r[k].cmd \notin Configures
      PROVE  r[i].cmd # r[j].cmd
  <2>1. i \in 1..Len(q)
    BY <1>1, <1>3
  <2>2. CASE j \in 1..Len(q)
    <3>1. \A k \in (i + 1)..(j - 1) : k \in 1..Len(q)
      BY <1>1, <2>1, <2>2
    <3> QED
      BY <1>1, <1>3, <2>1, <2>2, <3>1 DEF InTurn
  <2>3. CASE j = Len(q) + 1
    <3>1. \A k \in (i + 1)..Len(q) : k \in 1..Len(q) /\ k \in (i + 1)..(j - 1)
      BY <1>1, <2>1, <2>3
    <3>2. \A k \in (i + 1)..Len(q) : q[k].cmd \notin Configures
      BY <1>1, <1>3, <3>1
    <3> QED
      BY <1>1, <1>3, <2>1, <2>3, <3>2 DEF FollowedBy
  <2> QED
    BY <1>1, <2>2, <2>3
<1> QED
  BY <1>2, <1>3 DEF InTurn, r

LEMMA AppendConfigureFollowedBy ==
  ASSUME NEW q \in Seq(PublisherData), NEW x \in PublisherData, x.cmd \in Configures, NEW first
  PROVE  FollowedBy(Append(q, x), first, Other(x.cmd))
BY AppendElements DEF FollowedBy, Configures, Other

LEMMA TailPublishInTurn ==
  ASSUME NEW q \in Seq(PublisherData), q # <<>>, Head(q).cmd \notin Configures,
         NEW first, InTurn(q, first)
  PROVE  InTurn(Tail(q), first)
<1> DEFINE t == Tail(q)
<1>1. /\ Len(q) \in Nat \ {0} /\ Len(t) = Len(q) - 1 /\ Head(q) = q[1]
      /\ \A i \in 1..(Len(q) - 1) : t[i] = q[i + 1]
  BY TailElements
<1> HIDE DEF t
<1>2. ASSUME NEW i \in 1..Len(t), t[i].cmd \in Configures,
             \A k \in 1..(i - 1) : t[k].cmd \notin Configures
      PROVE  t[i].cmd = first
  <2>1. i + 1 \in 1..Len(q) /\ t[i] = q[i + 1]
    BY <1>1
  <2>2. \A k \in 1..((i + 1) - 1) : q[k].cmd \notin Configures
    <3> SUFFICES ASSUME NEW k \in 1..((i + 1) - 1), k # 1 PROVE q[k].cmd \notin Configures
      BY <1>1
    <3>1. k - 1 \in 1..(i - 1) /\ k - 1 \in 1..(Len(q) - 1) /\ (k - 1) + 1 = k
      BY <1>1
    <3> QED
      BY <1>1, <1>2, <3>1
  <2> QED
    BY <1>2, <2>1, <2>2 DEF InTurn
<1>3. ASSUME NEW i \in 1..Len(t), NEW j \in 1..Len(t), i < j, t[i].cmd \in Configures,
             t[j].cmd \in Configures, \A k \in (i + 1)..(j - 1) : t[k].cmd \notin Configures
      PROVE  t[i].cmd # t[j].cmd
  <2>1. i + 1 \in 1..Len(q) /\ j + 1 \in 1..Len(q) /\ i + 1 < j + 1
    BY <1>1, <1>3
  <2>2. \A k \in ((i + 1) + 1)..((j + 1) - 1) : q[k].cmd \notin Configures
    <3> SUFFICES ASSUME NEW k \in ((i + 1) + 1)..((j + 1) - 1) PROVE q[k].cmd \notin Configures
      OBVIOUS
    <3>1. k - 1 \in (i + 1)..(j - 1) /\ k - 1 \in 1..(Len(q) - 1) /\ (k - 1) + 1 = k
      BY <1>1, <1>3
    <3> QED
      BY <1>1, <1>3, <3>1
  <2>3. t[i] = q[i + 1] /\ t[j] = q[j + 1]
    BY <1>1
  <2> QED
    BY <1>3, <2>1, <2>2, <2>3 DEF InTurn
<1> QED
  BY <1>2, <1>3 DEF InTurn, t

LEMMA TailPublishFollowedBy ==
  ASSUME NEW q \in Seq(PublisherData), q # <<>>, Head(q).cmd \notin Configures,
         NEW first, NEW next, FollowedBy(q, first, next)
  PROVE  FollowedBy(Tail(q), first, next)
<1> DEFINE t == Tail(q)
<1>1. /\ Len(q) \in Nat \ {0} /\ Len(t) = Len(q) - 1 /\ Head(q) = q[1]
      /\ \A i \in 1..(Len(q) - 1) : t[i] = q[i + 1]
  BY TailElements
<1> HIDE DEF t
<1>2. ASSUME NEW i \in 1..Len(t), t[i].cmd \in Configures,
             \A k \in (i + 1)..Len(t) : t[k].cmd \notin Configures
      PROVE  t[i].cmd # next
  <2>1. i + 1 \in 1..Len(q) /\ t[i] = q[i + 1]
    BY <1>1
  <2>2. \A k \in ((i + 1) + 1)..Len(q) : q[k].cmd \notin Configures
    <3> SUFFICES ASSUME NEW k \in ((i + 1) + 1)..Len(q) PROVE q[k].cmd \notin Configures
      OBVIOUS
    <3>1. k - 1 \in (i + 1)..Len(t) /\ k - 1 \in 1..(Len(q) - 1) /\ (k - 1) + 1 = k
      BY <1>1
    <3> QED
      BY <1>1, <1>2, <3>1
  <2> QED
    BY <1>2, <2>1, <2>2 DEF FollowedBy
<1>3. ASSUME \A i \in 1..Len(t) : t[i].cmd \notin Configures PROVE first = next
  <2>1. \A i \in 1..Len(q) : i # 1 => q[i].cmd \notin Configures
    <3> SUFFICES ASSUME NEW i \in 1..Len(q), i # 1 PROVE q[i].cmd \notin Configures
      OBVIOUS
    <3>1. i - 1 \in 1..Len(t) /\ i - 1 \in 1..(Len(q) - 1) /\ (i - 1) + 1 = i
      BY <1>1
    <3> QED
      BY <1>1, <1>3, <3>1
  <2> QED
    BY <1>1, <2>1 DEF FollowedBy
<1> QED
  BY <1>2, <1>3 DEF FollowedBy, t

LEMMA TailConfigureInTurn ==
  ASSUME NEW q \in Seq(PublisherData), q # <<>>, Head(q).cmd \in Configures,
         NEW first, InTurn(q, first)
  PROVE  Head(q).cmd = first /\ InTurn(Tail(q), Other(first))
<1> DEFINE t == Tail(q)
<1>1. /\ Len(q) \in Nat \ {0} /\ Len(t) = Len(q) - 1 /\ Head(q) = q[1]
      /\ \A i \in 1..(Len(q) - 1) : t[i] = q[i + 1]
  BY TailElements
<1> HIDE DEF t
<1>4. q[1].cmd = first /\ first \in Configures
  <2>1. 1 \in 1..Len(q) /\ \A k \in 1..(1 - 1) : q[k].cmd \notin Configures
    BY <1>1
  <2> QED
    BY <1>1, <2>1 DEF InTurn
<1>2. ASSUME NEW i \in 1..Len(t), t[i].cmd \in Configures,
             \A k \in 1..(i - 1) : t[k].cmd \notin Configures
      PROVE  t[i].cmd = Other(first)
  <2>1. 1 \in 1..Len(q) /\ i + 1 \in 1..Len(q) /\ 1 < i + 1 /\ t[i] = q[i + 1]
    BY <1>1
  <2>2. \A k \in (1 + 1)..((i + 1) - 1) : q[k].cmd \notin Configures
    <3> SUFFICES ASSUME NEW k \in (1 + 1)..((i + 1) - 1) PROVE q[k].cmd \notin Configures
      OBVIOUS
    <3>1. k - 1 \in 1..(i - 1) /\ k - 1 \in 1..(Len(q) - 1) /\ (k - 1) + 1 = k
      BY <1>1
    <3> QED
      BY <1>1, <1>2, <3>1
  <2>3. q[1].cmd # q[i + 1].cmd
    BY <1>2, <1>4, <2>1, <2>2 DEF InTurn
  <2> QED
    BY <1>2, <1>4, <2>1, <2>3 DEF Configures, Other
<1>3. ASSUME NEW i \in 1..Len(t), NEW j \in 1..Len(t), i < j, t[i].cmd \in Configures,
             t[j].cmd \in Configures, \A k \in (i + 1)..(j - 1) : t[k].cmd \notin Configures
      PROVE  t[i].cmd # t[j].cmd
  <2>1. i + 1 \in 1..Len(q) /\ j + 1 \in 1..Len(q) /\ i + 1 < j + 1
    BY <1>1, <1>3
  <2>2. \A k \in ((i + 1) + 1)..((j + 1) - 1) : q[k].cmd \notin Configures
    <3> SUFFICES ASSUME NEW k \in ((i + 1) + 1)..((j + 1) - 1) PROVE q[k].cmd \notin Configures
      OBVIOUS
    <3>1. k - 1 \in (i + 1)..(j - 1) /\ k - 1 \in 1..(Len(q) - 1) /\ (k - 1) + 1 = k
      BY <1>1, <1>3
    <3> QED
      BY <1>1, <1>3, <3>1
  <2>3. t[i] = q[i + 1] /\ t[j] = q[j + 1]
    BY <1>1
  <2> QED
    BY <1>3, <2>1, <2>2, <2>3 DEF InTurn
<1> QED
  BY <1>1, <1>2, <1>3, <1>4 DEF InTurn, t

LEMMA TailConfigureFollowedBy ==
  ASSUME NEW q \in Seq(PublisherData), q # <<>>, Head(q).cmd \in Configures,
         NEW first, NEW next \in Configures, InTurn(q, first), FollowedBy(q, first, next)
  PROVE  FollowedBy(Tail(q), Other(first), next)
<1> DEFINE t == Tail(q)
<1>1. /\ Len(q) \in Nat \ {0} /\ Len(t) = Len(q) - 1 /\ Head(q) = q[1]
      /\ \A i \in 1..(Len(q) - 1) : t[i] = q[i + 1]
  BY TailElements
<1> HIDE DEF t
<1>2. ASSUME NEW i \in 1..Len(t), t[i].cmd \in Configures,
             \A k \in (i + 1)..Len(t) : t[k].cmd \notin Configures
      PROVE  t[i].cmd # next
  <2>1. i + 1 \in 1..Len(q) /\ t[i] = q[i + 1]
    BY <1>1
  <2>2. \A k \in ((i + 1) + 1)..Len(q) : q[k].cmd \notin Configures
    <3> SUFFICES ASSUME NEW k \in ((i + 1) + 1)..Len(q) PROVE q[k].cmd \notin Configures
      OBVIOUS
    <3>1. k - 1 \in (i + 1)..Len(t) /\ k - 1 \in 1..(Len(q) - 1) /\ (k - 1) + 1 = k
      BY <1>1
    <3> QED
      BY <1>1, <1>2, <3>1
  <2> QED
    BY <1>2, <2>1, <2>2 DEF FollowedBy
<1>3. ASSUME \A i \in 1..Len(t) : t[i].cmd \notin Configures PROVE Other(first) = next
  <2>1. \A i \in 1..Len(q) : i # 1 => q[i].cmd \notin Configures
    <3> SUFFICES ASSUME NEW i \in 1..Len(q), i # 1 PROVE q[i].cmd \notin Configures
      OBVIOUS
    <3>1. i - 1 \in 1..Len(t) /\ i - 1 \in 1..(Len(q) - 1) /\ (i - 1) + 1 = i
      BY <1>1
    <3> QED
      BY <1>1, <1>3, <3>1
  <2>2. q[1].cmd = first /\ first \in Configures
    BY <1>1, TailConfigureInTurn
  <2>3. q[1].cmd # next
    <3>1. 1 \in 1..Len(q) /\ \A k \in (1 + 1)..Len(q) : k \in 1..Len(q) /\ k # 1
      BY <1>1
    <3> QED
      BY <2>1, <2>2, <3>1 DEF FollowedBy
  <2> QED
    BY <2>2, <2>3 DEF Configures, Other
<1> QED
  BY <1>2, <1>3 DEF FollowedBy, t

-----------------------------------------------------------------------------
(* The invariant *)

\* The configuring command the publisher is to get next, as far as it has come.
Awaited ==
  IF pub_pc \in {"start", "init"} \/ (button = "armed" /\ pub_pc # "deinit")
  THEN "PUBLISHER_DEINIT" ELSE "PUBLISHER_INIT"

\* The one the client task is to send next.
Upcoming == IF mqtt_pc \in {"receive", "send_deinit"} THEN "PUBLISHER_DEINIT" ELSE "PUBLISHER_INIT"

Alive == pub_pc \notin {"none", "deleted"}

ButtonInv ==
  /\ pub_pc = "none" => button = "free" /\ publisher_task_q = <<>>
  /\ pub_pc \in {"start", "init"} => button = "free"
  /\ pub_pc = "deinit" => button = "armed"
  /\ pub_pc = "deleted" => mqtt_pc \in ExitPcs
  /\ Alive => InTurn(publisher_task_q, Awaited)
  /\ Alive /\ mqtt_pc \notin ExitPcs => FollowedBy(publisher_task_q, Awaited, Upcoming)

\* A step that leaves the publisher and its queue alone.
LEMMA SameButton ==
  ASSUME ButtonInv, UNCHANGED <<pub_pc, button, publisher_task_q>>,
         mqtt_pc \in ExitPcs => mqtt_pc' \in ExitPcs,
         Alive => mqtt_pc' \in ExitPcs \/ Upcoming' = Upcoming
  PROVE  ButtonInv'
<1>1. Awaited' = Awaited /\ (Alive' <=> Alive)
  BY DEF Awaited, Alive
<1> QED
  BY <1>1 DEF ButtonInv, Alive

\* The steps of the publisher that do not take a command.
LEMMA PublisherWorks ==
  ASSUME TypeOK, ButtonInv, Publisher, ~PublisherReceive PROVE ButtonInv'
<1>1. /\ mqtt_pc' = mqtt_pc /\ publisher_task_q' = publisher_task_q
      /\ Alive /\ Alive' /\ Awaited' = Awaited
      /\ pub_pc' \notin {"none", "deleted", "start", "init", "deinit"}
  BY DEF Publisher, mqttVars, PublisherStep, PublisherStart, PublisherCreateQueue, PublisherInit,
         PublisherDeinit, PublishSucceeds, PublishFails, ReportPublishFailure, queueVars,
         publisher_init, publisher_deinit, Alive, Awaited, ButtonInv
<1>2. Upcoming' = Upcoming
  BY <1>1 DEF Upcoming
<1> QED
  BY <1>1, <1>2 DEF ButtonInv

LEMMA PublisherTakes ==
  ASSUME TypeOK, ButtonInv, Publisher, PublisherReceive PROVE ButtonInv'
<1> DEFINE q == publisher_task_q
<1>1. /\ pub_pc = "receive" /\ q # <<>> /\ q' = Tail(q) /\ button' = button /\ mqtt_pc' = mqtt_pc
      /\ \/ Head(q).cmd = "PUBLISHER_INIT" /\ pub_pc' = "init"
         \/ Head(q).cmd = "PUBLISHER_DEINIT" /\ pub_pc' = "deinit"
         \/ Head(q).cmd = "PUBLISH_MQTT_MSG" /\ pub_pc' = "publish"
  BY DEF PublisherReceive, Publisher, mqttVars
<1>2. q \in Seq(PublisherData) /\ button \in {"free", "armed"}
  BY DEF TypeOK, PlatformTypeOK, PubTypeOK
<1>3. /\ InTurn(q, Awaited)
      /\ mqtt_pc \notin ExitPcs => FollowedBy(q, Awaited, Upcoming)
  BY <1>1 DEF ButtonInv, Alive
<1>4. Upcoming' = Upcoming /\ Upcoming \in Configures
  BY <1>1 DEF Upcoming, Configures
<1>5. CASE Head(q).cmd = "PUBLISH_MQTT_MSG" /\ pub_pc' = "publish"
  <2>1. Head(q).cmd \notin Configures
    BY <1>5 DEF Configures
  <2>2. Awaited' = Awaited
    BY <1>1, <1>5 DEF Awaited
  <2>3. InTurn(Tail(q), Awaited)
    BY <1>1, <1>2, <1>3, <2>1, TailPublishInTurn
  <2>4. mqtt_pc \notin ExitPcs => FollowedBy(Tail(q), Awaited, Upcoming)
    BY <1>1, <1>2, <1>3, <2>1, TailPublishFollowedBy
  <2> QED
    BY <1>1, <1>4, <1>5, <2>2, <2>3, <2>4 DEF ButtonInv, Alive
<1>6. CASE Head(q).cmd \in Configures
  <2>1. Head(q).cmd = Awaited /\ InTurn(Tail(q), Other(Awaited))
    BY <1>1, <1>2, <1>3, <1>6, TailConfigureInTurn
  <2>2. mqtt_pc \notin ExitPcs => FollowedBy(Tail(q), Other(Awaited), Upcoming)
    BY <1>1, <1>2, <1>3, <1>4, <1>6, TailConfigureFollowedBy
  <2>3. /\ pub_pc' = "init" => button = "free"
        /\ pub_pc' = "deinit" => button = "armed"
        /\ pub_pc' \in {"init", "deinit"}
    BY <1>1, <1>2, <1>6, <2>1 DEF Awaited, Configures
  <2>4. Awaited' = Other(Awaited)
    BY <1>1, <2>1, <2>3 DEF Awaited, Other
  <2> QED
    BY <1>1, <1>4, <2>1, <2>2, <2>3, <2>4 DEF ButtonInv, Alive
<1> QED
  BY <1>1, <1>5, <1>6 DEF Configures

\* A press adds a publish command, or is lost.
LEMMA PressInTurn ==
  ASSUME TypeOK, ButtonInv, Press PROVE ButtonInv'
<1> DEFINE q == publisher_task_q
           x == [cmd |-> "PUBLISH_MQTT_MSG", data |-> Opposite(current_device_state)]
<1>1. /\ UNCHANGED <<mqtt_pc, pub_pc, button>> /\ button = "armed"
      /\ q' = q \/ q' = Append(q, x)
  BY DEF Press, ButtonPress, isr_button_press, mqttVars, pubVars
<1>2. CASE q' = q
  BY <1>1, <1>2, SameButton DEF Upcoming
<1>3. CASE q' = Append(q, x)
  <2>1. q \in Seq(PublisherData) /\ x \in PublisherData /\ x.cmd \notin Configures
    BY DEF TypeOK, PlatformTypeOK, SubTypeOK, Opposite, DeviceState, PublisherData, Configures
  <2>2. /\ Awaited' = Awaited /\ Upcoming' = Upcoming /\ (Alive' <=> Alive)
    BY <1>1 DEF Awaited, Upcoming, Alive
  <2>3. Alive => InTurn(Append(q, x), Awaited)
    BY <2>1, AppendPublishInTurn DEF ButtonInv
  <2>4. Alive /\ mqtt_pc \notin ExitPcs => FollowedBy(Append(q, x), Awaited, Upcoming)
    BY <2>1, AppendPublishFollowedBy DEF ButtonInv
  <2> QED
    BY <1>1, <1>3, <2>2, <2>3, <2>4 DEF ButtonInv
<1> QED
  BY <1>1, <1>2, <1>3

\* The client task sends the command it has upcoming.
LEMMA SendsInTurn ==
  ASSUME TypeOK, Phases, ButtonInv, SendDeinit \/ SendInit PROVE ButtonInv'
<1> DEFINE q == publisher_task_q
           x == [cmd |-> Upcoming, data |-> "none"]
<1>1. /\ UNCHANGED <<pub_pc, button>> /\ q' = Append(q, x)
      /\ Upcoming' = Other(Upcoming) /\ mqtt_pc \in RecoveryPcs
      /\ mqtt_pc \notin ExitPcs
  BY DEF SendDeinit, SendInit, SendToPublisher, Goto, pubVars, Upcoming, Other, RecoveryPcs, ExitPcs
<1>2. Alive
  BY <1>1 DEF Phases, Tasks, Alive, ButtonInv
<1>3. /\ q \in Seq(PublisherData) /\ x \in PublisherData /\ x.cmd = Upcoming
      /\ Upcoming \in Configures
  BY DEF TypeOK, PlatformTypeOK, PublisherData, Upcoming, Configures
<1>4. Awaited' = Awaited /\ Alive'
  BY <1>1, <1>2 DEF Awaited, Alive
<1>5. InTurn(q, Awaited) /\ FollowedBy(q, Awaited, Upcoming)
  BY <1>1, <1>2 DEF ButtonInv
<1>6. InTurn(Append(q, x), Awaited)
  BY <1>3, <1>5, AppendConfigureInTurn
<1>7. FollowedBy(Append(q, x), Awaited, Other(Upcoming))
  BY <1>3, AppendConfigureFollowedBy
<1> QED
  BY <1>1, <1>2, <1>4, <1>6, <1>7 DEF ButtonInv, Alive

\* Every other step of the client task leaves the queue alone.
MqttTaskSilent == MqttTask /\ ~SendDeinit /\ ~SendInit /\ ~CreatePublisher /\ ~DeletePublisher

LEMMA SilentMoves ==
  ASSUME TypeOK, MqttTaskSilent
  PROVE  /\ UNCHANGED <<pub_pc, button, publisher_task_q>>
         /\ mqtt_pc \in ExitPcs => mqtt_pc' \in ExitPcs
         /\ mqtt_pc' \in ExitPcs \/ Upcoming' = Upcoming
<1>1. wifi_caller \in {"startup", "recovery", "mqtt_connect"}
  BY DEF TypeOK, MqttTypeOK
<1>2. CASE WifiConnectEnter \/ WifiConnectApSucceeds \/ WifiConnectApFails
  BY <1>1, <1>2 DEF WifiConnectEnter, WifiConnectApSucceeds, WifiConnectApFails, WifiConnectReturns,
       Goto, queuesAndNet, queueVars, pubVars, Upcoming, ExitPcs
<1>3. CASE MqttTaskSilent /\ ~(WifiConnectEnter \/ WifiConnectApSucceeds \/ WifiConnectApFails)
  BY <1>3 DEF MqttTaskSilent, MqttTask, MqttTaskStep, MqttCreateQueue, WcmInit, MqttLibInit, MqttMalloc, MqttCreate,
         Acquire, MqttRegisterCallback, CreateSubscriber, CreatePublisher,
         WifiConnectEnter, WifiConnectApSucceeds, WifiConnectApFails, MqttConnectClientId,
         MqttConnectApCheck, MqttConnectSucceeds, MqttConnectFails, MqttConnectLoadFlags,
         MqttConnectStoreSuccess, StoreFlags, MqttReceive, SendDeinit, MqttDisconnect,
         RecoveryApCheck, SendSubscribe, SendInit, SendToPublisher, MqttTaskHalts,
         DeleteSubscriber, DeletePublisher, CleanupDisconnect, CleanupDelete, CleanupFree,
         CleanupDeinit, CleanupWifi, CleanupWcm, Release,
       Goto, CallWifiConnect, CallMqttConnect, queuesAndNet, queueVars, pubVars, Upcoming, ExitPcs
<1> QED
  BY <1>2, <1>3

LEMMA MqttTaskInTurn ==
  ASSUME TypeOK, Phases, ButtonInv, MqttTask PROVE ButtonInv'
<1>1. CASE SendDeinit \/ SendInit
  BY <1>1, SendsInTurn
<1>2. CASE CreatePublisher
  <2>1. ~Tasks /\ mqtt_pc = "create_publisher"
    BY <1>2 DEF CreatePublisher, Phases, StartupPcs
  <2>2. pub_pc = "none" /\ button = "free" /\ publisher_task_q = <<>>
    BY <2>1 DEF Tasks, ButtonInv
  <2>3. /\ UNCHANGED <<button, publisher_task_q>>
        /\ \/ pub_pc' = "start" /\ mqtt_pc' = "receive"
           \/ pub_pc' = "none" /\ mqtt_pc' = "exit_cleanup"
    BY <1>2, <2>2 DEF CreatePublisher, Goto, queuesAndNet, queueVars
  <2>4. CASE pub_pc' = "none"
    BY <2>2, <2>3, <2>4 DEF ButtonInv, Alive
  <2>5. CASE pub_pc' = "start" /\ mqtt_pc' = "receive"
    <3>1. InTurn(<<>>, "PUBLISHER_DEINIT") /\ FollowedBy(<<>>, "PUBLISHER_DEINIT", "PUBLISHER_DEINIT")
      BY DEF InTurn, FollowedBy
    <3>2. Awaited' = "PUBLISHER_DEINIT" /\ Upcoming' = "PUBLISHER_DEINIT"
      BY <2>5 DEF Awaited, Upcoming
    <3> QED
      BY <2>2, <2>3, <2>5, <3>1, <3>2 DEF ButtonInv
  <2> QED
    BY <2>3, <2>4, <2>5
<1>3. CASE DeletePublisher
  <2>1. /\ UNCHANGED <<button, publisher_task_q>> /\ mqtt_pc' \in ExitPcs
        /\ pub_pc' = IF pub_pc = "none" THEN "none" ELSE "deleted"
    BY <1>3 DEF DeletePublisher, Goto, ExitPcs, queuesAndNet, queueVars
  <2> QED
    BY <2>1 DEF ButtonInv, Alive
<1>4. CASE MqttTaskSilent
  BY <1>4, SilentMoves, SameButton
<1> QED
  BY <1>1, <1>2, <1>3, <1>4 DEF MqttTaskSilent

LEMMA InitInTurn == Init => ButtonInv
BY DEF Init, PlatformInit, PubInit, ButtonInv, Alive

LEMMA NextInTurn == TypeOK /\ Phases /\ ButtonInv /\ [Next]_vars => ButtonInv'
<1> SUFFICES ASSUME TypeOK, Phases, ButtonInv, [Next]_vars PROVE ButtonInv'
  OBVIOUS
<1>1. CASE UNCHANGED vars \/ Subscriber \/ Callback \/ Network
  <2>1. UNCHANGED <<pub_pc, button, publisher_task_q, mqtt_pc>>
    <3>1. CASE Subscriber
      BY <3>1 DEF Subscriber, pubVars, mqttVars, SubscriberStep, queueVars, SubscribeSucceeds,
           SubscribeFails, ReportSubscribeFailure, SubscriberInitLed, SubscriberCreateQueue,
           SubscriberReceive, SubscriberWriteLed, SubscriberWriteState
    <3>2. CASE Callback
      BY <3>2 DEF Callback, CallbackStep, pubVars, queueVars, CallbackEnter, CallbackClearFlag,
           CallbackSendDisconnection, CallbackSetFlag, SubscriptionCallbackSend,
           SubscriptionCallbackHalts
    <3>3. CASE UNCHANGED vars \/ Network
      BY <3>3 DEF vars, Network, pubVars, mqttVars, queueVars
    <3> QED
      BY <1>1, <3>1, <3>2, <3>3
  <2> QED
    BY <2>1, SameButton DEF Upcoming
<1>2. CASE Publisher
  BY <1>2, PublisherWorks, PublisherTakes
<1> QED
  BY <1>1, <1>2, MqttTaskInTurn, PressInTurn DEF Next

\* publisher_init() never configures a button that is configured already, and
\* publisher_deinit() never frees a free one, whatever the queue lengths, presses and
\* recoveries: the commands in publisher_task_q alternate, and fit both what the
\* publisher has done so far and what the client task will send next.
THEOREM ButtonAlternates == Spec => []ButtonConfiguredInTurn
<1>1. Init => IInv /\ ButtonInv
  BY InitTypeOK, InitAccounted, InitPhases, InitInTurn DEF IInv
<1>2. (IInv /\ ButtonInv) /\ [Next]_vars => (IInv /\ ButtonInv)'
  BY NextTypeOK, NextAccounted, NextPhases, NextInTurn DEF IInv
<1>3. ButtonInv => ButtonConfiguredInTurn
  BY DEF ButtonInv, ButtonConfiguredInTurn
<1> QED
  BY <1>1, <1>2, <1>3, PTL DEF Spec
================================================================================
