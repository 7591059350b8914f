------------------------------- MODULE MqttApp -------------------------------
(***************************************************************************)
(* The MQTT application: the client, publisher and subscriber tasks, the   *)
(* MQTT library's callback thread, the button's interrupt and the network, *)
(* in every interleaving (the tasks share one priority and are preempted). *)
(***************************************************************************)
EXTENDS MqttClientTask

vars == <<created, queueVars, halted, netVars, cbVars, env_left,
          subVars, pubVars, mqttVars>>

\* Every variable has its type; no retry counter of the code leaves its range.
TypeOK == PlatformTypeOK /\ SubTypeOK /\ PubTypeOK /\ MqttTypeOK

Init == PlatformInit /\ SubInit /\ PubInit /\ MqttInit

MqttTask   == MqttTaskStep
Callback   == CallbackStep
Subscriber == SubscriberStep /\ UNCHANGED <<pubVars, mqttVars>>
Publisher  == PublisherStep /\ UNCHANGED <<subVars, mqttVars>>
Press      == ButtonPress /\ UNCHANGED <<subVars, mqttVars>>

Network ==
  /\ \/ WifiDrops \/ WifiRejoins \/ SessionDrops \/ KeepAliveExpires \/ ForeignMessage
  /\ UNCHANGED <<created, queueVars, halted, cbVars, subVars, pubVars, mqttVars>>

\* After a failed configASSERT nothing runs any more.
Next ==
  /\ halted = "no"
  /\ MqttTask \/ Callback \/ Subscriber \/ Publisher \/ Press \/ Network

Spec == Init /\ [][Next]_vars

(***************************************************************************)
(* FreeRTOS shares the processor among the ready tasks of one priority     *)
(* (configUSE_PREEMPTION and configUSE_TIME_SLICING are 1 and the three    *)
(* tasks have the same priority), and the library's thread and keep-alive  *)
(* run on their own; nobody has to press the button or to break the        *)
(* network.  Weak fairness is enough for the blocking sends: a queue with   *)
(* room keeps it until one of its senders uses it.                         *)
(***************************************************************************)
Fairness ==
  /\ WF_vars(halted = "no" /\ MqttTask)
  /\ WF_vars(halted = "no" /\ Callback)
  /\ WF_vars(halted = "no" /\ Subscriber)
  /\ WF_vars(halted = "no" /\ Publisher)
  /\ WF_vars(halted = "no" /\ KeepAliveExpires /\ Network)

FairSpec == Spec /\ Fairness

-----------------------------------------------------------------------------
(* Who is responsible for the next session *)

AtMostOne(s, x) == \A i, j \in DOMAIN s : s[i] = x /\ s[j] = x => i = j
Contains(s, x)  == \E i \in DOMAIN s : s[i] = x

\* The client task is bringing up the first session, or replacing a lost one.
ConnectingPcs == {"send_deinit", "disconnect", "recovery_ap_check",
                  "create_queue", "wcm_init", "mqtt_lib_init", "malloc", "mqtt_create",
                  "register", "client_id", "ap_check", "cy_mqtt_connect"}
                   \union WifiConnectPcs

Holders ==
  {h \in {"session", "library", "callback", "queue", "task"} :
     \/ h = "session"  /\ session_up
     \/ h = "library"  /\ Contains(lib_events, "DISCONNECT")
     \/ h = "callback" /\ cb_pc \in {"clear_flag", "send_disconnection"}
     \/ h = "queue"    /\ Contains(mqtt_task_q, "HANDLE_DISCONNECTION")
     \/ h = "task"     /\ mqtt_pc \in ConnectingPcs}

\* A lost session is never forgotten and never handled twice: until the client
\* task exits, exactly one of these is true - the session is alive, the
\* library has yet to report its loss, the callback is reporting it, the report
\* waits in mqtt_task_q, the client task is (re)connecting - and there is never
\* a second report behind the first.
DisconnectionAccountedFor ==
  /\ AtMostOne(lib_events, "DISCONNECT")
  /\ AtMostOne(mqtt_task_q, "HANDLE_DISCONNECTION")
  /\ \A g, h \in Holders : g = h
  /\ mqtt_pc \notin ExitPcs => Holders # {}

\* The client task's connection life cycle, hidden behind queues, callback and
\* retries, is that of module Supervision.
Tasks == pub_pc # "none"

Conn ==
  IF mqtt_pc \in ExitPcs THEN "terminated"
  ELSE IF mqtt_pc \in ConnectingPcs THEN (IF Tasks THEN "recovering" ELSE "starting")
  ELSE IF session_up THEN "online"
  ELSE "lost"

Supervised == INSTANCE Supervision WITH conn <- Conn, running <- Tasks

ImplementsSupervision == Supervised!Spec

-----------------------------------------------------------------------------
(* The publisher's button *)

\* publisher_init() never configures a button that is already configured, and
\* publisher_deinit() never frees one that is free, although the commands wait
\* in a queue among publish commands while recoveries come and go.
ButtonConfiguredInTurn ==
  /\ pub_pc \in {"start", "init"} => button = "free"
  /\ pub_pc = "deinit" => button = "armed"

-----------------------------------------------------------------------------
(* Flags and clean-up *)

\* The bits that tell cleanup() what to give back, apart from the session.
ResourceFlags == Flags \ {"MQTT_CONNECTION_SUCCESS", "MQTT_MSG_RECEIVED"}

\* Between the load and the store of a callback's update of status_flag, the
\* client task changes none of the bits that tell cleanup() what to give back,
\* so the unlocked update cannot undo one of them.
FlagUpdatesExclusive ==
  cb_pc \in {"clear_flag", "set_flag"} =>
    /\ mqtt_pc \notin WifiConnectPcs \union {"ap_check", "recovery_ap_check"}
    /\ status_flag \cap ResourceFlags = cb_flags \cap ResourceFlags

\* cleanup() never deletes the MQTT instance under a live session.
CleanupClosesSession ==
  "instance" \notin resources => ~session_up

\* Wherever start-up stopped, cleanup() gives back all it had acquired, and the
\* network buffer only after the instance that uses it.
CleanupReleasesAll ==
  /\ mqtt_pc = "done" => resources = {}
  /\ "instance" \in resources => {"wcm", "libs", "buffer"} \subseteq resources

\* When cleanup() comes to the access point, a link that the connection
\* manager did not restore by itself is recorded in status_flag.
CleanupKnowsWifi ==
  /\ mqtt_pc = "cleanup_wifi"
  /\ wifi_up
  /\ env_left["wifi_rejoin"] = EnvBudget["wifi_rejoin"]
  => "WIFI_CONNECTED" \in status_flag

\* Together: wherever start-up or a recovery stopped, cleanup() gives back what was
\* acquired, in order, and takes down what is up.
CleanupComplete == CleanupClosesSession /\ CleanupReleasesAll /\ CleanupKnowsWifi

-----------------------------------------------------------------------------
(* Progress *)

Stopped == halted # "no" \/ mqtt_pc \in ExitPcs

\* The client task waits for room in a worker's queue, and that worker for room
\* in the client task's queue to report a failure: neither goes on any more.
CircularWait ==
  /\ Len(mqtt_task_q) = MQTT_TASK_QUEUE_LENGTH
  /\ \/ /\ mqtt_pc \in {"send_deinit", "send_init"}
        /\ Len(publisher_task_q) = PUBLISHER_TASK_QUEUE_LENGTH
        /\ pub_pc = "report_failure"
     \/ /\ mqtt_pc = "send_subscribe"
        /\ Len(subscriber_task_q) = SUBSCRIBER_TASK_QUEUE_LENGTH
        /\ sub_pc = "report_failure"

\* README: the client task handles unexpected disconnections by reconnecting;
\* if that fails it terminates.  A circular wait is all that can keep it from it.
Recovers == ~session_up ~> session_up \/ Stopped \/ CircularWait

\* Each new session gets its subscription, unless it is lost first, the
\* subscriber reports that its attempts have failed, or tasks wait in a circle.
Resubscribes ==
  mqtt_pc = "load_flags" ~>
    subscribed \/ ~session_up \/ sub_pc = "report_failure" \/ Stopped \/ CircularWait

\* A valid message that has reached the callback ends up on the LED, unless
\* tasks wait in a circle.
MessageReachesLed ==
  \A state \in DeviceState :
    (cb_pc = "send_update" /\ cb_msg = state) ~> (led = state \/ Stopped \/ CircularWait)

-----------------------------------------------------------------------------
(* Statements of the source that the program does not keep *)

\* FreeRTOSConfig.h, configASSERT: no queue is used before it is created.
NoSendBeforeCreate == halted = "no"

\* README: unexpected disconnections are handled.  Not so in a circular wait.
NoCircularWait == ~CircularWait
=============================================================================
