--------------------------- MODULE MqttClientTask ---------------------------
(***************************************************************************)
(* mqtt_task.c: the MQTT client task, which brings up Wi-Fi and MQTT,      *)
(* creates the two other tasks, supervises the connection and cleans up    *)
(* when it cannot be restored; and mqtt_event_callback(), which the MQTT   *)
(* library runs on its own thread.                                         *)
(*                                                                         *)
(* status_flag is read, modified and written back by both of them without  *)
(* a lock.  The callback's updates are a load and a store; of the task's   *)
(* updates only that of MQTT_CONNECTION_SUCCESS is, because the others     *)
(* never meet one of the callback's (invariant FlagUpdatesExclusive).      *)
(***************************************************************************)
EXTENDS PublisherTask

CONSTANTS
  MAX_WIFI_CONN_RETRIES,   \* 120 in wifi_config.h
  MAX_MQTT_CONN_RETRIES    \* 150 in mqtt_client_config.h

ASSUME ConnRetriesAssumption ==
  /\ MAX_WIFI_CONN_RETRIES \in Nat \ {0}
  /\ MAX_MQTT_CONN_RETRIES \in Nat \ {0}

VARIABLES
  mqtt_pc,
  wifi_caller,    \* who called wifi_connect()
  mqtt_caller,    \* who called mqtt_connect()
  wifi_retry,     \* retry_count in wifi_connect()
  mqtt_retry,     \* retry_count in mqtt_connect()
  status_flag,    \* the bits that are set
  task_flags,     \* status_flag as the task loaded it
  cb_flags,       \* status_flag as the callback loaded it
  resources       \* what the task has acquired and not yet released

mqttVars == <<mqtt_pc, wifi_caller, mqtt_caller, wifi_retry, mqtt_retry,
              status_flag, task_flags, cb_flags, resources>>

Flags == {"WCM_INITIALIZED", "WIFI_CONNECTED", "LIBS_INITIALIZED",
          "BUFFER_INITIALIZED", "MQTT_INSTANCE_CREATED",
          "MQTT_CONNECTION_SUCCESS", "MQTT_MSG_RECEIVED"}

Resources == {"wcm", "libs", "buffer", "instance"}

WifiConnectPcs == {"wifi_connect", "wifi_connect_ap"}
MqttConnectPcs == {"client_id", "ap_check", "cy_mqtt_connect", "load_flags", "store_success"}
StartupPcs     == {"create_queue", "wcm_init", "mqtt_lib_init", "malloc", "mqtt_create",
                   "register", "create_subscriber", "create_publisher"}
RecoveryPcs    == {"send_deinit", "disconnect", "recovery_ap_check",
                   "send_subscribe", "send_init"}
ExitPcs        == {"exit_cleanup", "delete_publisher", "cleanup_disconnect",
                   "cleanup_delete", "cleanup_free", "cleanup_deinit",
                   "cleanup_wifi", "cleanup_wcm", "done"}

MqttPcs == {"receive"} \union WifiConnectPcs \union MqttConnectPcs
             \union StartupPcs \union RecoveryPcs \union ExitPcs

MqttTypeOK ==
  /\ mqtt_pc \in MqttPcs
  /\ wifi_caller \in {"startup", "recovery", "mqtt_connect"}
  /\ mqtt_caller \in {"startup", "recovery"}
  /\ wifi_retry \in 0..(MAX_WIFI_CONN_RETRIES - 1)
  /\ mqtt_retry \in 0..(MAX_MQTT_CONN_RETRIES - 1)
  /\ status_flag \subseteq Flags
  /\ task_flags \subseteq Flags
  /\ cb_flags \subseteq Flags
  /\ resources \subseteq Resources

MqttInit ==
  /\ mqtt_pc = "create_queue"
  /\ wifi_caller = "startup" /\ mqtt_caller = "startup"
  /\ wifi_retry = 0 /\ mqtt_retry = 0
  /\ status_flag = {} /\ task_flags = {} /\ cb_flags = {}
  /\ resources = {}

\* Most steps of the task leave these alone.
queuesAndNet == <<queueVars, created, halted, netVars, cbVars>>
frames       == <<wifi_caller, mqtt_caller, wifi_retry, mqtt_retry>>
flagsAndRes  == <<status_flag, task_flags, resources>>

Goto(pc) == mqtt_pc' = pc

\* One acquisition of the start-up sequence: CHECK_RESULT sets the flag of a
\* call that succeeded; a call that failed leads to exit_cleanup.
Acquire(from, flag, resource, to) ==
  /\ mqtt_pc = from
  /\ \/ /\ status_flag' = status_flag \union {flag}
        /\ resources' = resources \union {resource}
        /\ Goto(to)
     \/ Goto("exit_cleanup") /\ UNCHANGED <<status_flag, resources>>
  /\ UNCHANGED <<wifi_caller, mqtt_caller, wifi_retry, mqtt_retry, task_flags>>
  /\ UNCHANGED <<queuesAndNet, pubVars, subVars>>

-----------------------------------------------------------------------------
(* wifi_connect() *)

CallWifiConnect(caller) == wifi_caller' = caller /\ Goto("wifi_connect")

\* Where each caller goes on with the result it gets.
WifiConnectReturns(ok) ==
  /\ wifi_retry' = 0
  /\ Goto(IF ~ok THEN "exit_cleanup"
          ELSE CASE wifi_caller = "startup"      -> "mqtt_lib_init"
                 [] wifi_caller = "recovery"     -> "client_id"
                 [] wifi_caller = "mqtt_connect" -> "cy_mqtt_connect")

\* With a link already there it returns without touching status_flag.
WifiConnectEnter ==
  /\ mqtt_pc = "wifi_connect"
  /\ IF wifi_up THEN WifiConnectReturns(TRUE) ELSE Goto("wifi_connect_ap") /\ wifi_retry' = 0
  /\ UNCHANGED <<wifi_caller, mqtt_caller, mqtt_retry, flagsAndRes>>
  /\ UNCHANGED <<queuesAndNet, pubVars, subVars>>

WifiConnectApSucceeds ==
  /\ mqtt_pc = "wifi_connect_ap"
  /\ wifi_up' = TRUE
  /\ status_flag' = status_flag \union {"WIFI_CONNECTED"}
  /\ WifiConnectReturns(TRUE)
  /\ UNCHANGED <<wifi_caller, mqtt_caller, mqtt_retry, task_flags, resources, pubVars, subVars>>
  /\ UNCHANGED <<session_up, subscribed, lib_events, queueVars, created, halted, cbVars>>

WifiConnectApFails ==
  /\ mqtt_pc = "wifi_connect_ap"
  /\ IF wifi_retry + 1 < MAX_WIFI_CONN_RETRIES
     THEN wifi_retry' = wifi_retry + 1 /\ UNCHANGED mqtt_pc
     ELSE WifiConnectReturns(FALSE)
  /\ UNCHANGED <<wifi_caller, mqtt_caller, mqtt_retry, flagsAndRes>>
  /\ UNCHANGED <<queuesAndNet, pubVars, subVars>>

-----------------------------------------------------------------------------
(* mqtt_init() *)

MqttLibInit == Acquire("mqtt_lib_init", "LIBS_INITIALIZED", "libs", "malloc")
MqttMalloc  == Acquire("malloc", "BUFFER_INITIALIZED", "buffer", "mqtt_create")
MqttCreate  == Acquire("mqtt_create", "MQTT_INSTANCE_CREATED", "instance", "register")

CallMqttConnect(caller) == mqtt_caller' = caller /\ Goto("client_id")

MqttRegisterCallback ==
  /\ mqtt_pc = "register"
  /\ \/ CallMqttConnect("startup")
     \/ Goto("exit_cleanup") /\ UNCHANGED mqtt_caller
  /\ UNCHANGED <<wifi_caller, wifi_retry, mqtt_retry, flagsAndRes>>
  /\ UNCHANGED <<queuesAndNet, pubVars, subVars>>

-----------------------------------------------------------------------------
(* mqtt_connect() *)

\* mqtt_get_unique_client_identifier() may fail before the first attempt.
MqttConnectClientId ==
  /\ mqtt_pc = "client_id"
  /\ Goto("ap_check") \/ Goto("exit_cleanup")
  /\ mqtt_retry' = 0
  /\ UNCHANGED <<wifi_caller, mqtt_caller, wifi_retry, flagsAndRes>>
  /\ UNCHANGED <<queuesAndNet, pubVars, subVars>>

MqttConnectApCheck ==
  /\ mqtt_pc = "ap_check"
  /\ IF wifi_up
     THEN Goto("cy_mqtt_connect") /\ UNCHANGED <<wifi_caller, status_flag>>
     ELSE /\ status_flag' = status_flag \ {"WIFI_CONNECTED"}
          /\ CallWifiConnect("mqtt_connect")
  /\ UNCHANGED <<mqtt_caller, wifi_retry, mqtt_retry, task_flags, resources>>
  /\ UNCHANGED <<queuesAndNet, pubVars, subVars>>

MqttConnectSucceeds ==
  /\ mqtt_pc = "cy_mqtt_connect"
  /\ wifi_up
  /\ session_up' = TRUE
  /\ subscribed' = FALSE
  /\ Goto("load_flags")
  /\ mqtt_retry' = 0
  /\ UNCHANGED <<wifi_caller, mqtt_caller, wifi_retry, flagsAndRes, pubVars, subVars>>
  /\ UNCHANGED <<wifi_up, lib_events, queueVars, created, halted, cbVars>>

\* Mutant: the last failed attempt goes back to the command loop.
MqttConnectFailsGoesOn ==
  /\ mqtt_pc = "cy_mqtt_connect"
  /\ IF mqtt_retry + 1 < MAX_MQTT_CONN_RETRIES
     THEN mqtt_retry' = mqtt_retry + 1 /\ Goto("ap_check")
     ELSE mqtt_retry' = 0 /\ Goto("receive")
  /\ UNCHANGED <<wifi_caller, mqtt_caller, wifi_retry, flagsAndRes>>
  /\ UNCHANGED <<queuesAndNet, pubVars, subVars>>

MqttConnectFails ==
  /\ mqtt_pc = "cy_mqtt_connect"
  /\ IF mqtt_retry + 1 < MAX_MQTT_CONN_RETRIES
     THEN mqtt_retry' = mqtt_retry + 1 /\ Goto("ap_check")
     ELSE mqtt_retry' = 0 /\ Goto("exit_cleanup")
  /\ UNCHANGED <<wifi_caller, mqtt_caller, wifi_retry, flagsAndRes>>
  /\ UNCHANGED <<queuesAndNet, pubVars, subVars>>

\* status_flag |= MQTT_CONNECTION_SUCCESS is a load and a store; then
\* mqtt_connect() returns success to its caller.
MqttConnectLoadFlags ==
  /\ mqtt_pc = "load_flags"
  /\ task_flags' = status_flag
  /\ Goto("store_success")
  /\ UNCHANGED <<frames, status_flag, resources, queuesAndNet, pubVars, subVars>>

StoreFlags(flags) ==
  /\ mqtt_pc = "store_success"
  /\ status_flag' = flags
  /\ task_flags' = {}
  /\ Goto(IF mqtt_caller = "startup" THEN "create_subscriber" ELSE "send_subscribe")
  /\ UNCHANGED <<frames, resources, queuesAndNet, pubVars, subVars>>

\* Mutant: the flag of the session is not set.
MqttConnectStoreNothing == StoreFlags(task_flags)

\* Mutant: the Wi-Fi flag is set here as well.
MqttConnectStoreBoth == StoreFlags(task_flags \union {"MQTT_CONNECTION_SUCCESS", "WIFI_CONNECTED"})

MqttConnectStoreSuccess == StoreFlags(task_flags \union {"MQTT_CONNECTION_SUCCESS"})

-----------------------------------------------------------------------------
(* mqtt_client_task(), up to its command loop *)

MqttCreateQueue ==
  /\ mqtt_pc = "create_queue"
  /\ CreateQueue("mqtt_task_q")
  /\ Goto("wcm_init")
  /\ UNCHANGED <<frames, flagsAndRes, queueVars, halted, netVars, cbVars, pubVars, subVars>>

WcmInit ==
  /\ mqtt_pc = "wcm_init"
  /\ \/ /\ status_flag' = status_flag \union {"WCM_INITIALIZED"}
        /\ resources' = resources \union {"wcm"}
        /\ CallWifiConnect("startup")
     \/ Goto("exit_cleanup") /\ UNCHANGED <<status_flag, resources, wifi_caller>>
  /\ UNCHANGED <<mqtt_caller, wifi_retry, mqtt_retry, task_flags>>
  /\ UNCHANGED <<queuesAndNet, pubVars, subVars>>

CreateSubscriber ==
  /\ mqtt_pc = "create_subscriber"
  /\ \/ sub_pc' = "init_led" /\ Goto("create_publisher")
     \/ UNCHANGED sub_pc /\ Goto("exit_cleanup")
  /\ UNCHANGED <<sub_retry, sub_data, led, current_device_state>>
  /\ UNCHANGED <<frames, flagsAndRes, queuesAndNet, pubVars>>

\* Comes after vTaskDelay(TASK_CREATION_DELAY_MS), which lets other tasks run
\* but does not tell how far they get.
CreatePublisher ==
  /\ mqtt_pc = "create_publisher"
  /\ \/ pub_pc' = "start" /\ Goto("receive")
     \/ UNCHANGED pub_pc /\ Goto("exit_cleanup")
  /\ UNCHANGED <<pub_data, button>>
  /\ UNCHANGED <<frames, flagsAndRes, queuesAndNet, subVars>>

-----------------------------------------------------------------------------
(* mqtt_client_task(), the command loop and HANDLE_DISCONNECTION *)

\* Mutant: no break after HANDLE_MQTT_SUBSCRIBE_FAILURE.
MqttReceiveFallsThrough ==
  /\ mqtt_pc = "receive"
  /\ mqtt_task_q # <<>>
  /\ mqtt_task_q' = Tail(mqtt_task_q)
  /\ Goto(IF Head(mqtt_task_q) = "HANDLE_MQTT_PUBLISH_FAILURE" THEN "receive" ELSE "send_deinit")
  /\ UNCHANGED <<publisher_task_q, subscriber_task_q, created, halted, netVars, cbVars>>
  /\ UNCHANGED <<frames, flagsAndRes, pubVars, subVars>>

\* The two failure reports are taken and ignored.
MqttReceive ==
  /\ mqtt_pc = "receive"
  /\ mqtt_task_q # <<>>
  /\ mqtt_task_q' = Tail(mqtt_task_q)
  /\ Goto(IF Head(mqtt_task_q) = "HANDLE_DISCONNECTION" THEN "send_deinit" ELSE "receive")
  /\ UNCHANGED <<publisher_task_q, subscriber_task_q, created, halted, netVars, cbVars>>
  /\ UNCHANGED <<frames, flagsAndRes, pubVars, subVars>>

\* Send a command without data to the publisher.
SendToPublisher(from, cmd, to) ==
  /\ mqtt_pc = from
  /\ RoomIn("publisher_task_q", publisher_task_q, PUBLISHER_TASK_QUEUE_LENGTH)
  /\ publisher_task_q' = Append(publisher_task_q, [cmd |-> cmd, data |-> "none"])
  /\ Goto(to)
  /\ UNCHANGED <<mqtt_task_q, subscriber_task_q, created, halted, netVars, cbVars>>
  /\ UNCHANGED <<frames, flagsAndRes, pubVars, subVars>>

\* Mutant: the button is not handed back.
SendNoDeinit ==
  /\ mqtt_pc = "send_deinit"
  /\ Goto("disconnect")
  /\ UNCHANGED <<frames, flagsAndRes, queuesAndNet, pubVars, subVars>>

SendDeinit == SendToPublisher("send_deinit", "PUBLISHER_DEINIT", "disconnect")

MqttDisconnect ==
  /\ mqtt_pc = "disconnect"
  /\ session_up' = FALSE
  /\ subscribed' = FALSE
  /\ Goto("recovery_ap_check")
  /\ UNCHANGED <<wifi_up, lib_events, queueVars, created, halted, cbVars>>
  /\ UNCHANGED <<frames, flagsAndRes, pubVars, subVars>>

RecoveryApCheck ==
  /\ mqtt_pc = "recovery_ap_check"
  /\ mqtt_caller' = "recovery"
  /\ IF wifi_up
     THEN Goto("client_id") /\ UNCHANGED <<wifi_caller, status_flag>>
     ELSE /\ status_flag' = status_flag \ {"WIFI_CONNECTED"}
          /\ CallWifiConnect("recovery")
  /\ UNCHANGED <<wifi_retry, mqtt_retry, task_flags, resources>>
  /\ UNCHANGED <<queuesAndNet, pubVars, subVars>>

\* Mutant: a send that does not wait.
SendSubscribeOrDrop ==
  /\ mqtt_pc = "send_subscribe"
  /\ "subscriber_task_q" \in created
  /\ subscriber_task_q' =
       IF Len(subscriber_task_q) < SUBSCRIBER_TASK_QUEUE_LENGTH
       THEN Append(subscriber_task_q, [cmd |-> "SUBSCRIBE_TO_TOPIC", data |-> "none"])
       ELSE subscriber_task_q
  /\ Goto("send_init")
  /\ UNCHANGED <<mqtt_task_q, publisher_task_q, created, halted, netVars, cbVars>>
  /\ UNCHANGED <<frames, flagsAndRes, pubVars, subVars>>

SendSubscribe ==
  /\ mqtt_pc = "send_subscribe"
  /\ RoomIn("subscriber_task_q", subscriber_task_q, SUBSCRIBER_TASK_QUEUE_LENGTH)
  /\ subscriber_task_q' =
       Append(subscriber_task_q, [cmd |-> "SUBSCRIBE_TO_TOPIC", data |-> "none"])
  /\ Goto("send_init")
  /\ UNCHANGED <<mqtt_task_q, publisher_task_q, created, halted, netVars, cbVars>>
  /\ UNCHANGED <<frames, flagsAndRes, pubVars, subVars>>

SendInit == SendToPublisher("send_init", "PUBLISHER_INIT", "receive")

\* A send before the receiving task has created its queue.
MqttTaskHalts ==
  /\ \/ mqtt_pc = "send_deinit" /\ HaltOnNull("publisher_task_q", "mqtt_client_task")
     \/ mqtt_pc = "send_subscribe" /\ HaltOnNull("subscriber_task_q", "mqtt_client_task")
  /\ UNCHANGED <<mqtt_pc, frames, flagsAndRes, pubVars, subVars>>
  /\ UNCHANGED <<queueVars, created, netVars, cbVars>>

-----------------------------------------------------------------------------
(* mqtt_client_task() from exit_cleanup on, and cleanup() *)

\* vTaskDelete() stops the task wherever it is; a NULL handle is skipped.
DeleteSubscriber ==
  /\ mqtt_pc = "exit_cleanup"
  /\ sub_pc' = IF sub_pc = "none" THEN "none" ELSE "deleted"
  /\ Goto("delete_publisher")
  /\ UNCHANGED <<sub_retry, sub_data, led, current_device_state>>
  /\ UNCHANGED <<frames, flagsAndRes, queuesAndNet, pubVars>>

DeletePublisher ==
  /\ mqtt_pc = "delete_publisher"
  /\ pub_pc' = IF pub_pc = "none" THEN "none" ELSE "deleted"
  /\ Goto("cleanup_disconnect")
  /\ UNCHANGED <<pub_data, button>>
  /\ UNCHANGED <<frames, flagsAndRes, queuesAndNet, subVars>>

CleanupDisconnect ==
  /\ mqtt_pc = "cleanup_disconnect"
  /\ IF "MQTT_CONNECTION_SUCCESS" \in status_flag
     THEN session_up' = FALSE /\ subscribed' = FALSE
     ELSE UNCHANGED <<session_up, subscribed>>
  /\ Goto("cleanup_delete")
  /\ UNCHANGED <<wifi_up, lib_events, queueVars, created, halted, cbVars>>
  /\ UNCHANGED <<frames, flagsAndRes, pubVars, subVars>>

Release(from, flag, resource, to) ==
  /\ mqtt_pc = from
  /\ resources' = IF flag \in status_flag THEN resources \ {resource} ELSE resources
  /\ Goto(to)
  /\ UNCHANGED <<frames, status_flag, task_flags, queuesAndNet, pubVars, subVars>>

CleanupDelete == Release("cleanup_delete", "MQTT_INSTANCE_CREATED", "instance", "cleanup_free")
CleanupFree   == Release("cleanup_free", "BUFFER_INITIALIZED", "buffer", "cleanup_deinit")
CleanupDeinit == Release("cleanup_deinit", "LIBS_INITIALIZED", "libs", "cleanup_wifi")

\* cy_wcm_disconnect_ap() may fail; its result is only printed.
CleanupWifi ==
  /\ mqtt_pc = "cleanup_wifi"
  /\ \/ "WIFI_CONNECTED" \in status_flag /\ wifi_up' = FALSE
     \/ UNCHANGED wifi_up
  /\ Goto("cleanup_wcm")
  /\ UNCHANGED <<session_up, subscribed, lib_events, queueVars, created, halted, cbVars>>
  /\ UNCHANGED <<frames, flagsAndRes, pubVars, subVars>>

CleanupWcm == Release("cleanup_wcm", "WCM_INITIALIZED", "wcm", "done")

MqttTaskStep ==
  /\ \/ MqttCreateQueue \/ WcmInit \/ MqttLibInit \/ MqttMalloc \/ MqttCreate
     \/ MqttRegisterCallback \/ CreateSubscriber \/ CreatePublisher
     \/ WifiConnectEnter \/ WifiConnectApSucceeds \/ WifiConnectApFails
     \/ MqttConnectClientId \/ MqttConnectApCheck
     \/ MqttConnectSucceeds \/ MqttConnectFails
     \/ MqttConnectLoadFlags \/ MqttConnectStoreSuccess
     \/ MqttReceive \/ SendDeinit \/ MqttDisconnect \/ RecoveryApCheck
     \/ SendSubscribe \/ SendInit \/ MqttTaskHalts
     \/ DeleteSubscriber \/ DeletePublisher \/ CleanupDisconnect
     \/ CleanupDelete \/ CleanupFree \/ CleanupDeinit \/ CleanupWifi \/ CleanupWcm
  /\ UNCHANGED <<cb_flags, env_left>>

-----------------------------------------------------------------------------
(* mqtt_event_callback(), on the MQTT library's thread *)

\* The library takes its next event and calls back, up to the point where the
\* callback has loaded status_flag.
CallbackEnter ==
  /\ cb_pc = "idle"
  /\ lib_events # <<>>
  /\ lib_events' = Tail(lib_events)
  /\ cb_flags' = status_flag
  /\ \/ Head(lib_events) = "DISCONNECT" /\ cb_pc' = "clear_flag" /\ UNCHANGED cb_msg
     \/ /\ Head(lib_events) \in Payload
        /\ cb_pc' = "set_flag"
        /\ cb_msg' = Head(lib_events)
  /\ UNCHANGED <<status_flag, wifi_up, session_up, subscribed>>
  /\ UNCHANGED <<queueVars, created, halted>>

\* status_flag &= ~MQTT_CONNECTION_SUCCESS
CallbackClearFlag ==
  /\ cb_pc = "clear_flag"
  /\ status_flag' = cb_flags \ {"MQTT_CONNECTION_SUCCESS"}
  /\ cb_flags' = {}
  /\ cb_pc' = "send_disconnection"
  /\ UNCHANGED <<cb_msg, netVars, queueVars, created, halted>>

\* Mutant: a send that does not wait.
CallbackSendDisconnectionOrDrop ==
  /\ cb_pc = "send_disconnection"
  /\ mqtt_task_q' = IF Len(mqtt_task_q) < MQTT_TASK_QUEUE_LENGTH
                    THEN Append(mqtt_task_q, "HANDLE_DISCONNECTION") ELSE mqtt_task_q
  /\ cb_pc' = "idle"
  /\ UNCHANGED <<cb_flags, status_flag, cb_msg, netVars>>
  /\ UNCHANGED <<publisher_task_q, subscriber_task_q, created, halted>>

CallbackSendDisconnection ==
  /\ cb_pc = "send_disconnection"
  /\ RoomIn("mqtt_task_q", mqtt_task_q, MQTT_TASK_QUEUE_LENGTH)
  /\ mqtt_task_q' = Append(mqtt_task_q, "HANDLE_DISCONNECTION")
  /\ cb_pc' = "idle"
  /\ UNCHANGED <<cb_flags, status_flag, cb_msg, netVars>>
  /\ UNCHANGED <<publisher_task_q, subscriber_task_q, created, halted>>

\* status_flag |= MQTT_MSG_RECEIVED, then mqtt_subscription_callback()
CallbackSetFlag ==
  /\ cb_pc = "set_flag"
  /\ status_flag' = cb_flags \union {"MQTT_MSG_RECEIVED"}
  /\ cb_flags' = {}
  /\ EnterSubscriptionCallback
  /\ UNCHANGED <<cb_msg, netVars, queueVars, created, halted>>

CallbackStep ==
  /\ \/ CallbackEnter \/ CallbackClearFlag \/ CallbackSendDisconnection \/ CallbackSetFlag
     \/ /\ SubscriptionCallbackSend \/ SubscriptionCallbackHalts
        /\ UNCHANGED <<status_flag, cb_flags>>
  /\ UNCHANGED <<mqtt_pc, frames, task_flags, resources, pubVars, subVars, env_left>>
=============================================================================
