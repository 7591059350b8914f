------------------------------ MODULE Platform ------------------------------
(***************************************************************************)
(* What the three application tasks share: the FreeRTOS queues through     *)
(* which they talk, and the services they call and do not own - the Wi-Fi  *)
(* connection manager (cy_wcm), the MQTT library (cy_mqtt_api) with its    *)
(* event thread, and the broker.  The services are external code: they are *)
(* modelled from the way mqtt_task.c, publisher_task.c and                 *)
(* subscriber_task.c use them.                                             *)
(*                                                                         *)
(* Assumptions about the external code, used by every module above:        *)
(*  - the MQTT library runs the event callback on one thread, one event at *)
(*    a time, in the order the events happened;                            *)
(*  - it raises exactly one DISCONNECT event per lost session, and none    *)
(*    for a session the application closes itself;                         *)
(*  - cy_mqtt_connect needs a Wi-Fi link; a session starts clean, without  *)
(*    the previous session's subscription (connection_info.clean_session). *)
(***************************************************************************)
EXTENDS Naturals, Sequences

CONSTANTS
  MQTT_TASK_QUEUE_LENGTH,        \* 3 in the source
  PUBLISHER_TASK_QUEUE_LENGTH,   \* 3 in the source
  SUBSCRIBER_TASK_QUEUE_LENGTH,  \* 1 in the source
  EnvBudget                      \* how often each environment event may occur

(***************************************************************************)
(* Environment events, each limited by its entry of EnvBudget: a button    *)
(* press, a lost MQTT session, a lost Wi-Fi link, a Wi-Fi link that the    *)
(* connection manager restores by itself, and a message that some other    *)
(* client publishes on the topic.                                          *)
(***************************************************************************)
EnvEvents == {"press", "session_loss", "wifi_loss", "wifi_rejoin", "foreign"}

ASSUME QueueLengthsAssumption ==
  /\ MQTT_TASK_QUEUE_LENGTH \in Nat \ {0}
  /\ PUBLISHER_TASK_QUEUE_LENGTH \in Nat \ {0}
  /\ SUBSCRIBER_TASK_QUEUE_LENGTH \in Nat \ {0}

ASSUME EnvBudgetAssumption == EnvBudget \in [EnvEvents -> Nat]

VARIABLES
  created,           \* queues whose handle is no longer NULL
  mqtt_task_q,
  publisher_task_q,
  subscriber_task_q,
  halted,            \* "no", or the function whose send hit a NULL handle
  wifi_up,           \* what cy_wcm_is_connected_to_ap() answers
  session_up,        \* the broker session of mqtt_connection is alive
  subscribed,        \* the broker holds our subscription in this session
  lib_events,        \* events the MQTT library has yet to call back for
  cb_pc,             \* where its event thread is inside mqtt_event_callback
  cb_msg,            \* the message it is delivering
  env_left           \* what is left of EnvBudget

queueVars == <<mqtt_task_q, publisher_task_q, subscriber_task_q>>
netVars   == <<wifi_up, session_up, subscribed, lib_events>>
cbVars    == <<cb_pc, cb_msg>>

Queues      == {"mqtt_task_q", "publisher_task_q", "subscriber_task_q"}
MqttTaskCmd == {"HANDLE_MQTT_SUBSCRIBE_FAILURE", "HANDLE_MQTT_PUBLISH_FAILURE",
                "HANDLE_DISCONNECTION"}
DeviceState == {"ON", "OFF"}

\* In C only PUBLISH_MQTT_MSG carries data; in the other commands the field is
\* never read, and here it is "none".
PublisherData ==
  [cmd : {"PUBLISHER_INIT", "PUBLISHER_DEINIT"}, data : {"none"}]
    \union [cmd : {"PUBLISH_MQTT_MSG"}, data : DeviceState]
SubscriberData ==
  [cmd : {"SUBSCRIBE_TO_TOPIC"}, data : {"none"}]
    \union [cmd : {"UPDATE_DEVICE_STATE"}, data : DeviceState]

\* "INVALID" stands for every payload that is neither of the two messages.
Payload   == DeviceState \union {"INVALID"}
LibEvents == {"DISCONNECT"} \union Payload

Callers == {"isr_button_press", "mqtt_subscription_callback", "mqtt_client_task"}

PlatformTypeOK ==
  /\ created \subseteq Queues
  /\ mqtt_task_q \in Seq(MqttTaskCmd)
  /\ publisher_task_q \in Seq(PublisherData)
  /\ subscriber_task_q \in Seq(SubscriberData)
  /\ halted \in {"no"} \union Callers
  /\ wifi_up \in BOOLEAN
  /\ session_up \in BOOLEAN
  /\ subscribed \in BOOLEAN
  /\ lib_events \in Seq(LibEvents)
  /\ cb_pc \in {"idle", "clear_flag", "send_disconnection", "set_flag", "send_update"}
  /\ cb_msg \in Payload
  /\ cb_pc = "send_update" => cb_msg \in DeviceState
  /\ env_left \in [EnvEvents -> Nat]

PlatformInit ==
  /\ created = {}
  /\ mqtt_task_q = <<>> /\ publisher_task_q = <<>> /\ subscriber_task_q = <<>>
  /\ halted = "no"
  /\ wifi_up = FALSE /\ session_up = FALSE /\ subscribed = FALSE
  /\ lib_events = <<>>
  /\ cb_pc = "idle" /\ cb_msg = "INVALID"
  /\ env_left = EnvBudget

-----------------------------------------------------------------------------
(* FreeRTOS queues *)

\* A task blocked in xQueueSend(.., portMAX_DELAY) waits until this holds.
RoomIn(name, queue, length) == name \in created /\ Len(queue) < length

\* configASSERT(pxQueue) in the kernel: interrupts off, CPU halted.
HaltOnNull(name, caller) == name \notin created /\ halted' = caller

CreateQueue(name) == created' = created \union {name}

-----------------------------------------------------------------------------
(* Wi-Fi, broker and MQTT library *)

Spend(event) ==
  /\ env_left[event] > 0
  /\ env_left' = [env_left EXCEPT ![event] = @ - 1]

\* The access point goes away.  The MQTT session does not notice at once.
WifiDrops ==
  /\ wifi_up
  /\ Spend("wifi_loss")
  /\ wifi_up' = FALSE
  /\ UNCHANGED <<session_up, subscribed, lib_events>>

\* The connection manager restores a link it had, unasked.
WifiRejoins ==
  /\ ~wifi_up
  /\ env_left["wifi_loss"] < EnvBudget["wifi_loss"]
  /\ Spend("wifi_rejoin")
  /\ wifi_up' = TRUE
  /\ UNCHANGED <<session_up, subscribed, lib_events>>

LoseSession ==
  /\ session_up
  /\ session_up' = FALSE
  /\ subscribed' = FALSE
  /\ lib_events' = Append(lib_events, "DISCONNECT")
  /\ UNCHANGED wifi_up

\* The broker or the network ends the session.
SessionDrops == LoseSession /\ Spend("session_loss")

\* Keep-alive notices that the link under the session has gone.
KeepAliveExpires == LoseSession /\ ~wifi_up /\ UNCHANGED env_left

\* The broker forwards a message to every subscriber.
Deliver(msg) ==
  lib_events' = IF subscribed THEN Append(lib_events, msg) ELSE lib_events

ForeignMessage ==
  /\ subscribed
  /\ Spend("foreign")
  /\ \E msg \in Payload : Deliver(msg)
  /\ UNCHANGED <<wifi_up, session_up, subscribed>>

Online == wifi_up /\ session_up
=============================================================================
