--------------------------- MODULE SubscriberTask ---------------------------
(***************************************************************************)
(* subscriber_task.c: the task that subscribes to the topic and drives the *)
(* user LED, and mqtt_subscription_callback(), which runs on the MQTT      *)
(* library's thread and hands the task each state it receives.             *)
(*                                                                         *)
(* UNSUBSCRIBE_FROM_TOPIC is not modelled: nothing in the application      *)
(* sends it.  A local variable of the code goes back to its initial value  *)
(* when it is dead, here and in the modules above.                         *)
(***************************************************************************)
EXTENDS Platform

CONSTANT MAX_SUBSCRIBE_RETRIES   \* 3 in the source

ASSUME SubscribeRetriesAssumption == MAX_SUBSCRIBE_RETRIES \in Nat \ {0}

VARIABLES
  sub_pc,                \* "none" until xTaskCreate, "deleted" after vTaskDelete
  sub_retry,             \* retry_count in subscribe_to_topic()
  sub_data,              \* the device state in the received command
  led,
  current_device_state

subVars == <<sub_pc, sub_retry, sub_data, led, current_device_state>>

SubPcs == {"none", "init_led", "subscribe", "report_failure", "create_queue",
           "receive", "write_led", "write_state", "deleted"}

SubTypeOK ==
  /\ sub_pc \in SubPcs
  /\ sub_retry \in 0..(MAX_SUBSCRIBE_RETRIES - 1)
  /\ sub_data \in DeviceState
  /\ led \in DeviceState
  /\ current_device_state \in DeviceState

SubInit ==
  /\ sub_pc = "none"
  /\ sub_retry = 0
  /\ sub_data = "OFF"
  /\ led = "OFF"
  /\ current_device_state = "OFF"

-----------------------------------------------------------------------------
(* subscribe_to_topic(), called at start-up and for SUBSCRIBE_TO_TOPIC *)

EnterSubscribe == sub_pc' = "subscribe" /\ sub_retry' = 0

\* The start-up call is followed by xQueueCreate, the others by the task loop.
LeaveSubscribe ==
  /\ sub_pc' = IF "subscriber_task_q" \in created THEN "receive" ELSE "create_queue"
  /\ sub_retry' = 0

SubscribeSucceeds ==
  /\ sub_pc = "subscribe"
  /\ Online
  /\ subscribed' = TRUE
  /\ LeaveSubscribe
  /\ UNCHANGED <<sub_data, led, current_device_state>>
  /\ UNCHANGED <<wifi_up, session_up, lib_events, queueVars, created>>

\* Mutant: one attempt too many.
SubscribeFailsOffByOne ==
  /\ sub_pc = "subscribe"
  /\ IF sub_retry < MAX_SUBSCRIBE_RETRIES
     THEN sub_retry' = sub_retry + 1 /\ UNCHANGED sub_pc
     ELSE sub_pc' = "report_failure" /\ sub_retry' = 0
  /\ UNCHANGED <<sub_data, led, current_device_state, netVars, queueVars, created>>

SubscribeFails ==
  /\ sub_pc = "subscribe"
  /\ IF sub_retry + 1 < MAX_SUBSCRIBE_RETRIES
     THEN sub_retry' = sub_retry + 1 /\ UNCHANGED sub_pc
     ELSE sub_pc' = "report_failure" /\ sub_retry' = 0
  /\ UNCHANGED <<sub_data, led, current_device_state, netVars, queueVars, created>>

ReportSubscribeFailure ==
  /\ sub_pc = "report_failure"
  /\ RoomIn("mqtt_task_q", mqtt_task_q, MQTT_TASK_QUEUE_LENGTH)
  /\ mqtt_task_q' = Append(mqtt_task_q, "HANDLE_MQTT_SUBSCRIBE_FAILURE")
  /\ LeaveSubscribe
  /\ UNCHANGED <<sub_data, led, current_device_state, netVars>>
  /\ UNCHANGED <<publisher_task_q, subscriber_task_q, created>>

-----------------------------------------------------------------------------
(* subscriber_task() *)

SubscriberInitLed ==
  /\ sub_pc = "init_led"
  /\ led' = "OFF"
  /\ EnterSubscribe
  /\ UNCHANGED <<sub_data, current_device_state, netVars, queueVars, created>>

SubscriberCreateQueue ==
  /\ sub_pc = "create_queue"
  /\ CreateQueue("subscriber_task_q")
  /\ sub_pc' = "receive"
  /\ UNCHANGED <<sub_retry, sub_data, led, current_device_state, netVars, queueVars>>

SubscriberReceive ==
  /\ sub_pc = "receive"
  /\ subscriber_task_q # <<>>
  /\ subscriber_task_q' = Tail(subscriber_task_q)
  /\ LET item == Head(subscriber_task_q) IN
       \/ item.cmd = "SUBSCRIBE_TO_TOPIC" /\ EnterSubscribe /\ UNCHANGED sub_data
       \/ /\ item.cmd = "UPDATE_DEVICE_STATE"
          /\ sub_data' = item.data
          /\ sub_pc' = "write_led"
          /\ UNCHANGED sub_retry
  /\ UNCHANGED <<led, current_device_state, netVars, mqtt_task_q, publisher_task_q, created>>

SubscriberWriteLed ==
  /\ sub_pc = "write_led"
  /\ led' = sub_data
  /\ sub_pc' = "write_state"
  /\ UNCHANGED <<sub_retry, sub_data, current_device_state, netVars, queueVars, created>>

SubscriberWriteState ==
  /\ sub_pc = "write_state"
  /\ current_device_state' = sub_data
  /\ sub_data' = "OFF"
  /\ sub_pc' = "receive"
  /\ UNCHANGED <<sub_retry, led, netVars, queueVars, created>>

SubscriberStep ==
  /\ \/ SubscribeSucceeds \/ SubscribeFails \/ ReportSubscribeFailure
     \/ SubscriberInitLed \/ SubscriberCreateQueue \/ SubscriberReceive
     \/ SubscriberWriteLed \/ SubscriberWriteState
  /\ UNCHANGED <<halted, cbVars, env_left>>

-----------------------------------------------------------------------------
(* mqtt_subscription_callback(), after mqtt_event_callback() has called it *)

\* An invalid payload returns early; a valid one goes on to xQueueSend.
EnterSubscriptionCallback ==
  cb_pc' = IF cb_msg \in DeviceState THEN "send_update" ELSE "idle"

\* Mutant: a send that does not wait.
SubscriptionCallbackSendOrDrop ==
  /\ cb_pc = "send_update"
  /\ "subscriber_task_q" \in created
  /\ subscriber_task_q' =
       IF Len(subscriber_task_q) < SUBSCRIBER_TASK_QUEUE_LENGTH
       THEN Append(subscriber_task_q, [cmd |-> "UPDATE_DEVICE_STATE", data |-> cb_msg])
       ELSE subscriber_task_q
  /\ cb_pc' = "idle"
  /\ cb_msg' = "INVALID"
  /\ UNCHANGED <<mqtt_task_q, publisher_task_q, halted, created, netVars>>

SubscriptionCallbackSend ==
  /\ cb_pc = "send_update"
  /\ RoomIn("subscriber_task_q", subscriber_task_q, SUBSCRIBER_TASK_QUEUE_LENGTH)
  /\ subscriber_task_q' =
       Append(subscriber_task_q, [cmd |-> "UPDATE_DEVICE_STATE", data |-> cb_msg])
  /\ cb_pc' = "idle"
  /\ cb_msg' = "INVALID"
  /\ UNCHANGED <<mqtt_task_q, publisher_task_q, halted, created, netVars>>

SubscriptionCallbackHalts ==
  /\ cb_pc = "send_update"
  /\ HaltOnNull("subscriber_task_q", "mqtt_subscription_callback")
  /\ UNCHANGED <<cbVars, queueVars, created, netVars>>
=============================================================================
