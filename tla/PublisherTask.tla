---------------------------- MODULE PublisherTask ----------------------------
(***************************************************************************)
(* publisher_task.c: the task that owns the user button and publishes, and *)
(* the button's interrupt service routine, which preempts every task.      *)
(* Like the source file, it reads current_device_state of the subscriber.  *)
(***************************************************************************)
EXTENDS SubscriberTask

VARIABLES
  pub_pc,       \* "none" until xTaskCreate, "deleted" after vTaskDelete
  pub_data,     \* payload of the PUBLISH_MQTT_MSG command in hand
  button        \* "armed" between publisher_init() and publisher_deinit()

pubVars == <<pub_pc, pub_data, button>>

PubPcs == {"none", "start", "create_queue", "receive", "init", "deinit",
           "publish", "report_failure", "deleted"}

PubTypeOK ==
  /\ pub_pc \in PubPcs
  /\ pub_data \in DeviceState
  /\ button \in {"free", "armed"}

PubInit == pub_pc = "none" /\ pub_data = "OFF" /\ button = "free"

-----------------------------------------------------------------------------
(* publisher_task() *)

publisher_init   == button' = "armed"
publisher_deinit == button' = "free"

PublisherStart ==
  /\ pub_pc = "start"
  /\ publisher_init
  /\ pub_pc' = "create_queue"
  /\ UNCHANGED <<pub_data, netVars, queueVars, created>>

PublisherCreateQueue ==
  /\ pub_pc = "create_queue"
  /\ CreateQueue("publisher_task_q")
  /\ pub_pc' = "receive"
  /\ UNCHANGED <<pub_data, button, netVars, queueVars>>

PublisherReceive ==
  /\ pub_pc = "receive"
  /\ publisher_task_q # <<>>
  /\ publisher_task_q' = Tail(publisher_task_q)
  /\ LET item == Head(publisher_task_q) IN
       \/ item.cmd = "PUBLISHER_INIT" /\ pub_pc' = "init" /\ UNCHANGED pub_data
       \/ item.cmd = "PUBLISHER_DEINIT" /\ pub_pc' = "deinit" /\ UNCHANGED pub_data
       \/ /\ item.cmd = "PUBLISH_MQTT_MSG"
          /\ pub_data' = item.data
          /\ pub_pc' = "publish"
  /\ UNCHANGED <<button, netVars, mqtt_task_q, subscriber_task_q, created>>

PublisherInit ==
  /\ pub_pc = "init"
  /\ publisher_init
  /\ pub_pc' = "receive"
  /\ UNCHANGED <<pub_data, netVars, queueVars, created>>

PublisherDeinit ==
  /\ pub_pc = "deinit"
  /\ publisher_deinit
  /\ pub_pc' = "receive"
  /\ UNCHANGED <<pub_data, netVars, queueVars, created>>

\* QoS 1: success means that the broker has the message.
PublishSucceeds ==
  /\ pub_pc = "publish"
  /\ Online
  /\ Deliver(pub_data)
  /\ pub_pc' = "receive"
  /\ pub_data' = "OFF"
  /\ UNCHANGED <<button, wifi_up, session_up, subscribed, queueVars, created>>

\* A failed publish may have reached the broker: only its PUBACK was lost.
PublishFails ==
  /\ pub_pc = "publish"
  /\ (Online /\ Deliver(pub_data)) \/ UNCHANGED lib_events
  /\ pub_pc' = "report_failure"
  /\ pub_data' = "OFF"
  /\ UNCHANGED <<button, wifi_up, session_up, subscribed, queueVars, created>>

ReportPublishFailure ==
  /\ pub_pc = "report_failure"
  /\ RoomIn("mqtt_task_q", mqtt_task_q, MQTT_TASK_QUEUE_LENGTH)
  /\ mqtt_task_q' = Append(mqtt_task_q, "HANDLE_MQTT_PUBLISH_FAILURE")
  /\ pub_pc' = "receive"
  /\ UNCHANGED <<pub_data, button, netVars, publisher_task_q, subscriber_task_q, created>>

PublisherStep ==
  /\ \/ PublisherStart \/ PublisherCreateQueue \/ PublisherReceive
     \/ PublisherInit \/ PublisherDeinit
     \/ PublishSucceeds \/ PublishFails \/ ReportPublishFailure
  /\ UNCHANGED <<halted, cbVars, env_left>>

-----------------------------------------------------------------------------
(* isr_button_press() *)

Opposite(state) == IF state = "ON" THEN "OFF" ELSE "ON"

\* xQueueSendFromISR never blocks: with the queue full the press is lost.
isr_button_press ==
  LET item == [cmd  |-> "PUBLISH_MQTT_MSG",
               data |-> Opposite(current_device_state)]
  IN
  \/ HaltOnNull("publisher_task_q", "isr_button_press") /\ UNCHANGED publisher_task_q
  \/ /\ "publisher_task_q" \in created
     /\ publisher_task_q' = IF Len(publisher_task_q) < PUBLISHER_TASK_QUEUE_LENGTH
                            THEN Append(publisher_task_q, item)
                            ELSE publisher_task_q
     /\ UNCHANGED halted

ButtonPress ==
  /\ button = "armed"
  /\ Spend("press")
  /\ isr_button_press
  /\ UNCHANGED <<mqtt_task_q, subscriber_task_q, created, netVars, cbVars, pubVars>>
=============================================================================
