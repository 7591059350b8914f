---------------------------- MODULE MqttAppProofs ----------------------------
(***************************************************************************)
(* Theorems about MqttApp, for every value of the constants: the types,    *)
(* the fate of a disconnection, and why cleanup() of mqtt_task.c gives     *)
(* everything back although mqtt_event_callback() updates status_flag      *)
(* without a lock.                                                         *)
(***************************************************************************)
EXTENDS MqttApp, TLAPS

-----------------------------------------------------------------------------
(* Types: the initial state *)

LEMMA InitTypeOK == Init => TypeOK
<1> SUFFICES ASSUME Init PROVE TypeOK
  OBVIOUS
<1>1. PlatformTypeOK
  <2>1. PlatformInit
    BY DEF Init
  <2>2. env_left \in [EnvEvents -> Nat]
    BY <2>1, EnvBudgetAssumption DEF PlatformInit
  <2>3. /\ mqtt_task_q \in Seq(MqttTaskCmd)
        /\ publisher_task_q \in Seq(PublisherData)
        /\ subscriber_task_q \in Seq(SubscriberData)
        /\ lib_events \in Seq(LibEvents)
    BY <2>1 DEF PlatformInit
  <2>4. created \subseteq Queues /\ halted \in {"no"} \union Callers
    BY <2>1 DEF PlatformInit
  <2>5. cb_msg \in Payload
    BY <2>1 DEF PlatformInit, Payload
  <2> QED
    BY <2>1, <2>2, <2>3, <2>4, <2>5 DEF PlatformInit, PlatformTypeOK
<1>2. SubTypeOK
  BY SubscribeRetriesAssumption DEF Init, SubInit, SubTypeOK, DeviceState, SubPcs
<1>3. PubTypeOK
  BY DEF Init, PubInit, PubTypeOK, DeviceState, PubPcs
<1>4. MqttTypeOK
  BY ConnRetriesAssumption DEF Init, MqttInit, MqttTypeOK, MqttPcs, StartupPcs
<1> QED
  BY <1>1, <1>2, <1>3, <1>4 DEF TypeOK

-----------------------------------------------------------------------------
(* Types: the platform *)

LEMMA SubscriberPlatformType ==
  ASSUME PlatformTypeOK, SubTypeOK, SubscriberStep PROVE PlatformTypeOK'
<1>1. CASE SubscribeSucceeds
  BY <1>1 DEF SubscriberStep, PlatformTypeOK, SubscribeSucceeds, cbVars, queueVars
<1>2. CASE SubscribeFails
  BY <1>2 DEF SubscriberStep, PlatformTypeOK, SubscribeFails, cbVars, queueVars, netVars
<1>3. CASE ReportSubscribeFailure
  BY <1>3 DEF SubscriberStep, PlatformTypeOK, ReportSubscribeFailure, MqttTaskCmd, cbVars, netVars
<1>4. CASE SubscriberInitLed
  BY <1>4 DEF SubscriberStep, PlatformTypeOK, SubscriberInitLed, cbVars, queueVars, netVars
<1>5. CASE SubscriberCreateQueue
  BY <1>5 DEF SubscriberStep, PlatformTypeOK, SubscriberCreateQueue, CreateQueue, Queues,
              cbVars, queueVars, netVars
<1>6. CASE SubscriberReceive
  BY <1>6 DEF SubscriberStep, PlatformTypeOK, SubscriberReceive, cbVars, netVars
<1>7. CASE SubscriberWriteLed
  BY <1>7 DEF SubscriberStep, PlatformTypeOK, SubscriberWriteLed, cbVars, queueVars, netVars
<1>8. CASE SubscriberWriteState
  BY <1>8 DEF SubscriberStep, PlatformTypeOK, SubscriberWriteState, cbVars, queueVars, netVars
<1> QED
  BY <1>1, <1>2, <1>3, <1>4, <1>5, <1>6, <1>7, <1>8 DEF SubscriberStep

-----------------------------------------------------------------------------
(* Types: the other steps on the platform *)

LEMMA DeliverType ==
  ASSUME PlatformTypeOK, NEW msg \in Payload, Deliver(msg) PROVE lib_events' \in Seq(LibEvents)
<1>1. msg \in LibEvents /\ lib_events \in Seq(LibEvents)
  BY DEF LibEvents, PlatformTypeOK
<1> QED
  BY <1>1 DEF Deliver

LEMMA PublisherPlatformType ==
  ASSUME PlatformTypeOK, PubTypeOK, PublisherStep PROVE PlatformTypeOK'
<1>1. CASE PublisherStart
  BY <1>1 DEF PublisherStep, PlatformTypeOK, PublisherStart, queueVars, netVars, cbVars
<1>2. CASE PublisherCreateQueue
  BY <1>2 DEF PublisherStep, PlatformTypeOK, PublisherCreateQueue, CreateQueue, Queues,
              queueVars, netVars, cbVars
<1>3. CASE PublisherReceive
  BY <1>3 DEF PublisherStep, PlatformTypeOK, PublisherReceive, netVars, cbVars
<1>4. CASE PublisherInit
  BY <1>4 DEF PublisherStep, PlatformTypeOK, PublisherInit, queueVars, netVars, cbVars
<1>5. CASE PublisherDeinit
  BY <1>5 DEF PublisherStep, PlatformTypeOK, PublisherDeinit, queueVars, netVars, cbVars
<1>6. CASE PublishSucceeds
  BY <1>6, DeliverType DEF PublisherStep, PlatformTypeOK, PublishSucceeds, PubTypeOK, Payload, queueVars,
              cbVars
<1>7. CASE PublishFails
  BY <1>7, DeliverType DEF PublisherStep, PlatformTypeOK, PublishFails, PubTypeOK, Payload, queueVars,
              cbVars
<1>8. CASE ReportPublishFailure
  BY <1>8 DEF PublisherStep, PlatformTypeOK, ReportPublishFailure, MqttTaskCmd, netVars,
              cbVars
<1> QED
  BY <1>1, <1>2, <1>3, <1>4, <1>5, <1>6, <1>7, <1>8 DEF PublisherStep

LEMMA PressPlatformType ==
  ASSUME PlatformTypeOK, SubTypeOK, ButtonPress PROVE PlatformTypeOK'
<1>1. env_left' \in [EnvEvents -> Nat]
  BY DEF ButtonPress, Spend, PlatformTypeOK, EnvEvents
<1>2. [cmd |-> "PUBLISH_MQTT_MSG", data |-> Opposite(current_device_state)] \in PublisherData
  BY DEF SubTypeOK, Opposite, DeviceState, PublisherData
<1>3. publisher_task_q' \in Seq(PublisherData)
  <2>1. publisher_task_q \in Seq(PublisherData)
    BY DEF PlatformTypeOK
  <2> QED
    BY <1>2, <2>1 DEF ButtonPress, isr_button_press
<1>4. halted' \in {"no"} \union Callers
  BY DEF ButtonPress, isr_button_press, HaltOnNull, PlatformTypeOK, Callers
<1> QED
  BY <1>1, <1>3, <1>4 DEF ButtonPress, PlatformTypeOK, netVars, cbVars

LEMMA NetworkPlatformType ==
  ASSUME PlatformTypeOK, Network PROVE PlatformTypeOK'
<1>1. env_left' \in [EnvEvents -> Nat]
  BY DEF Network, WifiDrops, WifiRejoins, SessionDrops, KeepAliveExpires, ForeignMessage, Spend,
         PlatformTypeOK, EnvEvents
<1>2. lib_events' \in Seq(LibEvents)
  <2>1. lib_events \in Seq(LibEvents) /\ "DISCONNECT" \in LibEvents
    BY DEF PlatformTypeOK, LibEvents
  <2>2. CASE WifiDrops \/ WifiRejoins
    BY <2>1, <2>2 DEF WifiDrops, WifiRejoins
  <2>3. CASE LoseSession
    BY <2>1, <2>3 DEF LoseSession
  <2>4. CASE ForeignMessage
    BY <2>4, DeliverType DEF ForeignMessage
  <2> QED
    BY <2>2, <2>3, <2>4 DEF Network, SessionDrops, KeepAliveExpires
<1>3. wifi_up' \in BOOLEAN /\ session_up' \in BOOLEAN /\ subscribed' \in BOOLEAN
  BY DEF Network, WifiDrops, WifiRejoins, SessionDrops, KeepAliveExpires, ForeignMessage,
         LoseSession, PlatformTypeOK
<1> QED
  BY <1>1, <1>2, <1>3 DEF Network, PlatformTypeOK, queueVars, cbVars

LEMMA CallbackPlatformType ==
  ASSUME PlatformTypeOK, CallbackStep PROVE PlatformTypeOK'
<1>1. CASE CallbackEnter
  BY <1>1 DEF CallbackStep, PlatformTypeOK, CallbackEnter, LibEvents, queueVars
<1>2. CASE CallbackClearFlag
  BY <1>2 DEF CallbackStep, PlatformTypeOK, CallbackClearFlag, netVars, queueVars
<1>3. CASE CallbackSendDisconnection
  BY <1>3 DEF CallbackStep, PlatformTypeOK, CallbackSendDisconnection, MqttTaskCmd, netVars
<1>4. CASE CallbackSetFlag
  BY <1>4 DEF CallbackStep, PlatformTypeOK, CallbackSetFlag, EnterSubscriptionCallback,
              netVars, queueVars
<1>5. CASE SubscriptionCallbackSend
  <2>1. [cmd |-> "UPDATE_DEVICE_STATE", data |-> cb_msg] \in SubscriberData
    BY <1>5 DEF SubscriptionCallbackSend, PlatformTypeOK, SubscriberData
  <2>2. subscriber_task_q' \in Seq(SubscriberData)
    BY <1>5, <2>1 DEF SubscriptionCallbackSend, PlatformTypeOK
  <2> QED
    BY <1>5, <2>2 DEF CallbackStep, PlatformTypeOK, SubscriptionCallbackSend, Payload, netVars
<1>6. CASE SubscriptionCallbackHalts
  BY <1>6 DEF CallbackStep, PlatformTypeOK, SubscriptionCallbackHalts, HaltOnNull, Callers,
              netVars, queueVars, cbVars
<1> QED
  BY <1>1, <1>2, <1>3, <1>4, <1>5, <1>6 DEF CallbackStep

-----------------------------------------------------------------------------
(* Types: the client task's steps *)

\* The steps of the client task that leave the platform alone.
PrivateStep ==
  \/ WcmInit \/ MqttLibInit \/ MqttMalloc \/ MqttCreate \/ MqttRegisterCallback
  \/ CreateSubscriber \/ CreatePublisher \/ WifiConnectEnter \/ WifiConnectApFails
  \/ MqttConnectClientId \/ MqttConnectApCheck \/ MqttConnectFails
  \/ MqttConnectLoadFlags \/ MqttConnectStoreSuccess \/ RecoveryApCheck
  \/ DeleteSubscriber \/ DeletePublisher
  \/ CleanupDelete \/ CleanupFree \/ CleanupDeinit \/ CleanupWcm

LEMMA PrivateStepIsPrivate == PrivateStep => UNCHANGED queuesAndNet
BY DEF PrivateStep, WcmInit, MqttLibInit, MqttMalloc, MqttCreate, Acquire, MqttRegisterCallback,
       CreateSubscriber, CreatePublisher, WifiConnectEnter, WifiConnectApFails,
       MqttConnectClientId, MqttConnectApCheck, MqttConnectFails, MqttConnectLoadFlags,
       MqttConnectStoreSuccess, StoreFlags, RecoveryApCheck, DeleteSubscriber, DeletePublisher,
       CleanupDelete, CleanupFree, CleanupDeinit, CleanupWcm, Release

LEMMA MqttTaskPlatformType ==
  ASSUME PlatformTypeOK, MqttTaskStep PROVE PlatformTypeOK'
<1> USE DEF PlatformTypeOK
<1>1. env_left' = env_left
  BY DEF MqttTaskStep
<1>2. CASE PrivateStep
  BY <1>1, <1>2, PrivateStepIsPrivate DEF queuesAndNet, queueVars, netVars, cbVars
<1>3. CASE MqttCreateQueue
  BY <1>1, <1>3 DEF MqttCreateQueue, CreateQueue, Queues, queueVars, netVars, cbVars
<1>4. CASE WifiConnectApSucceeds \/ CleanupWifi
  BY <1>1, <1>4 DEF WifiConnectApSucceeds, CleanupWifi, queueVars, cbVars
<1>5. CASE MqttConnectSucceeds \/ MqttDisconnect
  BY <1>1, <1>5 DEF MqttConnectSucceeds, MqttDisconnect, queueVars, cbVars
<1>6. CASE CleanupDisconnect
  BY <1>1, <1>6 DEF CleanupDisconnect, queueVars, cbVars
<1>7. CASE MqttReceive
  BY <1>1, <1>7 DEF MqttReceive, netVars, cbVars
<1>8. ASSUME NEW from, NEW cmd \in {"PUBLISHER_INIT", "PUBLISHER_DEINIT"}, NEW to,
             SendToPublisher(from, cmd, to)
      PROVE  PlatformTypeOK'
  <2>1. [cmd |-> cmd, data |-> "none"] \in PublisherData
    BY DEF PublisherData
  <2>2. publisher_task_q' \in Seq(PublisherData)
    BY <1>8, <2>1 DEF SendToPublisher
  <2> QED
    BY <1>1, <1>8, <2>2 DEF SendToPublisher, netVars, cbVars
<1>9. CASE SendSubscribe
  <2>1. [cmd |-> "SUBSCRIBE_TO_TOPIC", data |-> "none"] \in SubscriberData
    BY DEF SubscriberData
  <2>2. subscriber_task_q' \in Seq(SubscriberData)
    BY <1>9, <2>1 DEF SendSubscribe
  <2> QED
    BY <1>1, <1>9, <2>2 DEF SendSubscribe, netVars, cbVars
<1>10. CASE MqttTaskHalts
  BY <1>1, <1>10 DEF MqttTaskHalts, HaltOnNull, Callers, queueVars, netVars, cbVars
<1> QED
  BY <1>2, <1>3, <1>4, <1>5, <1>6, <1>7, <1>8, <1>9, <1>10
     DEF MqttTaskStep, PrivateStep, SendDeinit, SendInit

LEMMA MqttTaskSubType ==
  ASSUME SubTypeOK, MqttTaskStep PROVE SubTypeOK'
<1>1. CASE CreateSubscriber \/ DeleteSubscriber
  BY <1>1 DEF CreateSubscriber, DeleteSubscriber, SubTypeOK, SubPcs
<1>2. CASE UNCHANGED subVars
  BY <1>2 DEF subVars, SubTypeOK
<1> QED
  BY <1>1, <1>2 DEF MqttTaskStep, MqttCreateQueue, WcmInit, MqttLibInit, MqttMalloc, MqttCreate,
         Acquire, MqttRegisterCallback, CreateSubscriber, CreatePublisher,
         WifiConnectEnter, WifiConnectApSucceeds, WifiConnectApFails, MqttConnectClientId,
         MqttConnectApCheck, MqttConnectSucceeds, MqttConnectFails, MqttConnectLoadFlags,
         MqttConnectStoreSuccess, StoreFlags, MqttReceive, SendDeinit, MqttDisconnect,
         RecoveryApCheck, SendSubscribe, SendInit, SendToPublisher, MqttTaskHalts,
         DeleteSubscriber, DeletePublisher, CleanupDisconnect, CleanupDelete, CleanupFree,
         CleanupDeinit, CleanupWifi, CleanupWcm, Release

LEMMA MqttTaskPubType ==
  ASSUME PubTypeOK, MqttTaskStep PROVE PubTypeOK'
<1>1. CASE CreatePublisher \/ DeletePublisher
  BY <1>1 DEF CreatePublisher, DeletePublisher, PubTypeOK, PubPcs
<1>2. CASE UNCHANGED pubVars
  BY <1>2 DEF pubVars, PubTypeOK
<1> QED
  BY <1>1, <1>2 DEF MqttTaskStep, MqttCreateQueue, WcmInit, MqttLibInit, MqttMalloc, MqttCreate,
         Acquire, MqttRegisterCallback, CreateSubscriber, CreatePublisher,
         WifiConnectEnter, WifiConnectApSucceeds, WifiConnectApFails, MqttConnectClientId,
         MqttConnectApCheck, MqttConnectSucceeds, MqttConnectFails, MqttConnectLoadFlags,
         MqttConnectStoreSuccess, StoreFlags, MqttReceive, SendDeinit, MqttDisconnect,
         RecoveryApCheck, SendSubscribe, SendInit, SendToPublisher, MqttTaskHalts,
         DeleteSubscriber, DeletePublisher, CleanupDisconnect, CleanupDelete, CleanupFree,
         CleanupDeinit, CleanupWifi, CleanupWcm, Release

LEMMA CallbackMqttType ==
  ASSUME MqttTypeOK, CallbackStep PROVE MqttTypeOK'
<1>1. UNCHANGED <<mqtt_pc, frames, task_flags, resources>>
  BY DEF CallbackStep
<1>2. status_flag' \subseteq Flags /\ cb_flags' \subseteq Flags
  BY DEF CallbackStep, CallbackEnter, CallbackClearFlag, CallbackSendDisconnection,
         CallbackSetFlag, SubscriptionCallbackSend, SubscriptionCallbackHalts, MqttTypeOK, Flags
<1> QED
  BY <1>1, <1>2 DEF MqttTypeOK, frames

\* mqtt_pc stays among its values, and so does the caller of wifi_connect().
LEMMA MqttTaskPcType ==
  ASSUME MqttTypeOK, MqttTaskStep PROVE mqtt_pc' \in MqttPcs
BY DEF MqttTypeOK, MqttTaskStep, MqttCreateQueue, WcmInit, MqttLibInit, MqttMalloc, MqttCreate,
         Acquire, MqttRegisterCallback, CreateSubscriber, CreatePublisher,
         WifiConnectEnter, WifiConnectApSucceeds, WifiConnectApFails, MqttConnectClientId,
         MqttConnectApCheck, MqttConnectSucceeds, MqttConnectFails, MqttConnectLoadFlags,
         MqttConnectStoreSuccess, StoreFlags, MqttReceive, SendDeinit, MqttDisconnect,
         RecoveryApCheck, SendSubscribe, SendInit, SendToPublisher, MqttTaskHalts,
         DeleteSubscriber, DeletePublisher, CleanupDisconnect, CleanupDelete, CleanupFree,
         CleanupDeinit, CleanupWifi, CleanupWcm, Release,
       Goto, CallWifiConnect, CallMqttConnect, WifiConnectReturns, frames,
       MqttPcs, WifiConnectPcs, MqttConnectPcs, StartupPcs, RecoveryPcs, ExitPcs

LEMMA MqttTaskMqttType ==
  ASSUME MqttTypeOK, MqttTaskStep PROVE MqttTypeOK'
<1>1. mqtt_pc' \in MqttPcs
  BY MqttTaskPcType
<1>2. wifi_caller' \in {"startup", "recovery", "mqtt_connect"} /\ mqtt_caller' \in {"startup", "recovery"}
  BY DEF MqttTypeOK, MqttTaskStep, MqttCreateQueue, WcmInit, MqttLibInit, MqttMalloc, MqttCreate,
         Acquire, MqttRegisterCallback, CreateSubscriber, CreatePublisher,
         WifiConnectEnter, WifiConnectApSucceeds, WifiConnectApFails, MqttConnectClientId,
         MqttConnectApCheck, MqttConnectSucceeds, MqttConnectFails, MqttConnectLoadFlags,
         MqttConnectStoreSuccess, StoreFlags, MqttReceive, SendDeinit, MqttDisconnect,
         RecoveryApCheck, SendSubscribe, SendInit, SendToPublisher, MqttTaskHalts,
         DeleteSubscriber, DeletePublisher, CleanupDisconnect, CleanupDelete, CleanupFree,
         CleanupDeinit, CleanupWifi, CleanupWcm, Release,
         CallWifiConnect, CallMqttConnect, frames
<1>3. wifi_retry' \in 0..(MAX_WIFI_CONN_RETRIES - 1)
  BY ConnRetriesAssumption DEF MqttTypeOK, MqttTaskStep, MqttCreateQueue, WcmInit, MqttLibInit, MqttMalloc, MqttCreate,
         Acquire, MqttRegisterCallback, CreateSubscriber, CreatePublisher,
         WifiConnectEnter, WifiConnectApSucceeds, WifiConnectApFails, MqttConnectClientId,
         MqttConnectApCheck, MqttConnectSucceeds, MqttConnectFails, MqttConnectLoadFlags,
         MqttConnectStoreSuccess, StoreFlags, MqttReceive, SendDeinit, MqttDisconnect,
         RecoveryApCheck, SendSubscribe, SendInit, SendToPublisher, MqttTaskHalts,
         DeleteSubscriber, DeletePublisher, CleanupDisconnect, CleanupDelete, CleanupFree,
         CleanupDeinit, CleanupWifi, CleanupWcm, Release,
         CallWifiConnect, WifiConnectReturns, frames
<1>4. mqtt_retry' \in 0..(MAX_MQTT_CONN_RETRIES - 1)
  <2>1. CASE MqttConnectFails
    BY <2>1, ConnRetriesAssumption DEF MqttTypeOK, MqttConnectFails
  <2>2. CASE ~MqttConnectFails
    <3>1. mqtt_retry' \in {mqtt_retry, 0}
      BY <2>2 DEF MqttTaskStep, MqttCreateQueue, WcmInit, MqttLibInit, MqttMalloc, MqttCreate,
         Acquire, MqttRegisterCallback, CreateSubscriber, CreatePublisher,
         WifiConnectEnter, WifiConnectApSucceeds, WifiConnectApFails, MqttConnectClientId,
         MqttConnectApCheck, MqttConnectSucceeds, MqttConnectFails, MqttConnectLoadFlags,
         MqttConnectStoreSuccess, StoreFlags, MqttReceive, SendDeinit, MqttDisconnect,
         RecoveryApCheck, SendSubscribe, SendInit, SendToPublisher, MqttTaskHalts,
         DeleteSubscriber, DeletePublisher, CleanupDisconnect, CleanupDelete, CleanupFree,
         CleanupDeinit, CleanupWifi, CleanupWcm, Release, frames
    <3> QED
      BY <3>1, ConnRetriesAssumption DEF MqttTypeOK
  <2> QED
    BY <2>1, <2>2
<1>5. status_flag' \subseteq Flags /\ task_flags' \subseteq Flags
  BY DEF MqttTypeOK, Flags, MqttTaskStep, MqttCreateQueue, WcmInit, MqttLibInit, MqttMalloc, MqttCreate,
         Acquire, MqttRegisterCallback, CreateSubscriber, CreatePublisher,
         WifiConnectEnter, WifiConnectApSucceeds, WifiConnectApFails, MqttConnectClientId,
         MqttConnectApCheck, MqttConnectSucceeds, MqttConnectFails, MqttConnectLoadFlags,
         MqttConnectStoreSuccess, StoreFlags, MqttReceive, SendDeinit, MqttDisconnect,
         RecoveryApCheck, SendSubscribe, SendInit, SendToPublisher, MqttTaskHalts,
         DeleteSubscriber, DeletePublisher, CleanupDisconnect, CleanupDelete, CleanupFree,
         CleanupDeinit, CleanupWifi, CleanupWcm, Release, flagsAndRes
<1>6. resources' \subseteq Resources
  BY DEF MqttTypeOK, Resources, MqttTaskStep, MqttCreateQueue, WcmInit, MqttLibInit, MqttMalloc, MqttCreate,
         Acquire, MqttRegisterCallback, CreateSubscriber, CreatePublisher,
         WifiConnectEnter, WifiConnectApSucceeds, WifiConnectApFails, MqttConnectClientId,
         MqttConnectApCheck, MqttConnectSucceeds, MqttConnectFails, MqttConnectLoadFlags,
         MqttConnectStoreSuccess, StoreFlags, MqttReceive, SendDeinit, MqttDisconnect,
         RecoveryApCheck, SendSubscribe, SendInit, SendToPublisher, MqttTaskHalts,
         DeleteSubscriber, DeletePublisher, CleanupDisconnect, CleanupDelete, CleanupFree,
         CleanupDeinit, CleanupWifi, CleanupWcm, Release, flagsAndRes
<1>7. cb_flags' = cb_flags
  BY DEF MqttTaskStep
<1> QED
  BY <1>1, <1>2, <1>3, <1>4, <1>5, <1>6, <1>7 DEF MqttTypeOK

-----------------------------------------------------------------------------
(* Types: the workers' own variables *)

LEMMA SubscriberSubType ==
  ASSUME PlatformTypeOK, SubTypeOK, SubscriberStep PROVE SubTypeOK'
<1>1. sub_pc' \in SubPcs
  BY DEF SubTypeOK, SubPcs, SubscriberStep, SubscribeSucceeds, SubscribeFails,
         ReportSubscribeFailure, SubscriberInitLed, SubscriberCreateQueue, SubscriberReceive,
         SubscriberWriteLed, SubscriberWriteState, EnterSubscribe, LeaveSubscribe
<1>2. sub_retry' \in 0..(MAX_SUBSCRIBE_RETRIES - 1)
  BY SubscribeRetriesAssumption
     DEF SubTypeOK, SubscriberStep, SubscribeSucceeds, SubscribeFails,
         ReportSubscribeFailure, SubscriberInitLed, SubscriberCreateQueue, SubscriberReceive,
         SubscriberWriteLed, SubscriberWriteState, EnterSubscribe, LeaveSubscribe
<1>3. CASE SubscriberReceive
  <2>1. Head(subscriber_task_q) \in SubscriberData
    BY <1>3 DEF SubscriberReceive, PlatformTypeOK
  <2>2. sub_data' \in DeviceState
    BY <1>3, <2>1 DEF SubscriberReceive, SubscriberData, SubTypeOK
  <2> QED
    BY <1>1, <1>2, <1>3, <2>2 DEF SubscriberReceive, SubTypeOK
<1>4. CASE ~SubscriberReceive
  <2>1. sub_data' \in DeviceState /\ led' \in DeviceState /\ current_device_state' \in DeviceState
    BY <1>4 DEF SubTypeOK, DeviceState, SubscriberStep, SubscribeSucceeds, SubscribeFails,
         ReportSubscribeFailure, SubscriberInitLed, SubscriberCreateQueue,
         SubscriberWriteLed, SubscriberWriteState
  <2> QED
    BY <1>1, <1>2, <2>1 DEF SubTypeOK
<1> QED
  BY <1>3, <1>4

LEMMA PublisherPubType ==
  ASSUME PlatformTypeOK, PubTypeOK, PublisherStep PROVE PubTypeOK'
<1>1. pub_pc' \in PubPcs /\ button' \in {"free", "armed"}
  BY DEF PubTypeOK, PubPcs, PublisherStep, PublisherStart, PublisherCreateQueue, PublisherReceive,
         PublisherInit, PublisherDeinit, PublishSucceeds, PublishFails, ReportPublishFailure,
         publisher_init, publisher_deinit
<1>2. CASE PublisherReceive
  <2>1. Head(publisher_task_q) \in PublisherData
    BY <1>2 DEF PublisherReceive, PlatformTypeOK
  <2>2. pub_data' \in DeviceState
    BY <1>2, <2>1 DEF PublisherReceive, PublisherData, PubTypeOK
  <2> QED
    BY <1>1, <2>2 DEF PubTypeOK
<1>3. CASE ~PublisherReceive
  <2>1. pub_data' \in DeviceState
    BY <1>3 DEF PubTypeOK, DeviceState, PublisherStep, PublisherStart, PublisherCreateQueue,
         PublisherInit, PublisherDeinit, PublishSucceeds, PublishFails, ReportPublishFailure
  <2> QED
    BY <1>1, <2>1 DEF PubTypeOK
<1> QED
  BY <1>2, <1>3

-----------------------------------------------------------------------------
(* Types: all steps together *)

LEMMA NextTypeOK == TypeOK /\ [Next]_vars => TypeOK'
<1> SUFFICES ASSUME TypeOK, [Next]_vars PROVE TypeOK'
  OBVIOUS
<1>0. PlatformTypeOK /\ SubTypeOK /\ PubTypeOK /\ MqttTypeOK
  BY DEF TypeOK
<1>1. CASE MqttTask
  BY <1>0, <1>1, MqttTaskPlatformType, MqttTaskSubType, MqttTaskPubType, MqttTaskMqttType
     DEF MqttTask, TypeOK
<1>2. CASE Callback
  <2>1. PubTypeOK' /\ SubTypeOK'
    BY <1>0, <1>2 DEF Callback, CallbackStep, pubVars, subVars, PubTypeOK, SubTypeOK
  <2> QED
    BY <1>0, <1>2, <2>1, CallbackPlatformType, CallbackMqttType DEF Callback, TypeOK
<1>3. CASE Subscriber
  <2>1. PubTypeOK' /\ MqttTypeOK'
    BY <1>0, <1>3 DEF Subscriber, pubVars, mqttVars, PubTypeOK, MqttTypeOK
  <2> QED
    BY <1>0, <1>3, <2>1, SubscriberPlatformType, SubscriberSubType DEF Subscriber, TypeOK
<1>4. CASE Publisher
  <2>1. SubTypeOK' /\ MqttTypeOK'
    BY <1>0, <1>4 DEF Publisher, subVars, mqttVars, SubTypeOK, MqttTypeOK
  <2> QED
    BY <1>0, <1>4, <2>1, PublisherPlatformType, PublisherPubType DEF Publisher, TypeOK
<1>5. CASE Press
  <2>1. SubTypeOK' /\ PubTypeOK' /\ MqttTypeOK'
    BY <1>0, <1>5 DEF Press, ButtonPress, subVars, pubVars, mqttVars,
                      SubTypeOK, PubTypeOK, MqttTypeOK
  <2> QED
    BY <1>0, <1>5, <2>1, PressPlatformType DEF Press, TypeOK
<1>6. CASE Network
  <2>1. SubTypeOK' /\ PubTypeOK' /\ MqttTypeOK'
    BY <1>0, <1>6 DEF Network, subVars, pubVars, mqttVars, SubTypeOK, PubTypeOK, MqttTypeOK
  <2> QED
    BY <1>0, <1>6, <2>1, NetworkPlatformType DEF TypeOK
<1>7. CASE UNCHANGED vars
  <2>1. PlatformTypeOK'
    BY <1>0, <1>7 DEF vars, queueVars, netVars, cbVars, PlatformTypeOK
  <2>2. SubTypeOK' /\ PubTypeOK' /\ MqttTypeOK'
    BY <1>0, <1>7 DEF vars, subVars, pubVars, mqttVars, SubTypeOK, PubTypeOK, MqttTypeOK
  <2> QED
    BY <2>1, <2>2 DEF TypeOK
<1> QED
  BY <1>1, <1>2, <1>3, <1>4, <1>5, <1>6, <1>7 DEF Next

\* Every variable of the application stays within its type, whatever the queue
\* lengths, the retry limits and the number of environment events: in
\* particular no retry counter leaves its range and no queue holds a command
\* that is not one of its receiver's.
THEOREM TypeCorrect == Spec => []TypeOK
<1>1. Init => TypeOK
  BY InitTypeOK
<1>2. TypeOK /\ [Next]_vars => TypeOK'
  BY NextTypeOK
<1> QED
  BY <1>1, <1>2, PTL DEF Spec

-----------------------------------------------------------------------------
(* Sequences *)

LEMMA ContainsAppend ==
  ASSUME NEW S, NEW s \in Seq(S), NEW y \in S, NEW x
  PROVE  Contains(Append(s, y), x) <=> Contains(s, x) \/ y = x
<1>1. DOMAIN Append(s, y) = 1..(Len(s) + 1) /\ DOMAIN s = 1..Len(s) /\ Len(s) \in Nat
  OBVIOUS
<1>2. Append(s, y)[Len(s) + 1] = y /\ \A i \in 1..Len(s) : Append(s, y)[i] = s[i]
  OBVIOUS
<1> QED
  BY <1>1, <1>2 DEF Contains

LEMMA AtMostOneAppend ==
  ASSUME NEW S, NEW s \in Seq(S), NEW y \in S, NEW x,
         AtMostOne(s, x), y = x => ~Contains(s, x)
  PROVE  AtMostOne(Append(s, y), x)
<1>1. DOMAIN Append(s, y) = 1..(Len(s) + 1) /\ DOMAIN s = 1..Len(s) /\ Len(s) \in Nat
  OBVIOUS
<1>2. Append(s, y)[Len(s) + 1] = y /\ \A i \in 1..Len(s) : Append(s, y)[i] = s[i]
  OBVIOUS
<1> QED
  BY <1>1, <1>2 DEF AtMostOne, Contains

LEMMA AtMostOneTail ==
  ASSUME NEW S, NEW s \in Seq(S), s # <<>>, NEW x, AtMostOne(s, x)
  PROVE  /\ AtMostOne(Tail(s), x)
         /\ Contains(Tail(s), x) <=> Contains(s, x) /\ Head(s) # x
<1>1. /\ DOMAIN Tail(s) = 1..(Len(s) - 1) /\ DOMAIN s = 1..Len(s) /\ Len(s) \in Nat \ {0}
      /\ Head(s) = s[1]
  OBVIOUS
<1>2. \A i \in 1..(Len(s) - 1) : Tail(s)[i] = s[i + 1]
  OBVIOUS
<1>3. AtMostOne(Tail(s), x)
  BY <1>1, <1>2 DEF AtMostOne
<1>4. ASSUME Contains(Tail(s), x) PROVE Contains(s, x) /\ Head(s) # x
  <2>1. PICK i \in 1..(Len(s) - 1) : s[i + 1] = x
    BY <1>1, <1>2, <1>4 DEF Contains
  <2>2. i + 1 \in DOMAIN s /\ i + 1 # 1 /\ 1 \in DOMAIN s
    BY <1>1
  <2> QED
    BY <1>1, <2>1, <2>2 DEF AtMostOne, Contains
<1>5. ASSUME Contains(s, x), Head(s) # x PROVE Contains(Tail(s), x)
  <2>1. PICK i \in 1..Len(s) : s[i] = x
    BY <1>1, <1>5 DEF Contains
  <2>2. i - 1 \in 1..(Len(s) - 1) /\ (i - 1) + 1 = i
    BY <1>1, <1>5, <2>1
  <2> QED
    BY <1>1, <1>2, <2>1, <2>2 DEF Contains
<1> QED
  BY <1>3, <1>4, <1>5

-----------------------------------------------------------------------------
(* No disconnection is lost *)

InLibrary  == Contains(lib_events, "DISCONNECT")
InCallback == cb_pc \in {"clear_flag", "send_disconnection"}
InQueue    == Contains(mqtt_task_q, "HANDLE_DISCONNECTION")
InTask     == mqtt_pc \in ConnectingPcs

\* DisconnectionAccountedFor with its holders spelled out.
Accounted ==
  /\ AtMostOne(lib_events, "DISCONNECT")
  /\ AtMostOne(mqtt_task_q, "HANDLE_DISCONNECTION")
  /\ session_up => ~InLibrary /\ ~InCallback /\ ~InQueue /\ ~InTask
  /\ InLibrary  => ~InCallback /\ ~InQueue /\ ~InTask
  /\ InCallback => ~InQueue /\ ~InTask
  /\ InQueue    => ~InTask
  /\ mqtt_pc \in ExitPcs \/ session_up \/ InLibrary \/ InCallback \/ InQueue \/ InTask

LEMMA HoldersSpelledOut == DisconnectionAccountedFor <=> Accounted
<1>1. /\ "session" \in Holders <=> session_up
      /\ "library" \in Holders <=> InLibrary
      /\ "callback" \in Holders <=> InCallback
      /\ "queue" \in Holders <=> InQueue
      /\ "task" \in Holders <=> InTask
  BY DEF Holders, InLibrary, InCallback, InQueue, InTask
<1>2. Holders \subseteq {"session", "library", "callback", "queue", "task"}
  BY DEF Holders
<1>3. (\A g, h \in Holders : g = h) <=>
        /\ session_up => ~InLibrary /\ ~InCallback /\ ~InQueue /\ ~InTask
        /\ InLibrary  => ~InCallback /\ ~InQueue /\ ~InTask
        /\ InCallback => ~InQueue /\ ~InTask
        /\ InQueue    => ~InTask
  BY <1>1, <1>2
<1>4. (Holders # {}) <=> session_up \/ InLibrary \/ InCallback \/ InQueue \/ InTask
  BY <1>1, <1>2
<1> QED
  BY <1>3, <1>4 DEF DisconnectionAccountedFor, Accounted

LEMMA InitAccounted == Init => Accounted
BY DEF Init, PlatformInit, MqttInit, Accounted, AtMostOne, Contains, InLibrary, InCallback,
       InQueue, InTask, ConnectingPcs

\* What a step has to keep for the accounts to stay as they are.
LEMMA SameAccount ==
  ASSUME Accounted, UNCHANGED <<session_up, lib_events, mqtt_task_q>>,
         InCallback' <=> InCallback, InTask' <=> InTask, mqtt_pc \in ExitPcs => mqtt_pc' \in ExitPcs
  PROVE  Accounted'
BY DEF Accounted, InLibrary, InQueue


\* A message or a failure report joins its queue: no report of a lost session.
LEMMA AppendToLibrary ==
  ASSUME TypeOK, NEW e \in LibEvents \ {"DISCONNECT"}, lib_events' = Append(lib_events, e),
         AtMostOne(lib_events, "DISCONNECT")
  PROVE  AtMostOne(lib_events, "DISCONNECT")' /\ (InLibrary' <=> InLibrary)
<1>1. lib_events \in Seq(LibEvents)
  BY DEF TypeOK, PlatformTypeOK
<1>2. e # "DISCONNECT"
  OBVIOUS
<1>3. AtMostOne(Append(lib_events, e), "DISCONNECT")
  BY <1>1, <1>2, AtMostOneAppend
<1>4. Contains(Append(lib_events, e), "DISCONNECT") <=> Contains(lib_events, "DISCONNECT")
  BY <1>1, <1>2, ContainsAppend
<1> QED
  BY <1>3, <1>4 DEF InLibrary

LEMMA AppendToQueue ==
  ASSUME TypeOK, NEW c \in MqttTaskCmd \ {"HANDLE_DISCONNECTION"},
         mqtt_task_q' = Append(mqtt_task_q, c), AtMostOne(mqtt_task_q, "HANDLE_DISCONNECTION")
  PROVE  AtMostOne(mqtt_task_q, "HANDLE_DISCONNECTION")' /\ (InQueue' <=> InQueue)
<1>1. mqtt_task_q \in Seq(MqttTaskCmd)
  BY DEF TypeOK, PlatformTypeOK
<1>2. c # "HANDLE_DISCONNECTION"
  OBVIOUS
<1>3. AtMostOne(Append(mqtt_task_q, c), "HANDLE_DISCONNECTION")
  BY <1>1, <1>2, AtMostOneAppend
<1>4. Contains(Append(mqtt_task_q, c), "HANDLE_DISCONNECTION")
        <=> Contains(mqtt_task_q, "HANDLE_DISCONNECTION")
  BY <1>1, <1>2, ContainsAppend
<1> QED
  BY <1>3, <1>4 DEF InQueue

LEMMA SubscriberAccounted ==
  ASSUME TypeOK, Accounted, Subscriber PROVE Accounted'
<1>1. UNCHANGED <<mqtt_pc, cb_pc, session_up, lib_events>>
  BY DEF Subscriber, mqttVars, SubscriberStep, cbVars, netVars, SubscribeSucceeds, SubscribeFails,
         ReportSubscribeFailure, SubscriberInitLed, SubscriberCreateQueue, SubscriberReceive,
         SubscriberWriteLed, SubscriberWriteState
<1>2. CASE ReportSubscribeFailure
  <2>1. AtMostOne(mqtt_task_q, "HANDLE_DISCONNECTION")' /\ (InQueue' <=> InQueue)
    BY <1>2, AppendToQueue DEF ReportSubscribeFailure, MqttTaskCmd, Accounted
  <2> QED
    BY <1>1, <2>1 DEF Accounted, InLibrary, InCallback, InTask
<1>3. CASE ~ReportSubscribeFailure
  <2>1. mqtt_task_q' = mqtt_task_q
    BY <1>3 DEF Subscriber, SubscriberStep, queueVars, SubscribeSucceeds, SubscribeFails,
         SubscriberInitLed, SubscriberCreateQueue, SubscriberReceive,
         SubscriberWriteLed, SubscriberWriteState
  <2> QED
    BY <1>1, <2>1, SameAccount DEF InCallback, InTask
<1> QED
  BY <1>2, <1>3

LEMMA PublisherAccounted ==
  ASSUME TypeOK, Accounted, Publisher PROVE Accounted'
<1>1. UNCHANGED <<mqtt_pc, cb_pc, session_up>>
  BY DEF Publisher, mqttVars, PublisherStep, cbVars, netVars, PublisherStart, PublisherCreateQueue,
         PublisherReceive, PublisherInit, PublisherDeinit, PublishSucceeds, PublishFails,
         ReportPublishFailure
<1>2. CASE ReportPublishFailure
  <2>1. AtMostOne(mqtt_task_q, "HANDLE_DISCONNECTION")' /\ (InQueue' <=> InQueue)
    BY <1>2, AppendToQueue DEF ReportPublishFailure, MqttTaskCmd, Accounted
  <2>2. lib_events' = lib_events
    BY <1>2 DEF ReportPublishFailure, netVars
  <2> QED
    BY <1>1, <2>1, <2>2 DEF Accounted, InLibrary, InCallback, InTask
<1>3. CASE ~ReportPublishFailure
  <2>1. mqtt_task_q' = mqtt_task_q
    BY <1>3 DEF Publisher, PublisherStep, queueVars, PublisherStart, PublisherCreateQueue,
         PublisherReceive, PublisherInit, PublisherDeinit, PublishSucceeds, PublishFails
  <2>2. CASE lib_events' = lib_events
    BY <1>1, <2>1, <2>2, SameAccount DEF InCallback, InTask
  <2>3. CASE Deliver(pub_data) /\ lib_events' # lib_events
    <3>1. pub_data \in LibEvents \ {"DISCONNECT"}
      BY DEF TypeOK, PubTypeOK, LibEvents, Payload, DeviceState
    <3>2. AtMostOne(lib_events, "DISCONNECT")' /\ (InLibrary' <=> InLibrary)
      BY <2>3, <3>1, AppendToLibrary DEF Deliver, Accounted
    <3> QED
      BY <1>1, <2>1, <3>2 DEF Accounted, InQueue, InCallback, InTask
  <2>4. lib_events' = lib_events \/ Deliver(pub_data)
    BY <1>3 DEF Publisher, PublisherStep, netVars, PublisherStart, PublisherCreateQueue,
         PublisherReceive, PublisherInit, PublisherDeinit, PublishSucceeds, PublishFails
  <2> QED
    BY <2>2, <2>3, <2>4
<1> QED
  BY <1>2, <1>3

LEMMA PressAccounted ==
  ASSUME Accounted, Press PROVE Accounted'
BY SameAccount DEF Press, ButtonPress, netVars, cbVars, mqttVars, InCallback, InTask

\* The session hands its loss to the library.
LEMMA NetworkAccounted ==
  ASSUME TypeOK, Accounted, Network PROVE Accounted'
<1>1. UNCHANGED <<mqtt_pc, cb_pc, mqtt_task_q>>
  BY DEF Network, queueVars, cbVars, mqttVars
<1>2. CASE WifiDrops \/ WifiRejoins
  BY <1>1, <1>2, SameAccount DEF WifiDrops, WifiRejoins, InCallback, InTask
<1>3. CASE LoseSession
  <2>1. lib_events \in Seq(LibEvents) /\ "DISCONNECT" \in LibEvents
    BY DEF TypeOK, PlatformTypeOK, LibEvents
  <2>2. session_up /\ ~session_up' /\ lib_events' = Append(lib_events, "DISCONNECT")
    BY <1>3 DEF LoseSession
  <2>3. ~Contains(lib_events, "DISCONNECT")
    BY <2>2 DEF Accounted, InLibrary
  <2>4. AtMostOne(Append(lib_events, "DISCONNECT"), "DISCONNECT")
    BY <2>1, <2>3, AtMostOneAppend DEF Accounted
  <2>5. Contains(Append(lib_events, "DISCONNECT"), "DISCONNECT")
    BY <2>1, ContainsAppend
  <2> QED
    BY <1>1, <2>2, <2>4, <2>5 DEF Accounted, InLibrary, InCallback, InQueue, InTask
<1>4. CASE ForeignMessage
  <2>1. PICK msg \in Payload : Deliver(msg)
    BY <1>4 DEF ForeignMessage
  <2>2. msg \in LibEvents \ {"DISCONNECT"}
    BY DEF LibEvents, Payload, DeviceState
  <2>3. AtMostOne(lib_events, "DISCONNECT")' /\ (InLibrary' <=> InLibrary)
    BY <1>4, <2>1, <2>2, AppendToLibrary DEF ForeignMessage, Deliver, Accounted
  <2> QED
    BY <1>1, <1>4, <2>3 DEF ForeignMessage, Accounted, InCallback, InQueue, InTask
<1> QED
  BY <1>2, <1>3, <1>4 DEF Network, SessionDrops, KeepAliveExpires

\* The library hands it to the callback, the callback to the queue.
LEMMA CallbackAccounted ==
  ASSUME TypeOK, Accounted, Callback PROVE Accounted'
<1>1. mqtt_pc' = mqtt_pc /\ session_up' = session_up
  BY DEF Callback, CallbackStep, netVars, CallbackEnter, CallbackClearFlag,
         CallbackSendDisconnection, CallbackSetFlag, SubscriptionCallbackSend,
         SubscriptionCallbackHalts
<1>2. lib_events \in Seq(LibEvents) /\ mqtt_task_q \in Seq(MqttTaskCmd)
  BY DEF TypeOK, PlatformTypeOK
<1>3. CASE CallbackEnter
  <2>1. /\ cb_pc = "idle" /\ lib_events # <<>> /\ lib_events' = Tail(lib_events)
        /\ mqtt_task_q' = mqtt_task_q
        /\ \/ Head(lib_events) = "DISCONNECT" /\ cb_pc' = "clear_flag"
           \/ Head(lib_events) \in Payload /\ cb_pc' = "set_flag"
    BY <1>3 DEF CallbackEnter, queueVars
  <2>2. /\ AtMostOne(Tail(lib_events), "DISCONNECT")
        /\ Contains(Tail(lib_events), "DISCONNECT")
             <=> InLibrary /\ Head(lib_events) # "DISCONNECT"
    BY <1>2, <2>1, AtMostOneTail DEF Accounted, InLibrary
  <2>3. InQueue' = InQueue /\ InTask' = InTask /\ ~InCallback
    BY <1>1, <2>1 DEF InQueue, InTask, InCallback
  <2>4. CASE Head(lib_events) = "DISCONNECT" /\ cb_pc' = "clear_flag"
    <3>1. InLibrary
      BY <1>2, <2>1, <2>4 DEF InLibrary, Contains
    <3>2. ~InLibrary' /\ InCallback' /\ AtMostOne(lib_events, "DISCONNECT")'
      BY <2>1, <2>2, <2>4 DEF InLibrary, InCallback
    <3> QED
      BY <1>1, <2>1, <2>3, <3>1, <3>2 DEF Accounted
  <2>5. CASE Head(lib_events) \in Payload /\ cb_pc' = "set_flag"
    <3>1. Head(lib_events) # "DISCONNECT"
      BY <2>5 DEF Payload, DeviceState
    <3>2. (InLibrary' <=> InLibrary) /\ ~InCallback' /\ AtMostOne(lib_events, "DISCONNECT")'
      BY <2>1, <2>2, <2>5, <3>1 DEF InLibrary, InCallback
    <3> QED
      BY <1>1, <2>1, <2>3, <3>2 DEF Accounted
  <2> QED
    BY <2>1, <2>4, <2>5
<1>4. CASE CallbackSendDisconnection
  <2>1. /\ InCallback /\ ~InCallback' /\ lib_events' = lib_events
        /\ mqtt_task_q' = Append(mqtt_task_q, "HANDLE_DISCONNECTION")
    BY <1>4 DEF CallbackSendDisconnection, InCallback, netVars
  <2>2. "HANDLE_DISCONNECTION" \in MqttTaskCmd /\ ~Contains(mqtt_task_q, "HANDLE_DISCONNECTION")
    BY <2>1 DEF MqttTaskCmd, Accounted, InQueue
  <2>3. AtMostOne(Append(mqtt_task_q, "HANDLE_DISCONNECTION"), "HANDLE_DISCONNECTION")
    BY <1>2, <2>2, AtMostOneAppend DEF Accounted
  <2>4. Contains(Append(mqtt_task_q, "HANDLE_DISCONNECTION"), "HANDLE_DISCONNECTION")
    BY <1>2, <2>2, ContainsAppend
  <2> QED
    BY <1>1, <2>1, <2>3, <2>4 DEF Accounted, InLibrary, InQueue, InTask
<1>5. CASE CallbackClearFlag \/ CallbackSetFlag \/ SubscriptionCallbackSend
            \/ SubscriptionCallbackHalts
  <2>1. UNCHANGED <<session_up, lib_events, mqtt_task_q>> /\ InCallback' = InCallback
    BY <1>5 DEF CallbackClearFlag, CallbackSetFlag, EnterSubscriptionCallback,
                SubscriptionCallbackSend, SubscriptionCallbackHalts, InCallback,
                netVars, queueVars, cbVars
  <2> QED
    BY <1>1, <2>1, SameAccount DEF InTask
<1> QED
  BY <1>3, <1>4, <1>5 DEF Callback, CallbackStep

\* Every other step of the client task keeps the session and its queue, takes up
\* no reconnection, and drops one only to exit.
MqttTaskOtherwise ==
  MqttTaskStep /\ ~MqttReceive /\ ~MqttConnectSucceeds /\ ~MqttDisconnect /\ ~CleanupDisconnect

LEMMA MqttTaskMoves ==
  ASSUME TypeOK, MqttTaskOtherwise
  PROVE  /\ InTask' => InTask
         /\ InTask => InTask' \/ mqtt_pc' \in ExitPcs
         /\ mqtt_pc \in ExitPcs => mqtt_pc' \in ExitPcs
<1>1. wifi_caller \in {"startup", "recovery", "mqtt_connect"}
  BY DEF TypeOK, MqttTypeOK
<1>2. CASE WifiConnectEnter \/ WifiConnectApSucceeds \/ WifiConnectApFails
  BY <1>1, <1>2 DEF WifiConnectEnter, WifiConnectApSucceeds, WifiConnectApFails,
       WifiConnectReturns, Goto, InTask, ConnectingPcs, WifiConnectPcs, ExitPcs
<1>3. CASE ~(WifiConnectEnter \/ WifiConnectApSucceeds \/ WifiConnectApFails)
  BY <1>3 DEF MqttTaskOtherwise, MqttTaskStep, MqttCreateQueue, WcmInit, MqttLibInit, MqttMalloc, MqttCreate,
         Acquire, MqttRegisterCallback, CreateSubscriber, CreatePublisher,
         WifiConnectEnter, WifiConnectApSucceeds, WifiConnectApFails, MqttConnectClientId,
         MqttConnectApCheck, MqttConnectSucceeds, MqttConnectFails, MqttConnectLoadFlags,
         MqttConnectStoreSuccess, StoreFlags, MqttReceive, SendDeinit, MqttDisconnect,
         RecoveryApCheck, SendSubscribe, SendInit, SendToPublisher, MqttTaskHalts,
         DeleteSubscriber, DeletePublisher, CleanupDisconnect, CleanupDelete, CleanupFree,
         CleanupDeinit, CleanupWifi, CleanupWcm, Release,
       Goto, CallWifiConnect, CallMqttConnect, InTask, ConnectingPcs, WifiConnectPcs, ExitPcs
<1> QED
  BY <1>2, <1>3

LEMMA MqttTaskAccounted ==
  ASSUME TypeOK, Accounted, MqttTask PROVE Accounted'
<1>1. lib_events' = lib_events /\ cb_pc' = cb_pc
  BY DEF MqttTask, MqttTaskStep, MqttCreateQueue, WcmInit, MqttLibInit, MqttMalloc, MqttCreate,
         Acquire, MqttRegisterCallback, CreateSubscriber, CreatePublisher,
         WifiConnectEnter, WifiConnectApSucceeds, WifiConnectApFails, MqttConnectClientId,
         MqttConnectApCheck, MqttConnectSucceeds, MqttConnectFails, MqttConnectLoadFlags,
         MqttConnectStoreSuccess, StoreFlags, MqttReceive, SendDeinit, MqttDisconnect,
         RecoveryApCheck, SendSubscribe, SendInit, SendToPublisher, MqttTaskHalts,
         DeleteSubscriber, DeletePublisher, CleanupDisconnect, CleanupDelete, CleanupFree,
         CleanupDeinit, CleanupWifi, CleanupWcm, Release,
         queuesAndNet, netVars, cbVars
<1>2. CASE MqttReceive
  <2>1. /\ mqtt_task_q # <<>> /\ mqtt_task_q' = Tail(mqtt_task_q) /\ session_up' = session_up
        /\ mqtt_pc = "receive"
        /\ mqtt_pc' = IF Head(mqtt_task_q) = "HANDLE_DISCONNECTION" THEN "send_deinit" ELSE "receive"
    BY <1>2 DEF MqttReceive, netVars, Goto
  <2>2. mqtt_task_q \in Seq(MqttTaskCmd)
    BY DEF TypeOK, PlatformTypeOK
  <2>3. /\ AtMostOne(Tail(mqtt_task_q), "HANDLE_DISCONNECTION")
        /\ Contains(Tail(mqtt_task_q), "HANDLE_DISCONNECTION")
             <=> InQueue /\ Head(mqtt_task_q) # "HANDLE_DISCONNECTION"
    BY <2>1, <2>2, AtMostOneTail DEF Accounted, InQueue
  <2>4. ~InTask /\ mqtt_pc \notin ExitPcs
    BY <2>1 DEF InTask, ConnectingPcs, WifiConnectPcs, ExitPcs
  <2>5. (InLibrary' <=> InLibrary) /\ (InCallback' <=> InCallback)
    BY <1>1 DEF InLibrary, InCallback
  <2>6. CASE Head(mqtt_task_q) = "HANDLE_DISCONNECTION"
    <3>1. InQueue
      BY <2>1, <2>2, <2>6 DEF InQueue, Contains
    <3>2. ~InQueue' /\ InTask' /\ AtMostOne(mqtt_task_q, "HANDLE_DISCONNECTION")'
      BY <2>1, <2>3, <2>6 DEF InQueue, InTask, ConnectingPcs
    <3> QED
      BY <1>1, <2>1, <2>4, <2>5, <3>1, <3>2 DEF Accounted
  <2>7. CASE Head(mqtt_task_q) # "HANDLE_DISCONNECTION"
    <3>1. (InQueue' <=> InQueue) /\ AtMostOne(mqtt_task_q, "HANDLE_DISCONNECTION")'
      BY <2>1, <2>3, <2>7 DEF InQueue
    <3>2. ~InTask'
      BY <2>1, <2>7 DEF InTask, ConnectingPcs, WifiConnectPcs
    <3> QED
      BY <1>1, <2>1, <2>4, <2>5, <3>1, <3>2 DEF Accounted
  <2> QED
    BY <2>6, <2>7
<1>3. CASE MqttConnectSucceeds
  BY <1>1, <1>3 DEF MqttConnectSucceeds, queueVars, Goto, Accounted, InLibrary, InCallback,
                    InQueue, InTask, ConnectingPcs, WifiConnectPcs
<1>4. CASE MqttDisconnect
  BY <1>1, <1>4 DEF MqttDisconnect, queueVars, Goto, Accounted, InLibrary, InCallback,
                    InQueue, InTask, ConnectingPcs, WifiConnectPcs
<1>5. CASE CleanupDisconnect
  <2>1. /\ session_up' => session_up
        /\ mqtt_task_q' = mqtt_task_q
        /\ ~InTask' /\ mqtt_pc' \in ExitPcs
    BY <1>5 DEF CleanupDisconnect, queueVars, Goto, InTask, ConnectingPcs, WifiConnectPcs, ExitPcs
  <2> QED
    BY <1>1, <2>1 DEF Accounted, InLibrary, InCallback, InQueue
<1>6. CASE MqttTaskOtherwise
  <2>1. session_up' = session_up /\ mqtt_task_q' = mqtt_task_q
    BY <1>6 DEF MqttTaskOtherwise, MqttTaskStep, MqttCreateQueue, WcmInit, MqttLibInit, MqttMalloc, MqttCreate,
         Acquire, MqttRegisterCallback, CreateSubscriber, CreatePublisher,
         WifiConnectEnter, WifiConnectApSucceeds, WifiConnectApFails, MqttConnectClientId,
         MqttConnectApCheck, MqttConnectSucceeds, MqttConnectFails, MqttConnectLoadFlags,
         MqttConnectStoreSuccess, StoreFlags, MqttReceive, SendDeinit, MqttDisconnect,
         RecoveryApCheck, SendSubscribe, SendInit, SendToPublisher, MqttTaskHalts,
         DeleteSubscriber, DeletePublisher, CleanupDisconnect, CleanupDelete, CleanupFree,
         CleanupDeinit, CleanupWifi, CleanupWcm, Release,
         queuesAndNet, netVars, queueVars
  <2> QED
    BY <1>1, <1>6, <2>1, MqttTaskMoves DEF Accounted, InLibrary, InCallback, InQueue
<1> QED
  BY <1>2, <1>3, <1>4, <1>5, <1>6 DEF MqttTask, MqttTaskOtherwise

LEMMA NextAccounted == TypeOK /\ Accounted /\ [Next]_vars => Accounted'
<1> SUFFICES ASSUME TypeOK, Accounted, [Next]_vars PROVE Accounted'
  OBVIOUS
<1>1. CASE UNCHANGED vars
  BY <1>1, SameAccount DEF vars, queueVars, netVars, cbVars, mqttVars, InCallback, InTask
<1>2. CASE Next
  BY <1>2, MqttTaskAccounted, CallbackAccounted, SubscriberAccounted, PublisherAccounted,
     PressAccounted, NetworkAccounted DEF Next
<1> QED
  BY <1>1, <1>2

\* A lost session is never forgotten and never handled twice, whatever the queue
\* lengths and however often sessions and links are lost: from the library over
\* mqtt_event_callback() and mqtt_task_q to HANDLE_DISCONNECTION there is
\* exactly one report of it, until the client task has a new session or exits.
THEOREM DisconnectionNeverLost == Spec => []DisconnectionAccountedFor
<1>1. Init => Accounted
  BY InitAccounted
<1>2. TypeOK /\ Accounted /\ [Next]_vars => Accounted'
  BY NextAccounted
<1>3. Accounted => DisconnectionAccountedFor
  BY HoldersSpelledOut
<1> QED
  BY <1>1, <1>2, <1>3, TypeCorrect, PTL DEF Spec

-----------------------------------------------------------------------------
(* Clean-up: the invariant *)

\* The report of a lost session is the last event of the library, and when it is under way
\* in the callback, in the queue or in the client task, no message is.
LossComesLast ==
  /\ subscribed => session_up
  /\ InLibrary => lib_events[Len(lib_events)] = "DISCONNECT"
  /\ InCallback \/ InQueue \/ InTask => lib_events = <<>>
  /\ InQueue \/ InTask => cb_pc = "idle"

\* Until the client task has created the subscriber, there is no message.
Early ==
  \/ mqtt_pc \in StartupPcs \ {"create_publisher"}
  \/ mqtt_pc \in MqttConnectPcs /\ mqtt_caller = "startup"
  \/ mqtt_pc \in WifiConnectPcs /\ \/ wifi_caller = "startup"
                                   \/ wifi_caller = "mqtt_connect" /\ mqtt_caller = "startup"
NoMessageYet ==
  /\ Early => sub_pc = "none"
  /\ mqtt_pc \in WifiConnectPcs /\ wifi_caller = "recovery" => mqtt_caller = "recovery"
  /\ sub_pc = "none" => /\ ~subscribed
                        /\ lib_events = <<>> \/ Head(lib_events) = "DISCONNECT"
                        /\ cb_pc \notin {"set_flag", "send_update"}

\* The copies of status_flag agree with it in the bits of cleanup().
CopiesAgree ==
  /\ cb_pc \in {"clear_flag", "set_flag"} => status_flag \cap ResourceFlags = cb_flags \cap ResourceFlags
  /\ mqtt_pc = "store_success" => status_flag \cap ResourceFlags = task_flags \cap ResourceFlags

\* What is acquired has its bit, and is acquired and released in order.
Flagged ==
  /\ "wcm" \in resources => "WCM_INITIALIZED" \in status_flag
  /\ "libs" \in resources => "LIBS_INITIALIZED" \in status_flag
  /\ "buffer" \in resources => "BUFFER_INITIALIZED" \in status_flag
  /\ "instance" \in resources => "MQTT_INSTANCE_CREATED" \in status_flag
AcquiredInOrder ==
  /\ mqtt_pc \in {"create_queue", "wcm_init"} => resources = {}
  /\ mqtt_pc = "mqtt_lib_init" \/ (mqtt_pc \in WifiConnectPcs /\ wifi_caller = "startup") => resources = {"wcm"}
  /\ mqtt_pc = "malloc" => resources = {"wcm", "libs"}
  /\ mqtt_pc = "mqtt_create" => resources = {"wcm", "libs", "buffer"}
  /\ \/ mqtt_pc \in {"receive", "register", "create_subscriber", "create_publisher"} \union MqttConnectPcs \union RecoveryPcs
     \/ mqtt_pc \in WifiConnectPcs /\ wifi_caller # "startup"
     => resources = Resources
  /\ "instance" \in resources => {"wcm", "libs", "buffer"} \subseteq resources
  /\ mqtt_pc \in {"cleanup_free", "cleanup_deinit", "cleanup_wifi", "cleanup_wcm", "done"} => "instance" \notin resources
  /\ mqtt_pc \in {"cleanup_deinit", "cleanup_wifi", "cleanup_wcm", "done"} => "buffer" \notin resources
  /\ mqtt_pc \in {"cleanup_wifi", "cleanup_wcm", "done"} => "libs" \notin resources
  /\ mqtt_pc = "done" => "wcm" \notin resources

\* A session needs the instance, and one that is alive when the client task exits has its
\* bit, also in the callback's copy.
LeavingPcs == {"create_subscriber", "create_publisher", "exit_cleanup", "delete_publisher", "cleanup_disconnect"}
SessionFlagged ==
  /\ session_up => "instance" \in resources
  /\ session_up /\ mqtt_pc \in LeavingPcs =>
       /\ "MQTT_CONNECTION_SUCCESS" \in status_flag
       /\ cb_pc = "set_flag" => "MQTT_CONNECTION_SUCCESS" \in cb_flags
  /\ mqtt_pc \in ExitPcs \ LeavingPcs => ~session_up

\* A link has its bit, unless the connection manager has restored it.
LinkFlagged ==
  /\ env_left["wifi_rejoin"] <= EnvBudget["wifi_rejoin"]
  /\ wifi_up /\ env_left["wifi_rejoin"] = EnvBudget["wifi_rejoin"] => "WIFI_CONNECTED" \in status_flag

CleanupInv ==
  /\ LossComesLast /\ NoMessageYet /\ CopiesAgree /\ Flagged /\ AcquiredInOrder
  /\ SessionFlagged /\ LinkFlagged

-----------------------------------------------------------------------------
(* The report of a loss comes last *)

\* A message is delivered to a live session only, of which nothing is reported yet.
LEMMA DeliverComesBefore ==
  ASSUME TypeOK, Accounted, LossComesLast, NEW msg \in Payload, Deliver(msg),
         UNCHANGED <<mqtt_pc, cb_pc, mqtt_task_q, session_up, subscribed>>
  PROVE  LossComesLast'
<1>1. CASE subscribed
  <2>1. msg \in LibEvents \ {"DISCONNECT"}
    BY DEF LibEvents, Payload, DeviceState
  <2>2. ~InLibrary /\ ~InCallback /\ ~InQueue /\ ~InTask
    BY <1>1 DEF LossComesLast, Accounted
  <2>3. InLibrary' <=> InLibrary
    BY <1>1, <2>1, AppendToLibrary DEF Deliver, Accounted
  <2> QED
    BY <1>1, <2>2, <2>3 DEF LossComesLast, InCallback, InQueue, InTask
<1>2. CASE ~subscribed
  BY <1>2 DEF Deliver, LossComesLast, InLibrary, InCallback, InQueue, InTask
<1> QED
  BY <1>1, <1>2

LEMMA SubscriberComesLast ==
  ASSUME TypeOK, Accounted, LossComesLast, Subscriber PROVE LossComesLast'
<1>1. /\ UNCHANGED <<mqtt_pc, cb_pc, session_up, lib_events>>
      /\ subscribed' = subscribed \/ session_up
      /\ mqtt_task_q' = mqtt_task_q \/ ReportSubscribeFailure
  BY DEF Subscriber, mqttVars, SubscriberStep, cbVars, netVars, queueVars, Online, SubscribeSucceeds,
         SubscribeFails, ReportSubscribeFailure, SubscriberInitLed, SubscriberCreateQueue,
         SubscriberReceive, SubscriberWriteLed, SubscriberWriteState
<1>2. InQueue' <=> InQueue
  <2>1. CASE ReportSubscribeFailure
    BY <2>1, AppendToQueue DEF ReportSubscribeFailure, MqttTaskCmd, Accounted
  <2> QED
    BY <1>1, <2>1 DEF InQueue
<1> QED
  BY <1>1, <1>2 DEF LossComesLast, InLibrary, InCallback, InTask

LEMMA PublisherComesLast ==
  ASSUME TypeOK, Accounted, LossComesLast, Publisher PROVE LossComesLast'
<1>1. /\ UNCHANGED <<mqtt_pc, cb_pc, session_up, subscribed>>
      /\ \/ lib_events' = lib_events
         \/ Deliver(pub_data) /\ mqtt_task_q' = mqtt_task_q
      /\ mqtt_task_q' = mqtt_task_q \/ ReportPublishFailure
  BY DEF Publisher, mqttVars, PublisherStep, cbVars, netVars, queueVars, PublisherStart,
         PublisherCreateQueue, PublisherReceive, PublisherInit, PublisherDeinit, PublishSucceeds,
         PublishFails, ReportPublishFailure
<1>2. CASE lib_events' = lib_events
  <2>1. InQueue' <=> InQueue
    <3>1. CASE ReportPublishFailure
      BY <3>1, AppendToQueue DEF ReportPublishFailure, MqttTaskCmd, Accounted
    <3> QED
      BY <1>1, <3>1 DEF InQueue
  <2> QED
    BY <1>1, <1>2, <2>1 DEF LossComesLast, InLibrary, InCallback, InTask
<1>3. CASE Deliver(pub_data) /\ mqtt_task_q' = mqtt_task_q
  <2>1. pub_data \in Payload
    BY DEF TypeOK, PubTypeOK, Payload
  <2> QED
    BY <1>1, <1>3, <2>1, DeliverComesBefore
<1> QED
  BY <1>1, <1>2, <1>3

LEMMA NetworkComesLast ==
  ASSUME TypeOK, Accounted, LossComesLast, Network PROVE LossComesLast'
<1>1. UNCHANGED <<mqtt_pc, cb_pc, mqtt_task_q>>
  BY DEF Network, queueVars, cbVars, mqttVars
<1>2. CASE WifiDrops \/ WifiRejoins
  BY <1>1, <1>2 DEF WifiDrops, WifiRejoins, LossComesLast, InLibrary, InCallback, InQueue, InTask
<1>3. CASE LoseSession
  <2>1. lib_events \in Seq(LibEvents) /\ "DISCONNECT" \in LibEvents
    BY DEF TypeOK, PlatformTypeOK, LibEvents
  <2>2. session_up /\ ~subscribed' /\ lib_events' = Append(lib_events, "DISCONNECT")
    BY <1>3 DEF LoseSession
  <2>3. lib_events'[Len(lib_events')] = "DISCONNECT"
    BY <2>1, <2>2
  <2>4. ~InCallback' /\ ~InQueue' /\ ~InTask'
    BY <1>1, <2>2 DEF Accounted, InCallback, InQueue, InTask
  <2> QED
    BY <2>2, <2>3, <2>4 DEF LossComesLast
<1>4. CASE ForeignMessage
  BY <1>1, <1>4, DeliverComesBefore DEF ForeignMessage
<1> QED
  BY <1>2, <1>3, <1>4 DEF Network, SessionDrops, KeepAliveExpires

LEMMA CallbackComesLast ==
  ASSUME TypeOK, Accounted, LossComesLast, Callback PROVE LossComesLast'
<1>1. mqtt_pc' = mqtt_pc /\ session_up' = session_up /\ subscribed' = subscribed
  BY DEF Callback, CallbackStep, netVars, CallbackEnter, CallbackClearFlag,
         CallbackSendDisconnection, CallbackSetFlag, SubscriptionCallbackSend,
         SubscriptionCallbackHalts
<1>2. lib_events \in Seq(LibEvents) /\ mqtt_task_q \in Seq(MqttTaskCmd)
  BY DEF TypeOK, PlatformTypeOK
<1>3. CASE CallbackEnter
  <2>1. /\ cb_pc = "idle" /\ lib_events # <<>> /\ lib_events' = Tail(lib_events)
        /\ mqtt_task_q' = mqtt_task_q
        /\ \/ Head(lib_events) = "DISCONNECT" /\ cb_pc' = "clear_flag"
           \/ Head(lib_events) \in Payload /\ cb_pc' = "set_flag"
    BY <1>3 DEF CallbackEnter, queueVars
  <2>2. ~InCallback /\ ~InQueue' /\ ~InTask'
    BY <1>1, <2>1 DEF LossComesLast, InCallback, InQueue, InTask
  <2>3. CASE Head(lib_events) = "DISCONNECT"
    <3>1. lib_events[1] = "DISCONNECT" /\ InLibrary
      BY <1>2, <2>1, <2>3 DEF InLibrary, Contains
    <3>2. lib_events[Len(lib_events)] = "DISCONNECT"
      BY <3>1 DEF LossComesLast
    <3>3. Len(lib_events) = 1
      <4>1. 1 \in DOMAIN lib_events /\ Len(lib_events) \in DOMAIN lib_events
        BY <1>2, <2>1
      <4> QED
        BY <3>1, <3>2, <4>1 DEF Accounted, AtMostOne
    <3>4. lib_events' = <<>>
      BY <1>2, <2>1, <3>3
    <3> QED
      BY <1>1, <2>2, <3>4 DEF LossComesLast, InLibrary, Contains
  <2>4. CASE Head(lib_events) \in Payload /\ cb_pc' = "set_flag"
    <3>1. Head(lib_events) # "DISCONNECT" /\ ~InCallback'
      BY <2>4 DEF Payload, DeviceState, InCallback
    <3>2. ASSUME InLibrary' PROVE lib_events'[Len(lib_events')] = "DISCONNECT"
      <4>1. InLibrary
        BY <1>2, <2>1, <3>1, <3>2, AtMostOneTail DEF InLibrary, Accounted
      <4>2. lib_events[Len(lib_events)] = "DISCONNECT"
        BY <4>1 DEF LossComesLast
      <4>3. Head(lib_events) = lib_events[1] /\ Len(lib_events) \in Nat \ {0}
        BY <1>2, <2>1
      <4>4. Len(lib_events) # 1
        BY <3>1, <4>2, <4>3
      <4>5. Len(Tail(lib_events)) = Len(lib_events) - 1
        BY <1>2, <2>1
      <4>6. \A i \in 1..(Len(lib_events) - 1) : Tail(lib_events)[i] = lib_events[i + 1]
        BY <1>2, <2>1
      <4>7. /\ Len(lib_events) - 1 \in 1..(Len(lib_events) - 1)
            /\ (Len(lib_events) - 1) + 1 = Len(lib_events)
        <5>1. \A n \in Nat \ {0} : n # 1 => n - 1 \in 1..(n - 1) /\ (n - 1) + 1 = n
          OBVIOUS
        <5> QED
          BY <4>3, <4>4, <5>1
      <4> QED
        BY <2>1, <4>2, <4>5, <4>6, <4>7
    <3> QED
      BY <1>1, <2>2, <3>1, <3>2 DEF LossComesLast
  <2> QED
    BY <2>1, <2>3, <2>4
<1>4. CASE CallbackSendDisconnection
  BY <1>1, <1>4 DEF CallbackSendDisconnection, netVars, LossComesLast, InLibrary, InCallback
<1>5. CASE CallbackClearFlag
  BY <1>1, <1>5 DEF CallbackClearFlag, netVars, queueVars, LossComesLast, Accounted, InLibrary, InCallback,
       InQueue, InTask
<1>6. CASE CallbackSetFlag \/ SubscriptionCallbackSend \/ SubscriptionCallbackHalts
  <2>1. /\ lib_events' = lib_events /\ mqtt_task_q' = mqtt_task_q
        /\ cb_pc' \in {"send_update", "idle"} /\ cb_pc # "idle"
    BY <1>6 DEF CallbackSetFlag, EnterSubscriptionCallback, SubscriptionCallbackSend,
                SubscriptionCallbackHalts, netVars, queueVars, cbVars
  <2> QED
    BY <1>1, <2>1 DEF LossComesLast, InLibrary, InCallback, InQueue, InTask
<1> QED
  BY <1>3, <1>4, <1>5, <1>6 DEF Callback, CallbackStep

LEMMA MqttTaskComesLast ==
  ASSUME TypeOK, Accounted, LossComesLast, MqttTask PROVE LossComesLast'
<1>1. /\ lib_events' = lib_events /\ cb_pc' = cb_pc
      /\ UNCHANGED <<session_up, subscribed>> \/ ~subscribed'
      /\ mqtt_task_q' = mqtt_task_q \/ MqttReceive
  BY DEF MqttTask, MqttTaskStep, MqttCreateQueue, WcmInit, MqttLibInit, MqttMalloc, MqttCreate,
         Acquire, MqttRegisterCallback, CreateSubscriber, CreatePublisher,
         WifiConnectEnter, WifiConnectApSucceeds, WifiConnectApFails, MqttConnectClientId,
         MqttConnectApCheck, MqttConnectSucceeds, MqttConnectFails, MqttConnectLoadFlags,
         MqttConnectStoreSuccess, StoreFlags, MqttReceive, SendDeinit, MqttDisconnect,
         RecoveryApCheck, SendSubscribe, SendInit, SendToPublisher, MqttTaskHalts,
         DeleteSubscriber, DeletePublisher, CleanupDisconnect, CleanupDelete, CleanupFree,
         CleanupDeinit, CleanupWifi, CleanupWcm, Release,
         queuesAndNet, netVars, cbVars, queueVars
<1>2. InQueue' \/ InTask' => InQueue \/ InTask
  <2>1. CASE MqttReceive
    <3>1. /\ mqtt_task_q # <<>> /\ mqtt_task_q' = Tail(mqtt_task_q)
          /\ mqtt_pc' = IF Head(mqtt_task_q) = "HANDLE_DISCONNECTION" THEN "send_deinit" ELSE "receive"
      BY <2>1 DEF MqttReceive, Goto
    <3>2. mqtt_task_q \in Seq(MqttTaskCmd)
      BY DEF TypeOK, PlatformTypeOK
    <3>3. InQueue' => InQueue
      BY <3>1, <3>2, AtMostOneTail DEF Accounted, InQueue
    <3>4. InTask' => InQueue
      BY <3>1, <3>2 DEF InTask, InQueue, Contains, ConnectingPcs, WifiConnectPcs
    <3> QED
      BY <3>3, <3>4
  <2>2. CASE MqttTaskOtherwise
    BY <1>1, <2>2, MqttTaskMoves DEF MqttTaskOtherwise, InQueue
  <2>3. CASE MqttConnectSucceeds \/ MqttDisconnect \/ CleanupDisconnect
    BY <2>3 DEF MqttConnectSucceeds, MqttDisconnect, CleanupDisconnect, queueVars, Goto,
                InTask, InQueue, ConnectingPcs, WifiConnectPcs
  <2> QED
    BY <2>1, <2>2, <2>3 DEF MqttTask, MqttTaskOtherwise
<1> QED
  BY <1>1, <1>2 DEF LossComesLast, InLibrary, InCallback

LEMMA InitComesLast == Init => LossComesLast
BY DEF Init, PlatformInit, MqttInit, LossComesLast, InLibrary, Contains

LEMMA NextComesLast ==
  ASSUME TypeOK, Accounted, LossComesLast, [Next]_vars PROVE LossComesLast'
<1>1. CASE UNCHANGED vars \/ Press
  BY <1>1 DEF vars, queueVars, netVars, cbVars, mqttVars, Press, ButtonPress,
              LossComesLast, InLibrary, InCallback, InQueue, InTask
<1>2. CASE MqttTask \/ Callback \/ Subscriber \/ Publisher \/ Network
  BY <1>2, MqttTaskComesLast, CallbackComesLast, SubscriberComesLast, PublisherComesLast,
     NetworkComesLast
<1> QED
  BY <1>1, <1>2 DEF Next

-----------------------------------------------------------------------------
(* No message before the subscriber *)

\* A step of the client task that takes up start-up, or creates the subscriber.
LEMMA MqttTaskEarly ==
  ASSUME TypeOK, NoMessageYet, MqttTask
  PROVE  /\ Early' => Early /\ sub_pc' = sub_pc
         /\ (mqtt_pc \in WifiConnectPcs /\ wifi_caller = "recovery" => mqtt_caller = "recovery")'
         /\ sub_pc' = "none" => sub_pc = "none"
<1>1. /\ wifi_caller \in {"startup", "recovery", "mqtt_connect"}
      /\ mqtt_caller \in {"startup", "recovery"}
      /\ mqtt_pc \in WifiConnectPcs /\ wifi_caller = "recovery" => mqtt_caller = "recovery"
  BY DEF TypeOK, MqttTypeOK, NoMessageYet
<1>2. CASE WifiConnectEnter \/ WifiConnectApSucceeds \/ WifiConnectApFails
  BY <1>1, <1>2 DEF WifiConnectEnter, WifiConnectApSucceeds, WifiConnectApFails, subVars,
       WifiConnectReturns, Goto, Early, StartupPcs, MqttConnectPcs, WifiConnectPcs
<1>3. CASE MqttConnectClientId \/ MqttConnectApCheck \/ RecoveryApCheck \/ MqttRegisterCallback
  BY <1>1, <1>3 DEF MqttConnectClientId, MqttConnectApCheck, RecoveryApCheck, MqttRegisterCallback,
       subVars, CallMqttConnect, CallWifiConnect, Goto, Early, StartupPcs, MqttConnectPcs, WifiConnectPcs
<1>4. CASE \/ MqttConnectSucceeds \/ MqttConnectFails \/ MqttConnectLoadFlags \/ MqttConnectStoreSuccess
           \/ CreateSubscriber \/ CreatePublisher
  BY <1>1, <1>4 DEF MqttConnectSucceeds, MqttConnectFails, MqttConnectLoadFlags, StoreFlags,
       MqttConnectStoreSuccess, CreateSubscriber, CreatePublisher, frames, subVars, Goto, Early,
       StartupPcs, MqttConnectPcs, WifiConnectPcs
<1>5. CASE MqttCreateQueue \/ WcmInit \/ MqttLibInit \/ MqttMalloc \/ MqttCreate
  BY <1>1, <1>5 DEF MqttCreateQueue, WcmInit, MqttLibInit, MqttMalloc, MqttCreate, Acquire, frames,
       subVars, CallWifiConnect, Goto, Early, StartupPcs, MqttConnectPcs, WifiConnectPcs
<1>6. CASE \/ MqttReceive \/ SendDeinit \/ MqttDisconnect \/ SendSubscribe \/ SendInit \/ MqttTaskHalts
           \/ DeleteSubscriber \/ DeletePublisher \/ CleanupDisconnect \/ CleanupDelete \/ CleanupFree
           \/ CleanupDeinit \/ CleanupWifi \/ CleanupWcm
  BY <1>1, <1>6 DEF MqttReceive, SendDeinit, MqttDisconnect, SendSubscribe, SendInit, SendToPublisher,
       MqttTaskHalts, DeleteSubscriber, DeletePublisher, CleanupDisconnect, CleanupDelete, CleanupFree,
       CleanupDeinit, CleanupWifi, CleanupWcm, Release, frames, subVars, Goto, Early,
       StartupPcs, MqttConnectPcs, WifiConnectPcs
<1> QED
  BY <1>2, <1>3, <1>4, <1>5, <1>6 DEF MqttTask, MqttTaskStep

LEMMA InitNoMessageYet == Init => NoMessageYet
BY DEF Init, PlatformInit, SubInit, MqttInit, NoMessageYet, WifiConnectPcs

LEMMA NextNoMessageYet ==
  ASSUME TypeOK, Accounted, LossComesLast, NoMessageYet, [Next]_vars PROVE NoMessageYet'
<1> DEFINE Silent == /\ ~subscribed
                     /\ lib_events = <<>> \/ Head(lib_events) = "DISCONNECT"
                     /\ cb_pc \notin {"set_flag", "send_update"}
<1>1. CASE MqttTask
  <2>1. /\ lib_events' = lib_events /\ cb_pc' = cb_pc
        /\ subscribed' = subscribed \/ ~subscribed'
    BY <1>1 DEF MqttTask, MqttTaskStep, MqttCreateQueue, WcmInit, MqttLibInit, MqttMalloc, MqttCreate,
         Acquire, MqttRegisterCallback, CreateSubscriber, CreatePublisher,
         WifiConnectEnter, WifiConnectApSucceeds, WifiConnectApFails, MqttConnectClientId,
         MqttConnectApCheck, MqttConnectSucceeds, MqttConnectFails, MqttConnectLoadFlags,
         MqttConnectStoreSuccess, StoreFlags, MqttReceive, SendDeinit, MqttDisconnect,
         RecoveryApCheck, SendSubscribe, SendInit, SendToPublisher, MqttTaskHalts,
         DeleteSubscriber, DeletePublisher, CleanupDisconnect, CleanupDelete, CleanupFree,
         CleanupDeinit, CleanupWifi, CleanupWcm, Release,
         queuesAndNet, netVars, cbVars
  <2> QED
    BY <1>1, <2>1, MqttTaskEarly DEF NoMessageYet
<1>2. CASE UNCHANGED vars \/ Callback \/ Subscriber \/ Publisher \/ Press \/ Network
  <2>1. /\ UNCHANGED <<mqtt_pc, wifi_caller, mqtt_caller>>
        /\ sub_pc' = "none" <=> sub_pc = "none"
    <3>1. CASE Subscriber
      BY <3>1 DEF Subscriber, mqttVars, SubscriberStep, SubscribeSucceeds, SubscribeFails, LeaveSubscribe,
           EnterSubscribe, ReportSubscribeFailure, SubscriberInitLed, SubscriberCreateQueue,
           SubscriberReceive, SubscriberWriteLed, SubscriberWriteState
    <3>2. CASE Callback
      BY <3>2 DEF Callback, CallbackStep, frames, subVars
    <3>3. CASE UNCHANGED vars \/ Publisher \/ Press \/ Network
      BY <3>3 DEF vars, Publisher, Press, Network, mqttVars, subVars
    <3> QED
      BY <1>2, <3>1, <3>2, <3>3
  <2>2. ASSUME Silent, sub_pc = "none" PROVE Silent'
    <3>1. CASE Subscriber
      BY <2>2, <3>1 DEF Subscriber, SubscriberStep, cbVars, netVars, SubscribeSucceeds, SubscribeFails,
           ReportSubscribeFailure, SubscriberInitLed, SubscriberCreateQueue, SubscriberReceive,
           SubscriberWriteLed, SubscriberWriteState
    <3>2. CASE Publisher
      BY <2>2, <3>2 DEF Publisher, PublisherStep, cbVars, netVars, Deliver, PublisherStart,
           PublisherCreateQueue, PublisherReceive, PublisherInit, PublisherDeinit, PublishSucceeds,
           PublishFails, ReportPublishFailure
    <3>3. CASE Network
      <4>1. lib_events \in Seq(LibEvents) /\ "DISCONNECT" \in LibEvents
        BY DEF TypeOK, PlatformTypeOK, LibEvents
      <4>2. CASE LoseSession
        <5>1. lib_events' = Append(lib_events, "DISCONNECT") /\ ~subscribed' /\ UNCHANGED cbVars
          BY <3>3, <4>2 DEF LoseSession, Network
        <5>2. Head(lib_events') = "DISCONNECT"
          BY <2>2, <4>1, <5>1
        <5> QED
          BY <2>2, <5>1, <5>2 DEF cbVars
      <4>3. CASE WifiDrops \/ WifiRejoins
        BY <2>2, <3>3, <4>3 DEF Network, WifiDrops, WifiRejoins, cbVars
      <4> QED
        BY <2>2, <3>3, <4>2, <4>3 DEF Network, SessionDrops, KeepAliveExpires, ForeignMessage
    <3>4. CASE CallbackEnter /\ Callback
      <4>1. Head(lib_events) = "DISCONNECT" /\ cb_pc' = "clear_flag"
        BY <2>2, <3>4 DEF CallbackEnter, Payload, DeviceState
      <4>2. subscribed' = subscribed
        BY <3>4 DEF CallbackEnter
      <4>3. lib_events' = <<>>
        BY <3>4, <4>1, CallbackComesLast DEF LossComesLast, InCallback
      <4> QED
        BY <2>2, <4>1, <4>2, <4>3
    <3>5. CASE Callback /\ ~CallbackEnter
      BY <2>2, <3>5 DEF Callback, CallbackStep, netVars, cbVars, CallbackClearFlag,
           CallbackSendDisconnection, CallbackSetFlag, SubscriptionCallbackSend,
           SubscriptionCallbackHalts
    <3>6. CASE UNCHANGED vars \/ Press
      BY <2>2, <3>6 DEF vars, netVars, cbVars, Press, ButtonPress
    <3> QED
      BY <1>2, <3>1, <3>2, <3>3, <3>4, <3>5, <3>6
  <2> QED
    BY <2>1, <2>2 DEF NoMessageYet, Early
<1> QED
  BY <1>1, <1>2 DEF Next

-----------------------------------------------------------------------------
(* The copies of status_flag *)

\* Whoever changes a bit of cleanup() does it while the callback is idle, and the client
\* task clears only WIFI_CONNECTED, and only without a link.
LEMMA MqttTaskFlags ==
  ASSUME TypeOK, LossComesLast, CopiesAgree, MqttTask
  PROVE  /\ \/ cb_pc = "idle"
            \/ status_flag' \cap ResourceFlags = status_flag \cap ResourceFlags
         /\ mqtt_pc' = "store_success" => status_flag' = task_flags'
         /\ (status_flag \cap ResourceFlags) \ {"WIFI_CONNECTED"} \subseteq status_flag'
         /\ "WIFI_CONNECTED" \in status_flag => "WIFI_CONNECTED" \in status_flag' \/ (~wifi_up /\ ~wifi_up')
         /\ wifi_up' => wifi_up \/ "WIFI_CONNECTED" \in status_flag'
<1>1. InTask => cb_pc = "idle"
  BY DEF LossComesLast
<1>2. CASE MqttConnectStoreSuccess
  <2>1. /\ status_flag' = task_flags \union {"MQTT_CONNECTION_SUCCESS"}
        /\ status_flag \cap ResourceFlags = task_flags \cap ResourceFlags
        /\ mqtt_pc' # "store_success" /\ wifi_up' = wifi_up
    BY <1>2 DEF MqttConnectStoreSuccess, StoreFlags, CopiesAgree, Goto, queuesAndNet, netVars
  <2>2. "MQTT_CONNECTION_SUCCESS" \notin ResourceFlags /\ "WIFI_CONNECTED" \in ResourceFlags
    BY DEF ResourceFlags, Flags
  <2>3. status_flag' \cap ResourceFlags = task_flags \cap ResourceFlags
    BY <2>1, <2>2
  <2>4. \A f \in ResourceFlags : f \in status_flag => f \in status_flag'
    BY <2>1, <2>3
  <2> QED
    BY <2>1, <2>2, <2>3, <2>4
<1>3. CASE WifiConnectApSucceeds \/ MqttConnectApCheck \/ RecoveryApCheck
  <2>1. InTask
    BY <1>3 DEF WifiConnectApSucceeds, MqttConnectApCheck, RecoveryApCheck, InTask, ConnectingPcs,
                WifiConnectPcs
  <2>2. wifi_caller \in {"startup", "recovery", "mqtt_connect"}
    BY DEF TypeOK, MqttTypeOK
  <2> QED
    BY <1>1, <1>3, <2>1, <2>2 DEF WifiConnectApSucceeds, MqttConnectApCheck, RecoveryApCheck, Goto,
         WifiConnectReturns, CallWifiConnect, queuesAndNet, netVars
<1>4. CASE WcmInit \/ MqttLibInit \/ MqttMalloc \/ MqttCreate
  <2>1. InTask
    BY <1>4 DEF WcmInit, MqttLibInit, MqttMalloc, MqttCreate, Acquire, InTask, ConnectingPcs
  <2> QED
    BY <1>1, <1>4, <2>1 DEF WcmInit, MqttLibInit, MqttMalloc, MqttCreate, Acquire, Goto,
         CallWifiConnect, queuesAndNet, netVars
<1>5. CASE WifiConnectEnter \/ WifiConnectApFails
  <2>1. wifi_caller \in {"startup", "recovery", "mqtt_connect"}
    BY DEF TypeOK, MqttTypeOK
  <2> QED
    BY <1>5, <2>1 DEF WifiConnectEnter, WifiConnectApFails, WifiConnectReturns, Goto, flagsAndRes,
                      queuesAndNet, netVars
<1>6. CASE \/ MqttCreateQueue \/ MqttRegisterCallback \/ CreateSubscriber \/ CreatePublisher
           \/ MqttConnectClientId \/ MqttConnectSucceeds \/ MqttConnectFails \/ MqttConnectLoadFlags
           \/ MqttReceive \/ SendDeinit \/ MqttDisconnect \/ SendSubscribe \/ SendInit \/ MqttTaskHalts
  BY <1>6 DEF MqttCreateQueue, MqttRegisterCallback, CreateSubscriber, CreatePublisher,
       MqttConnectClientId, MqttConnectSucceeds, MqttConnectFails, MqttConnectLoadFlags, MqttReceive,
       SendDeinit, MqttDisconnect, SendSubscribe, SendInit, SendToPublisher, MqttTaskHalts,
       Goto, CallMqttConnect, flagsAndRes, queuesAndNet, netVars
<1>7. CASE \/ DeleteSubscriber \/ DeletePublisher \/ CleanupDisconnect \/ CleanupDelete \/ CleanupFree
           \/ CleanupDeinit \/ CleanupWifi \/ CleanupWcm
  BY <1>7 DEF DeleteSubscriber, DeletePublisher, CleanupDisconnect, CleanupDelete, CleanupFree,
       CleanupDeinit, CleanupWifi, CleanupWcm, Release, Goto, flagsAndRes, queuesAndNet, netVars
<1> QED
  BY <1>2, <1>3, <1>4, <1>5, <1>6, <1>7 DEF MqttTask, MqttTaskStep

\* The callback changes no bit of cleanup().
LEMMA CallbackFlags ==
  ASSUME CopiesAgree, Callback
  PROVE  status_flag' \cap ResourceFlags = status_flag \cap ResourceFlags
BY DEF Callback, CallbackStep, CallbackEnter, CallbackClearFlag, CallbackSendDisconnection,
       CallbackSetFlag, CopiesAgree, ResourceFlags, Flags

LEMMA InitCopiesAgree == Init => CopiesAgree
BY DEF Init, PlatformInit, MqttInit, CopiesAgree

LEMMA OthersKeepFlags ==
  ASSUME UNCHANGED vars \/ Subscriber \/ Publisher \/ Press \/ Network
  PROVE  UNCHANGED <<mqtt_pc, wifi_caller, cb_pc, status_flag, task_flags, cb_flags, resources>>
BY DEF vars, Subscriber, Publisher, Press, Network, mqttVars, cbVars, SubscriberStep, PublisherStep,
       ButtonPress

LEMMA NextCopiesAgree ==
  ASSUME TypeOK, LossComesLast, CopiesAgree, [Next]_vars PROVE CopiesAgree'
<1>1. CASE MqttTask
  <2>1. cb_pc' = cb_pc /\ cb_flags' = cb_flags
    BY <1>1 DEF MqttTask, MqttTaskStep, MqttCreateQueue, WcmInit, MqttLibInit, MqttMalloc, MqttCreate,
         Acquire, MqttRegisterCallback, CreateSubscriber, CreatePublisher,
         WifiConnectEnter, WifiConnectApSucceeds, WifiConnectApFails, MqttConnectClientId,
         MqttConnectApCheck, MqttConnectSucceeds, MqttConnectFails, MqttConnectLoadFlags,
         MqttConnectStoreSuccess, StoreFlags, MqttReceive, SendDeinit, MqttDisconnect,
         RecoveryApCheck, SendSubscribe, SendInit, SendToPublisher, MqttTaskHalts,
         DeleteSubscriber, DeletePublisher, CleanupDisconnect, CleanupDelete, CleanupFree,
         CleanupDeinit, CleanupWifi, CleanupWcm, Release,
         queuesAndNet, cbVars
  <2> QED
    BY <1>1, <2>1, MqttTaskFlags DEF CopiesAgree
<1>2. CASE Callback
  <2>1. /\ mqtt_pc' = mqtt_pc /\ task_flags' = task_flags
        /\ cb_pc' \in {"clear_flag", "set_flag"} => cb_flags' = status_flag /\ status_flag' = status_flag
    BY <1>2 DEF Callback, CallbackStep, CallbackEnter, CallbackClearFlag, CallbackSendDisconnection,
         CallbackSetFlag, EnterSubscriptionCallback, SubscriptionCallbackSend,
         SubscriptionCallbackHalts, cbVars
  <2> QED
    BY <1>2, <2>1, CallbackFlags DEF CopiesAgree
<1>3. CASE UNCHANGED vars \/ Subscriber \/ Publisher \/ Press \/ Network
  BY <1>3, OthersKeepFlags DEF CopiesAgree
<1> QED
  BY <1>1, <1>2, <1>3 DEF Next

-----------------------------------------------------------------------------
(* What is acquired, and its bits *)

LEMMA NextFlagged ==
  ASSUME TypeOK, LossComesLast, CopiesAgree, Flagged, [Next]_vars PROVE Flagged'
<1>1. /\ {"WCM_INITIALIZED", "LIBS_INITIALIZED", "BUFFER_INITIALIZED", "MQTT_INSTANCE_CREATED"}
           \subseteq ResourceFlags \ {"WIFI_CONNECTED"}
  BY DEF ResourceFlags, Flags
<1>2. CASE MqttTask
  <2>1. CASE WcmInit \/ MqttLibInit \/ MqttMalloc \/ MqttCreate
    BY <2>1 DEF WcmInit, MqttLibInit, MqttMalloc, MqttCreate, Acquire, Flagged
  <2>2. CASE ~(WcmInit \/ MqttLibInit \/ MqttMalloc \/ MqttCreate)
    <3>1. resources' \subseteq resources
      BY <1>2, <2>2 DEF MqttTask, MqttTaskStep, MqttCreateQueue, MqttRegisterCallback,
           CreateSubscriber, CreatePublisher, WifiConnectEnter, WifiConnectApSucceeds,
           WifiConnectApFails, MqttConnectClientId, MqttConnectApCheck, MqttConnectSucceeds,
           MqttConnectFails, MqttConnectLoadFlags, MqttConnectStoreSuccess, StoreFlags, MqttReceive,
           SendDeinit, MqttDisconnect, RecoveryApCheck, SendSubscribe, SendInit, SendToPublisher,
           MqttTaskHalts, DeleteSubscriber, DeletePublisher, CleanupDisconnect, CleanupDelete,
           CleanupFree, CleanupDeinit, CleanupWifi, CleanupWcm, Release, flagsAndRes
    <3>2. (status_flag \cap ResourceFlags) \ {"WIFI_CONNECTED"} \subseteq status_flag'
      BY <1>2, MqttTaskFlags
    <3> QED
      BY <1>1, <3>1, <3>2 DEF Flagged
  <2> QED
    BY <2>1, <2>2
<1>3. CASE Callback
  <2>1. resources' = resources
    BY <1>3 DEF Callback, CallbackStep
  <2>2. status_flag' \cap ResourceFlags = status_flag \cap ResourceFlags
    BY <1>3, CallbackFlags
  <2> QED
    BY <1>1, <2>1, <2>2 DEF Flagged
<1>4. CASE UNCHANGED vars \/ Subscriber \/ Publisher \/ Press \/ Network
  BY <1>4, OthersKeepFlags DEF Flagged
<1> QED
  BY <1>2, <1>3, <1>4 DEF Next

LEMMA MqttTaskInOrder ==
  ASSUME TypeOK, Flagged, AcquiredInOrder, MqttTask PROVE AcquiredInOrder'
<1>1. wifi_caller \in {"startup", "recovery", "mqtt_connect"} /\ resources \subseteq Resources
  BY DEF TypeOK, MqttTypeOK
<1>2. CASE WifiConnectEnter \/ WifiConnectApSucceeds \/ WifiConnectApFails
  BY <1>1, <1>2 DEF WifiConnectEnter, WifiConnectApSucceeds, WifiConnectApFails, flagsAndRes,
       WifiConnectReturns, Goto, AcquiredInOrder, RecoveryPcs, MqttConnectPcs, WifiConnectPcs
<1>3. CASE MqttConnectClientId \/ MqttConnectApCheck \/ RecoveryApCheck \/ MqttRegisterCallback
  BY <1>1, <1>3 DEF MqttConnectClientId, MqttConnectApCheck, RecoveryApCheck, MqttRegisterCallback,
       flagsAndRes, CallMqttConnect, CallWifiConnect, Goto, AcquiredInOrder, RecoveryPcs,
       MqttConnectPcs, WifiConnectPcs
<1>4. CASE \/ MqttConnectSucceeds \/ MqttConnectFails \/ MqttConnectLoadFlags \/ MqttConnectStoreSuccess
           \/ CreateSubscriber \/ CreatePublisher
  BY <1>1, <1>4 DEF MqttConnectSucceeds, MqttConnectFails, MqttConnectLoadFlags, StoreFlags,
       MqttConnectStoreSuccess, CreateSubscriber, CreatePublisher, frames, flagsAndRes, Goto,
       AcquiredInOrder, RecoveryPcs, MqttConnectPcs, WifiConnectPcs
<1>5. CASE MqttCreateQueue \/ WcmInit
  BY <1>1, <1>5 DEF MqttCreateQueue, WcmInit, frames, flagsAndRes, CallWifiConnect, Goto,
       AcquiredInOrder, RecoveryPcs, MqttConnectPcs, WifiConnectPcs
<1>6. CASE MqttLibInit \/ MqttMalloc \/ MqttCreate
  BY <1>1, <1>6 DEF MqttLibInit, MqttMalloc, MqttCreate, Acquire, Goto, Resources,
       AcquiredInOrder, RecoveryPcs, MqttConnectPcs, WifiConnectPcs
<1>7. CASE MqttReceive \/ SendDeinit \/ MqttDisconnect \/ SendSubscribe \/ SendInit \/ MqttTaskHalts
  BY <1>1, <1>7 DEF MqttReceive, SendDeinit, MqttDisconnect, SendSubscribe, SendInit, SendToPublisher,
       MqttTaskHalts, frames, flagsAndRes, Goto, AcquiredInOrder, RecoveryPcs, MqttConnectPcs,
       WifiConnectPcs
<1>8. CASE \/ DeleteSubscriber \/ DeletePublisher \/ CleanupDisconnect \/ CleanupDelete \/ CleanupFree
           \/ CleanupDeinit \/ CleanupWifi \/ CleanupWcm
  BY <1>1, <1>8 DEF DeleteSubscriber, DeletePublisher, CleanupDisconnect, CleanupDelete, CleanupFree,
       CleanupDeinit, CleanupWifi, CleanupWcm, Release, frames, flagsAndRes, Goto, Flagged,
       AcquiredInOrder, RecoveryPcs, MqttConnectPcs, WifiConnectPcs
<1> QED
  BY <1>2, <1>3, <1>4, <1>5, <1>6, <1>7, <1>8 DEF MqttTask, MqttTaskStep

LEMMA InitFlagged == Init => Flagged /\ AcquiredInOrder
BY DEF Init, MqttInit, Flagged, AcquiredInOrder, RecoveryPcs, MqttConnectPcs, WifiConnectPcs

LEMMA NextInOrder ==
  ASSUME TypeOK, Flagged, AcquiredInOrder, [Next]_vars PROVE AcquiredInOrder'
<1>1. CASE MqttTask
  BY <1>1, MqttTaskInOrder
<1>2. CASE Callback
  BY <1>2 DEF Callback, CallbackStep, frames, AcquiredInOrder
<1>3. CASE UNCHANGED vars \/ Subscriber \/ Publisher \/ Press \/ Network
  BY <1>3, OthersKeepFlags DEF AcquiredInOrder
<1> QED
  BY <1>1, <1>2, <1>3 DEF Next

-----------------------------------------------------------------------------
(* The session and the link *)

LEMMA MqttTaskSession ==
  ASSUME TypeOK, Accounted, NoMessageYet, AcquiredInOrder, SessionFlagged, MqttTask
  PROVE  SessionFlagged'
<1>1. /\ wifi_caller \in {"startup", "recovery", "mqtt_connect"}
      /\ mqtt_caller \in {"startup", "recovery"}
      /\ cb_pc' = cb_pc /\ cb_flags' = cb_flags
  BY DEF TypeOK, MqttTypeOK, MqttTask, MqttTaskStep, MqttCreateQueue, WcmInit, MqttLibInit, MqttMalloc, MqttCreate,
         Acquire, MqttRegisterCallback, CreateSubscriber, CreatePublisher,
         WifiConnectEnter, WifiConnectApSucceeds, WifiConnectApFails, MqttConnectClientId,
         MqttConnectApCheck, MqttConnectSucceeds, MqttConnectFails, MqttConnectLoadFlags,
         MqttConnectStoreSuccess, StoreFlags, MqttReceive, SendDeinit, MqttDisconnect,
         RecoveryApCheck, SendSubscribe, SendInit, SendToPublisher, MqttTaskHalts,
         DeleteSubscriber, DeletePublisher, CleanupDisconnect, CleanupDelete, CleanupFree,
         CleanupDeinit, CleanupWifi, CleanupWcm, Release,
       queuesAndNet, cbVars
<1>2. session_up => mqtt_pc \notin ConnectingPcs
  BY DEF Accounted, InTask
<1>3. CASE \/ WifiConnectEnter \/ WifiConnectApSucceeds \/ WifiConnectApFails
           \/ MqttConnectClientId \/ MqttConnectApCheck \/ RecoveryApCheck \/ MqttRegisterCallback
           \/ MqttConnectFails \/ MqttCreateQueue \/ WcmInit \/ MqttLibInit \/ MqttMalloc \/ MqttCreate
           \/ SendDeinit \/ MqttDisconnect
  <2>1. mqtt_pc \in ConnectingPcs
    BY <1>3 DEF WifiConnectEnter, WifiConnectApSucceeds, WifiConnectApFails, MqttConnectClientId,
         MqttConnectApCheck, RecoveryApCheck, MqttRegisterCallback, MqttConnectFails, MqttCreateQueue,
         WcmInit, MqttLibInit, MqttMalloc, MqttCreate, Acquire, SendDeinit, SendToPublisher,
         MqttDisconnect,
         ConnectingPcs, WifiConnectPcs
  <2>2. session_up' => session_up
    BY <1>3 DEF WifiConnectEnter, WifiConnectApSucceeds, WifiConnectApFails, MqttConnectClientId,
         MqttConnectApCheck, RecoveryApCheck, MqttRegisterCallback, MqttConnectFails, MqttCreateQueue,
         WcmInit, MqttLibInit, MqttMalloc, MqttCreate, Acquire, SendDeinit, SendToPublisher,
         MqttDisconnect,
         queuesAndNet, netVars
  <2>3. mqtt_pc' \in ExitPcs \ LeavingPcs => ~session_up'
    BY <1>2, <2>1, <2>2
  <2> QED
    BY <1>2, <2>1, <2>2, <2>3 DEF SessionFlagged
<1>4. CASE MqttConnectSucceeds
  BY <1>4 DEF MqttConnectSucceeds, AcquiredInOrder, MqttConnectPcs, Resources, flagsAndRes, Goto,
              SessionFlagged, LeavingPcs, ExitPcs
<1>5. CASE MqttConnectStoreSuccess
  <2>1. mqtt_caller = "startup" => cb_pc # "set_flag"
    BY <1>5 DEF MqttConnectStoreSuccess, StoreFlags, NoMessageYet, Early, MqttConnectPcs
  <2> QED
    BY <1>1, <1>5, <2>1 DEF MqttConnectStoreSuccess, StoreFlags, Goto, queuesAndNet, netVars,
         SessionFlagged, LeavingPcs, ExitPcs
<1>6. CASE \/ CreateSubscriber \/ CreatePublisher \/ MqttConnectLoadFlags \/ DeleteSubscriber
           \/ DeletePublisher \/ CleanupDisconnect
  BY <1>1, <1>6 DEF CreateSubscriber, CreatePublisher, MqttConnectLoadFlags, DeleteSubscriber,
       DeletePublisher, CleanupDisconnect, Goto, flagsAndRes, queuesAndNet, netVars,
       SessionFlagged, LeavingPcs, ExitPcs
<1>7. CASE MqttReceive \/ SendSubscribe \/ SendInit \/ MqttTaskHalts
  <2>1. /\ mqtt_pc \notin LeavingPcs \/ mqtt_pc' = mqtt_pc
        /\ mqtt_pc' = mqtt_pc \/ mqtt_pc' \notin ExitPcs \union LeavingPcs
        /\ UNCHANGED <<session_up, resources, status_flag>>
    BY <1>7 DEF MqttReceive, SendSubscribe, SendInit, SendToPublisher, MqttTaskHalts, Goto,
         flagsAndRes, netVars, LeavingPcs, ExitPcs
  <2> QED
    BY <1>1, <2>1 DEF SessionFlagged
<1>8. CASE CleanupDelete \/ CleanupFree \/ CleanupDeinit \/ CleanupWifi \/ CleanupWcm
  <2>1. mqtt_pc \in ExitPcs \ LeavingPcs /\ session_up' = session_up
    BY <1>8 DEF CleanupDelete, CleanupFree, CleanupDeinit, CleanupWifi, CleanupWcm, Release,
         queuesAndNet, netVars, LeavingPcs, ExitPcs
  <2> QED
    BY <2>1 DEF SessionFlagged
<1> QED
  BY <1>3, <1>4, <1>5, <1>6, <1>7, <1>8 DEF MqttTask, MqttTaskStep

LEMMA NextSession ==
  ASSUME TypeOK, Accounted, NoMessageYet, AcquiredInOrder, SessionFlagged, [Next]_vars
  PROVE  SessionFlagged'
<1>1. CASE MqttTask
  BY <1>1, MqttTaskSession
<1>2. CASE Callback
  <2>1. mqtt_pc' = mqtt_pc /\ session_up' = session_up /\ resources' = resources
    BY <1>2 DEF Callback, CallbackStep, netVars, CallbackEnter, CallbackClearFlag,
         CallbackSendDisconnection, CallbackSetFlag, SubscriptionCallbackSend,
         SubscriptionCallbackHalts
  <2>2. CASE CallbackClearFlag
    BY <2>1, <2>2 DEF CallbackClearFlag, SessionFlagged, Accounted, InCallback
  <2>3. CASE CallbackEnter \/ CallbackSetFlag \/ CallbackSendDisconnection
    BY <2>1, <2>3 DEF CallbackEnter, CallbackSetFlag, CallbackSendDisconnection,
         EnterSubscriptionCallback, SessionFlagged
  <2>4. CASE /\ SubscriptionCallbackSend \/ SubscriptionCallbackHalts
             /\ UNCHANGED <<status_flag, cb_flags>>
    BY <2>1, <2>4 DEF SubscriptionCallbackSend, SubscriptionCallbackHalts, cbVars, SessionFlagged
  <2> QED
    BY <1>2, <2>2, <2>3, <2>4 DEF Callback, CallbackStep
<1>3. CASE UNCHANGED vars \/ Subscriber \/ Publisher \/ Press \/ Network
  <2>1. session_up' => session_up
    BY <1>3 DEF vars, netVars, Press, ButtonPress, Network, WifiDrops, WifiRejoins, SessionDrops,
         KeepAliveExpires, ForeignMessage, LoseSession, Subscriber, SubscriberStep, SubscribeSucceeds,
         SubscribeFails, ReportSubscribeFailure, SubscriberInitLed, SubscriberCreateQueue,
         SubscriberReceive, SubscriberWriteLed, SubscriberWriteState, Publisher, PublisherStep,
         PublisherStart, PublisherCreateQueue, PublisherReceive, PublisherInit, PublisherDeinit,
         PublishSucceeds, PublishFails, ReportPublishFailure
  <2> QED
    BY <1>3, <2>1, OthersKeepFlags DEF SessionFlagged
<1> QED
  BY <1>1, <1>2, <1>3 DEF Next

LEMMA NextLink ==
  ASSUME TypeOK, LossComesLast, CopiesAgree, LinkFlagged, [Next]_vars PROVE LinkFlagged'
<1>1. "WIFI_CONNECTED" \in ResourceFlags
  BY DEF ResourceFlags, Flags
<1>2. CASE MqttTask
  <2>1. env_left' = env_left
    BY <1>2 DEF MqttTask, MqttTaskStep
  <2> QED
    BY <1>2, <2>1, MqttTaskFlags DEF LinkFlagged
<1>3. CASE Callback
  <2>1. env_left' = env_left /\ wifi_up' = wifi_up
    BY <1>3 DEF Callback, CallbackStep, netVars, CallbackEnter, CallbackClearFlag,
         CallbackSendDisconnection, CallbackSetFlag, SubscriptionCallbackSend,
         SubscriptionCallbackHalts
  <2> QED
    BY <1>1, <1>3, <2>1, CallbackFlags DEF LinkFlagged
<1>4. CASE UNCHANGED vars \/ Subscriber \/ Publisher \/ Press \/ Network
  <2>1. status_flag' = status_flag
    BY <1>4, OthersKeepFlags
  <2>2. CASE WifiRejoins
    <3>1. /\ env_left \in [EnvEvents -> Nat] /\ EnvBudget["wifi_rejoin"] \in Nat
          /\ "wifi_rejoin" \in EnvEvents
      BY EnvBudgetAssumption DEF TypeOK, PlatformTypeOK, EnvEvents
    <3>2. env_left'["wifi_rejoin"] = env_left["wifi_rejoin"] - 1 /\ env_left["wifi_rejoin"] > 0
      BY <2>2, <3>1 DEF WifiRejoins, Spend
    <3>3. env_left["wifi_rejoin"] \in Nat
      BY <3>1
    <3> QED
      BY <3>1, <3>2, <3>3 DEF LinkFlagged
  <2>3. CASE ~WifiRejoins
    <3>1. /\ wifi_up' => wifi_up
          /\ env_left'["wifi_rejoin"] = env_left["wifi_rejoin"]
      BY <1>4, <2>3 DEF TypeOK, PlatformTypeOK, EnvEvents, Spend, vars, netVars, Press, ButtonPress,
           Network, WifiDrops, SessionDrops, KeepAliveExpires, ForeignMessage, LoseSession, Subscriber,
           SubscriberStep, SubscribeSucceeds, SubscribeFails, ReportSubscribeFailure,
           SubscriberInitLed, SubscriberCreateQueue, SubscriberReceive, SubscriberWriteLed,
           SubscriberWriteState, Publisher, PublisherStep, PublisherStart, PublisherCreateQueue,
           PublisherReceive, PublisherInit, PublisherDeinit, PublishSucceeds, PublishFails,
           ReportPublishFailure
    <3> QED
      BY <2>1, <3>1 DEF LinkFlagged
  <2> QED
    BY <2>2, <2>3
<1> QED
  BY <1>2, <1>3, <1>4 DEF Next

-----------------------------------------------------------------------------
(* The theorems *)

LEMMA InitCleanup == Init => CleanupInv
<1> SUFFICES ASSUME Init PROVE CleanupInv
  OBVIOUS
<1>1. SessionFlagged
  BY DEF Init, PlatformInit, MqttInit, SessionFlagged
<1>2. LinkFlagged
  BY EnvBudgetAssumption DEF Init, PlatformInit, LinkFlagged, EnvEvents
<1> QED
  BY <1>1, <1>2, InitComesLast, InitNoMessageYet, InitCopiesAgree, InitFlagged DEF CleanupInv

LEMMA NextCleanup == TypeOK /\ Accounted /\ CleanupInv /\ [Next]_vars => CleanupInv'
BY NextComesLast, NextNoMessageYet, NextCopiesAgree, NextFlagged, NextInOrder, NextSession, NextLink
   DEF CleanupInv

LEMMA CleanupInvariant == Spec => [](Accounted /\ CleanupInv)
<1>1. Init => Accounted /\ CleanupInv
  BY InitAccounted, InitCleanup
<1>2. TypeOK /\ (Accounted /\ CleanupInv) /\ [Next]_vars => (Accounted /\ CleanupInv)'
  BY NextAccounted, NextCleanup
<1> QED
  BY <1>1, <1>2, TypeCorrect, PTL DEF Spec

\* The callback's update of status_flag, a load and a store without a lock, never undoes a
\* bit the client task has set or cleared for cleanup(): whenever the callback is between
\* the two, the task is neither connecting to the access point nor checking it.
THEOREM FlagUpdatesNeverCollide == Spec => []FlagUpdatesExclusive
<1>1. CleanupInv => FlagUpdatesExclusive
  <2> SUFFICES ASSUME CleanupInv, cb_pc \in {"clear_flag", "set_flag"}
               PROVE  /\ mqtt_pc \notin WifiConnectPcs \union {"ap_check", "recovery_ap_check"}
                      /\ status_flag \cap ResourceFlags = cb_flags \cap ResourceFlags
    BY DEF FlagUpdatesExclusive
  <2>1. ~InTask
    BY DEF CleanupInv, LossComesLast
  <2> QED
    BY <2>1 DEF CleanupInv, CopiesAgree, InTask, ConnectingPcs
<1> QED
  BY <1>1, CleanupInvariant, PTL

\* Wherever start-up or a recovery stops, cleanup() closes a live session before it deletes
\* the MQTT instance, gives back all that was acquired, the buffer after the instance that
\* uses it, and knows of the link it has to take down.
THEOREM CleanupIsComplete == Spec => []CleanupComplete
<1>1. CleanupInv /\ TypeOK => CleanupComplete
  <2> SUFFICES ASSUME CleanupInv, TypeOK PROVE CleanupComplete
    OBVIOUS
  <2>1. CleanupClosesSession
    BY DEF CleanupInv, SessionFlagged, CleanupClosesSession
  <2>2. CleanupReleasesAll
    <3>1. resources \subseteq Resources
      BY DEF TypeOK, MqttTypeOK
    <3> QED
      BY <3>1 DEF CleanupInv, AcquiredInOrder, CleanupReleasesAll, Resources
  <2>3. CleanupKnowsWifi
    BY DEF CleanupInv, LinkFlagged, CleanupKnowsWifi
  <2> QED
    BY <2>1, <2>2, <2>3 DEF CleanupComplete
<1> QED
  BY <1>1, CleanupInvariant, TypeCorrect, PTL
================================================================================
