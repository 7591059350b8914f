SPECIFICATION Spec
CONSTANTS
  MQTT_TASK_QUEUE_LENGTH = 3
  PUBLISHER_TASK_QUEUE_LENGTH = 3
  SUBSCRIBER_TASK_QUEUE_LENGTH = 1
  MAX_SUBSCRIBE_RETRIES = 2
  MAX_WIFI_CONN_RETRIES = 2
  MAX_MQTT_CONN_RETRIES = 2
  EnvBudget <- SafetyBudget
INVARIANTS
  TypeOK
  DisconnectionAccountedFor
  ButtonConfiguredInTurn
  FlagUpdatesExclusive
  CleanupComplete
PROPERTY
  ImplementsSupervision
CHECK_DEADLOCK FALSE
