SPECIFICATION FairSpec
CONSTANTS
  MQTT_TASK_QUEUE_LENGTH = 1
  PUBLISHER_TASK_QUEUE_LENGTH = 1
  SUBSCRIBER_TASK_QUEUE_LENGTH = 1
  MAX_SUBSCRIBE_RETRIES = 2
  MAX_WIFI_CONN_RETRIES = 1
  MAX_MQTT_CONN_RETRIES = 1
  EnvBudget <- ProgressBudget
PROPERTIES
  Recovers
  Resubscribes
  MessageReachesLed
CHECK_DEADLOCK FALSE
