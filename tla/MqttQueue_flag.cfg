SPECIFICATION Spec
CONSTANTS
  MQTT_QUEUE_SIZE = 4
  MaxMsg = 5
  Confirmed = {2, 3}
  Heap = 3
INVARIANT
  FlagMeansBusy
CHECK_DEADLOCK FALSE
