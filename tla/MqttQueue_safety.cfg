SPECIFICATION FairSpec
CONSTANTS
  MQTT_QUEUE_SIZE = 4
  MaxMsg = 6
  Confirmed = {2, 3}
  Heap = 3
INVARIANTS
  RequestIsOldest
  NothingSkipped
  AtMostOnceInOrder
  OneWayForward
PROPERTIES
  IsOutbox
  Retries
  RequestsEnd
CHECK_DEADLOCK FALSE
