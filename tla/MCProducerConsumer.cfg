SPECIFICATION FairSpec
CONSTANTS
  Target = 10
  PoolSize = 4
  producer = producer
  consumer = consumer
  chan_sensor_config = chan_sensor_config
  chan_acc_data = chan_acc_data
  chan_acc_data_consumed = chan_acc_data_consumed
  msub_consumer = msub_consumer
  msub_acc_consumed = msub_acc_consumed
  Nobody = Nobody
INVARIANTS
  TypeOK
  PoolSuffices
PROPERTIES
  ImplementsAckLoop
  ProducerStops
CHECK_DEADLOCK FALSE
