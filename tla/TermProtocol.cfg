\* The test's messages and those at the limits, in at most three packages.
SPECIFICATION ProtocolSpec
CONSTANTS
  Threads = {1, 2}
  STARTP_BODY_MAX_SIZE = 128
  LengthLimit = 360
  ProductDocument <- TestProduct
  CommandDocument <- TestCommands
  Modules <- TestModules
  Commands <- TestModelCommands
  Messages <- AllMessages
  Headers <- Sendable
  Bodies <- SentBodies
  Beyond = {0, 1, 255}
  DeviceIds <- TestIds
  SummerTime = {200}
INVARIANTS OneMeansWhole ReadsBack PackagesTell LoadsWhole
PROPERTIES ImplementsTransfer AllArrivedCompletes
CHECK_DEADLOCK FALSE
