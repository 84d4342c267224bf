CONSTANTS
  Deliveries = {"d1", "d2"}
  Histories <- MCHistories
  Handlers = {h1, h2}
  MaxFailures = 1
SPECIFICATION IntakeSpec
INVARIANTS OneIntake EnqueuedWasStored
PROPERTIES EveryDeliveryIsStored EventuallyCurrent
CHECK_DEADLOCK FALSE
