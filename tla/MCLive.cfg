SPECIFICATION Spec
CONSTANTS
  Known = {"telegram"}
  Internal = {"cli"}
  Targets = {"telegram", "cli", "gone"}
  OutboundCap = 1
  MaxMessages = 1
PROPERTIES CallsReturn PublishReturns RefusedOnlyByTheDead ExecReturns
CHECK_DEADLOCK FALSE
