CONSTANTS
  Requests = {1, 2}
  MaxWork = 2
SPECIFICATION CloudflareSpec
PROPERTIES
  ResumeOfRunningIsNoOp
CHECK_DEADLOCK FALSE
