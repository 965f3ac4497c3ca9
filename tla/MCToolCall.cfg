SPECIFICATION MCSpec
CONSTANTS
  pa = pa
  pb = pb
  word = word
  Words = {pa, pb, word}
  Tools <- AllTools
  Arguments <- AllArguments
  ALLOW_HTTP = FALSE
  MAX_URL_LEN = 8
  MAX_TOOL_NAME_LEN = 2
  MAX_DESCRIPTION_LEN = 3
  Calls <- AllCalls
  ValidFormats = {"day", "hour"}
  MAX_RESPONSE_SIZE = 1
  INT_BITS = 5
  MANTISSA = 2
  MAX_EXP = 6
  QUANTA = 2
  Jobs <- AllJobs
  Resolutions <- AllResolutions
  Statuses = {200, 500}
  Key = "key"
INVARIANTS
  PathIsSubstitution
  RequiredCoversPath
  UnnamedFieldsKept
  WarnedOpsAreSkipped
  
  EveryUseAudited
PROPERTIES
  ArithmeticNeverWraps
CHECK_DEADLOCK FALSE
