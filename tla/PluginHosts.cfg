SPECIFICATION Spec
CONSTANTS
  Keys = {k1, k2, k3}
  Values <- MCValues
  Payloads <- MCPayloads
  Portfolios = {p1, p2}
  STORAGE_MAX_KEYS = 2
  STORAGE_MAX_TOTAL_BYTES = 3
  EVENTS_MAX_COUNT = 1
  EVENT_MAX_PAYLOAD_BYTES = 1
  MaxLogs = 1
  LabelTexts = {"api", "example", "localhost"}
  Allowlists <- MCAllowlists
  Requests <- MCRequests
  UpHeads <- MCUpHeads
  Futures = {f1}
  MaxSends = 2
  MaxCalls = 2
INVARIANTS UngrantedSeesNothing WireIsGated DroppedIsExact GuestSeesSanitized
  CodecAgreesWithRfc GateDecides FiltersAgree
PROPERTIES QuotaIsExact ImplementsPluginStorage
SYMMETRY KeySymmetry
CHECK_DEADLOCK FALSE
