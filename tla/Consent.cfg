SPECIFICATION ConsentSpec
CONSTANTS
  Caller = {r1, r2, r3}
  Type = {"voice", "video"}
  Voice = "voice"
  Row = {x1, x2, x3}
  NoRow = NoRow
  Direct <- OneHop
  Forwarded <- TwoForwarded
  TrustedProxyCount = 1
INVARIANTS ConsentTypeOK OneActivePerType WithdrawalCovers AnswersNameRows
PROPERTIES LedgerOnlyGrows
CHECK_DEADLOCK FALSE
