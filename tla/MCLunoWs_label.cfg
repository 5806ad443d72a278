SPECIFICATION Spec
CONSTANTS
  c1 = c1
  c2 = c2
  None = None
  Callers = {c1}
  Symbols = {"BTC/ZAR", "USDC/ZAR", "USD/CZAR"}
  Markets = {"XBTZAR", "USDCZAR"}
  FormatSymbol <- Format
  ParseSymbol <- Parse
  Watched <- Books
  HasCredentials = FALSE
  MaxDials = 2
  MaxCalls = 2
INVARIANT
  LabelledAsSent
CHECK_DEADLOCK FALSE
