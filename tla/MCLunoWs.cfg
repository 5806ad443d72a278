SPECIFICATION FairSpec
CONSTANTS
  c1 = c1
  c2 = c2
  None = None
  Callers = {c1, c2}
  Symbols = {"BTC/ZAR", "USDC/ZAR", "USD/CZAR"}
  Markets = {"XBTZAR", "USDCZAR"}
  FormatSymbol <- Format
  ParseSymbol <- Parse
  Watched <- BooksAndTrades
  HasCredentials = TRUE
  MaxDials = 2
  MaxCalls = 3
INVARIANTS
  TypeOK
  SocketServesCurrent
  
PROPERTIES
  CallsReturn
  LoopsEnd
CHECK_DEADLOCK FALSE
