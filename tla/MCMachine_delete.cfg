SPECIFICATION Spec
CONSTANTS
  AppThreads = {t1, t2}
  OldThreads = {t2}
  Trees = {t1}
  CallLists <- TheCalls
  DemoScripts <- TheScripts
  Modes = {"agent"}
  MaxAppTurns = 1
  MaxSteers = 1
  MaxAppRounds = 1
  MaxWire = 2
  MaxWindows = 1
  Adapters = {"server", "tools", "exec", "claude"}
  Patches = {p1, p2}
  NoPatch = NoPatch
  MaxTold = 2
  MaxFollow = 1
  MaxNative = 1
  MaxTools = 2
  MaxEarly = 1
  MaxPipe = 2
  Grants = {gr}
  Candidates = {c1}
  NoSigner = NoSigner
  MaxProcs = 4
  MaxBoots = 2
  MaxAsked = 3
  People = {ann, ben}
  NoPerson = NoPerson
  Tickets = {k1}
  NoTicket = NoTicket
  Logins = {l1, l2}
  MaxTokens = 3
  MaxPolls = 2
  MaxMail = 2
  MaxMoves = 1
  MaxTrouble = 1
  MaxLog = 4
  MaxStores = 2
  PairTeams = {ta, tb}
  NoTeam = NoTeam
  Authority = ta
  MaxLinks = 2
  MaxStarts = 2
  MaxFails = 1
INVARIANT CheckoutStays
CHECK_DEADLOCK FALSE
