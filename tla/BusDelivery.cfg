CONSTANTS
  alice = alice
  bob = bob
  inject = inject
  a1 = a1
  b1 = b1
  b2 = b2
  i1 = i1
  None = None
  Nudge = Nudge
  NudgeNote = NudgeNote
  Inject = inject
  Chats <- MCChats
  ChannelDriven <- MCDriven
  Chat <- MCChat
  Prompts <- TwoPrompts
  Acks = {}
  LaneCap = 2
  AgentCap = 3
  NudgeEnabled = FALSE
  DoubleEnds = FALSE
  NamesChats = FALSE
  ReplyOvertaken = FALSE
  MaxGen = 1
  MaxCompactions = 1
  MaxAmbient = 0
  MaxCancels = 0
  Verdicts = {"turn-started","gave-up","stuck-compaction"}
  MaxDeadlines = 0
  MaxDrops = 0
  MaxSwallows = 1
  NewSessions = {TRUE, FALSE}
  Patient = TRUE
  LinesOvertaken = FALSE
  MarkerLost = FALSE
  Absorbs = TRUE
  EndsEmpty = TRUE
SPECIFICATION FairSpec
INVARIANTS
  DeliverySafety
  OwedIsBusy
PROPERTIES
  EveryPromptRuns
CHECK_DEADLOCK FALSE
