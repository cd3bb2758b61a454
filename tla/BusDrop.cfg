CONSTANTS
  alice = alice
  bob = bob
  inject = inject
  a1 = a1
  b1 = b1
  b2 = b2
  i1 = i1
  None = None
  Nudge = Nudge
  NudgeNote = NudgeNote
  Inject = inject
  Chats <- MCChats
  ChannelDriven <- MCDriven
  Chat <- MCChat
  Prompts <- TwoPrompts
  Acks = {}
  LaneCap = 2
  AgentCap = 3
  NudgeEnabled = FALSE
  DoubleEnds = FALSE
  NamesChats = FALSE
  ReplyOvertaken = FALSE
  MaxGen = 1
  MaxCompactions = 0
  MaxAmbient = 0
  MaxCancels = 0
  Verdicts = {"turn-started","gave-up"}
  MaxDeadlines = 0
  MaxDrops = 1
  MaxSwallows = 1
  NewSessions = {TRUE, FALSE}
  Patient = TRUE
  LinesOvertaken = FALSE
  MarkerLost = FALSE
  Absorbs = TRUE
  EndsEmpty = TRUE
SPECIFICATION FairSpec
INVARIANTS
  DeliverySafety
PROPERTIES
  EveryPromptRuns
CHECK_DEADLOCK FALSE
