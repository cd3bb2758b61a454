CONSTANTS
  alice = alice
  bob = bob
  inject = inject
  a1 = a1
  b1 = b1
  b2 = b2
  i1 = i1
  None = None
  Nudge = Nudge
  NudgeNote = NudgeNote
  Inject = inject
  Chats <- MCChats
  ChannelDriven <- MCDriven
  Chat <- MCChat
  Prompts <- TwoPrompts
  Acks = {}
  LaneCap = 2
  AgentCap = 3
  NudgeEnabled = TRUE
  DoubleEnds = FALSE
  NamesChats = FALSE
  ReplyOvertaken = TRUE
  MaxGen = 1
  MaxCompactions = 0
  MaxAmbient = 0
  MaxCancels = 0
  Verdicts = {"turn-started"}
  MaxDeadlines = 1
  MaxDrops = 0
  MaxSwallows = 0
  NewSessions = {TRUE, FALSE}
  Patient = TRUE
  LinesOvertaken = FALSE
  MarkerLost = FALSE
  Absorbs = FALSE
  EndsEmpty = TRUE
SPECIFICATION FairSpec
PROPERTIES
  EveryPromptAdmitted
CHECK_DEADLOCK FALSE
