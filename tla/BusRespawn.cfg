CONSTANTS
  alice = alice
  bob = bob
  inject = inject
  a1 = a1
  b1 = b1
  b2 = b2
  i1 = i1
  None = None
  Nudge = Nudge
  NudgeNote = NudgeNote
  Inject = inject
  Chats <- MCChats
  ChannelDriven <- MCDriven
  Chat <- MCChat
  Prompts <- TwoPrompts
  Acks = {}
  LaneCap = 2
  AgentCap = 3
  NudgeEnabled = FALSE
  DoubleEnds = FALSE
  NamesChats = FALSE
  ReplyOvertaken = FALSE
  MaxGen = 2
  MaxCompactions = 0
  MaxAmbient = 0
  MaxCancels = 0
  Verdicts = {"turn-started","gave-up","error","none"}
  MaxDeadlines = 0
  MaxDrops = 0
  MaxSwallows = 1
  NewSessions = {TRUE, FALSE}
  Patient = TRUE
  LinesOvertaken = FALSE
  MarkerLost = TRUE
  Absorbs = TRUE
  EndsEmpty = TRUE
SPECIFICATION Spec
INVARIANTS
  AnswerSafety
CHECK_DEADLOCK FALSE
