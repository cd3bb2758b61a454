CONSTANTS
  ann = ann
  bob = bob
  cyd = cyd
  a1 = a1
  a2 = a2
  b1 = b1
  b2 = b2
  c1 = c1
  NoPrompt = NoPrompt
  Chats <- MCChats
  Prompts <- MCPrompts
  Chat <- MCChat
  LaneCap = 2
  AgentCap = 4
SPECIFICATION FairSpec
INVARIANTS
  LaneTypeOK
  NothingLostNothingTwice
  PreviewIsAdmissionOrder
  OvertakenAtMostOnce
PROPERTIES
  EveryPromptLeaves
  ImplementsFairLanes
