SPECIFICATION Spec
CONSTANTS
  Authorities <- AllAuthorities
  Subagents = {a1}
  IdleConfirmations = 3
  IdleConfirmCap = 2
  StartupGrace = 2
  BlockerClearScans = 2
  StalenessTimeout = 2
INVARIANT Inv
PROPERTIES CompletionFollowsEnd NoIdleFlicker PromptSurvivesStrayFrames
           ImplementsStatusSpec TicksSettle
