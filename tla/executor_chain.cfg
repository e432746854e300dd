SPECIFICATION Spec
CONSTANTS
  Declared <- Tools
  Id <- Ids
  Template <- Templates
  MaxSteps = 3
  Asker <- Askers
  Output <- Outputs
  FailClosed = TRUE
  Traced = TRUE
INVARIANTS AuditedBeforeRun OnlyCleared UnapprovedChangesNothing
  Promised PreviewAgrees ReplyAudited
CHECK_DEADLOCK FALSE
