SPECIFICATION GuardSpec
CONSTANTS
  Declared <- Tools
  Asked <- AskedTools
  Targets <- SomeTargets
  Services <- SomeServices
  Words = {"clean", "stop", "disable"}
  Commands = {"dangerous", "prohibited"}
  MaxTalk = 2
INVARIANTS OperationsGuarded
PROPERTIES ApprovalOnlyConfirms TalkNeverUnblocks
