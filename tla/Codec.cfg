SPECIFICATION Spec
CONSTANTS
  Versions = {"known", "other"}
  KnownVersion = "known"
  SlowPeriod = 2
  FastPeriod = 1
  Horizon = 4
INVARIANTS
  TypeOK
  LookupsSucceed
  CommandReadBack
  ReportIsRead
  PublishRate
  InfoPrintsReported
