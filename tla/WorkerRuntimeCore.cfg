SPECIFICATION FairSpec
CONSTANTS
  old = old
  new = new
  lone = lone
  once = once
  push = push
  Runner = {old, new, lone}
  Once = {once}
  Enqueuer = {push}
  Deployments <- Together
  Scheduling = {old, new}
  Listening = {old, new, lone}
  Seeding = {old, new}
  Methods <- Maintenance
  Definition = {"quarterly", "hourly"}
  DefinedBy <- Configured
  Job = {j1, j2}
  MaxAttempts = 2
  None = None
INVARIANTS
  LifecycleIsOrderly
  OneShotTruth
PROPERTIES
  CountLimitsJobs
  ProcessesGetThere
