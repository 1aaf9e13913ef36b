SPECIFICATION Spec
CONSTANTS
  None = None
  Absent = Absent
  Keys <- AllKeys
  HostKeys <- Hosts
  Reread <- Numbers
  Breaking <- Malformed
  WellFormed <- Labelled
  LabelLength <- Lengths
  Ported <- PortedLabels
  Inputs <- AllInputs
INVARIANTS
  PullSecretsReplicated
CHECK_DEADLOCK FALSE
