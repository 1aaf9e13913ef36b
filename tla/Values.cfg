SPECIFICATION Spec
CONSTANTS
  None = None
  Absent = Absent
  Keys <- AllKeys
  HostKeys <- Hosts
  Reread <- Numbers
  Breaking <- Malformed
  WellFormed <- Labelled
  LabelLength <- Lengths
  Ported <- PortedLabels
  Inputs <- AllInputs
INVARIANTS
  TypeOK MergesAsWritten LayersAgree ExposedUnderFQDN VaultImageComplete TrustsEveryName
CHECK_DEADLOCK FALSE
