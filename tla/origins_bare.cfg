SPECIFICATION Spec
CONSTANTS
  Called = {"validate_origin"}
  Data <- MCData
  MaxPads = 4
  Certificates <- MCCertificates
INVARIANTS AcceptedIsBare
