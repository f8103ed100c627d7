SPECIFICATION Spec
CONSTANTS
  Called = {"validate_origin", "b64url_decode", "key_usage_permits"}
  Data <- MCData
  MaxPads = 4
  Certificates <- MCCertificates
INVARIANTS BareIsAccepted PaddingIsOptional FallbackAgrees NothingInvented
