SPECIFICATION Spec
CONSTANTS
  Observers = {o1, o2, o3}
  KeyTypes = {"RSA"}
PROPERTY OneFreeIdentity
CHECK_DEADLOCK FALSE
