SPECIFICATION AuthSpec
CONSTANTS
  Browser = {b1, b2}
  User = {"ann", "bob"}
  Email <- MCEmail
  Lower <- MCLower
  ConfiguredEmails = {"ANN@x"}
  Page = {"/p", "//foreign"}
  ReturnTo <- MCReturnTo
  Foreign = "//foreign"
  LoginTTL = 2
  SessionTTL = 2
  TokenLife = {1}
  MaxLogins = 2
  MaxTime = 2
  MaxInFlight = 2
INVARIANTS AuthTypeOK SessionIsRightful
PROPERTY LoginsNotConfused
SYMMETRY Symmetric
CHECK_DEADLOCK FALSE
