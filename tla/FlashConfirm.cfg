SPECIFICATION Spec
CONSTANTS
  Modules = {"ecu", "clocks"}
  Builds = {20, 21}
  PerVersion = 10
  Installed = {10}
  Broken = Broken
  MaxRebuilds = 1
  MaxHands = 1
PROPERTY ConfirmedIsNew
