\* Every page, four chassis, one port with any settings, and a dialog in which
\* the user changes one of them.
SPECIFICATION Spec
CONSTANTS
  Configs <- AllConfigs
  Clicked <- AllClicked
  MaxChanges = 1
INVARIANTS
  DialogWritesItsRow
  TextFits
\* one dialog is submitted
CHECK_DEADLOCK FALSE
