CONSTANTS
  MaxSaves = 4
  Embedded = TRUE
  ResMode = {FALSE, TRUE}
  Images <- MCImages
  RescueImages <- MCRescueImages
  Offs = {"o_uboot", "o_kern", "o_dtb", "o_dtb2"}
  UbootOff = "o_uboot"
  KernOff = "o_kern"
  DtbFlashAddr = "o_dtb"
  NewDtb <- MCNewDtb
  MaxCmds = 2
SPECIFICATION Spec
INVARIANT TypeOK
INVARIANT SavedEnvSurvives
INVARIANT UpdateOutcome
INVARIANT DtbFollowsUpdate
