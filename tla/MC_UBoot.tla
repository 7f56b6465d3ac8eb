------------------------------- MODULE MC_UBoot -------------------------------
(***************************************************************************)
(* Images for UBoot: partitions for u-boot, the kernel and two dtb         *)
(* locations; "update all" images with and without a file-end record, one *)
(* moving the dtb and one with a zero-length file; rescue images that keep *)
(* or move the dtb.                                                        *)
(***************************************************************************)
EXTENDS UBoot

Rec(m, o, n) == [magic |-> m, off |-> o, flen |-> n]
Feof == Rec("feof", "o_uboot", 0)

MCImages ==
    { <<Rec("boot", "o_uboot", 4), Rec("dtb", "o_dtb2", 8),
        Rec("kern", "o_kern", 4), Feof>>,
      <<Rec("kern", "o_kern", 8), Rec("user", "o_dtb", 4)>>,
      <<Rec("boot", "o_uboot", 4), Rec("kern", "o_kern", 0), Feof>> }

MCRescueImages ==
    { <<Rec("boot", "o_uboot", 4), Rec("dtb", "o_dtb", 4), Feof>>,
      <<Rec("boot", "o_uboot", 8), Rec("dtb", "o_dtb2", 4),
        Rec("kern", "o_kern", 4), Feof>> }

MCNewDtb == Rec("dtb", "o_dtb2", 4)
=============================================================================
