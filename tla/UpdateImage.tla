----------------------------- MODULE UpdateImage -----------------------------
(***************************************************************************)
(* U-Boot's firmware update (src/u-boot/common/cmd_update.c): the          *)
(* "update" command (uboot, kernel, dtb, all) and do_write_for_rescure,    *)
(* which self_copy (env/sf.c) runs in RES_MODE when the rescue area holds  *)
(* a packed Linux image.                                                   *)
(*                                                                         *)
(* A packed image is a sequence of records; each has a magic number, a     *)
(* flash offset and a file length, and the next record starts filelen +    *)
(* 0x24 bytes further on. "update all" images carry a 0x100-byte header    *)
(* and are walked with the remaining length all_len (u32); rescue images   *)
(* have no header and are walked until the file-end record. A record's    *)
(* contents are abstracted to the record itself; the flash is a function  *)
(* from partition offsets to what they hold; the environment to the one   *)
(* variable a later boot reads, dtb_offset. TFTP transfers and flash       *)
(* writes may fail.                                                        *)
(***************************************************************************)
EXTENDS Naturals, Sequences, SequencesExt

CONSTANTS
    Images,       \* packed images the packer produces for "update all"
    RescueImages, \* packed images found in the rescue area
    Offs,         \* flash partition offsets
    UbootOff,     \* offset 0, where "update uboot" writes
    KernOff,      \* the "kernel" partition of the dtb's partition table
    DtbFlashAddr, \* CONFIG_FDT_FLASH_ADDR, dtb_offset's default
    NewDtb,       \* the record "update dtb" fetches (its off: the dtb
                  \* partition its own partition table declares)
    MaxCmds       \* bound on commands run

\* all_len is a u32; TLC's integers are 32-bit signed, so it is kept as
\* its two's-complement view. A wrapped subtraction (2^32 - d) shows as -d:
\* non-zero like the real value, and the loop only compares it with 0.
Sub32(a, b) == a - b

HeadLen == 256   \* 0x100, the header of an "update all" image
RecGap == 36     \* 0x24, a record's header and trailer around filelen

\* What a header read at a byte offset no record starts at finds: memory
\* beyond the image.
Garbage == [magic |-> "garbage", off |-> UbootOff, flen |-> 0]
\* What partition o held before any update, and holds after a failed write.
Old(o) == [magic |-> "old", off |-> o, flen |-> 0]
Torn(o) == [magic |-> "torn", off |-> o, flen |-> 0]

(***************************************************************************)
(* The packer's layout, the reference the walk is checked against.         *)
(***************************************************************************)
RECURSIVE RecordStart(_, _, _)
RecordStart(img, base, k) ==
    IF k = 1 THEN base
    ELSE RecordStart(img, base, k - 1) + img[k - 1].flen + RecGap

ImageLen(img) == RecordStart(img, HeadLen, Len(img) + 1)

\* The records before the first file-end record: what an update writes.
Payload(img) ==
    LET ends == {k \in DOMAIN img : img[k].magic = "feof"}
    IN IF ends = {} THEN img
       ELSE SubSeq(img, 1, Min(ends) - 1)

VARIABLES
    pc,       \* "idle", "hdr" (loop head), "write", "done", "overrun"
    cmd,      \* the command: "uboot", "kernel", "dtb", "all", "rescue"
    img,      \* the image in RAM
    allLen,   \* all_len (u32)
    ramOff,   \* ram_offset
    ret,      \* the return value
    flash,    \* flash: Offs -> Old(o), Torn(o) or a record written
    env,      \* the RAM environment's dtb_offset
    saved,    \* dtb_offset in the saved environment
    ramDtb,   \* the device tree at dtb_addr
    wrote,    \* the records this command has written, in order
    cmds,     \* commands run
    dtbLen,   \* the global dtb_len
    envSaves  \* env_save calls the command has reached and not yet made

vars == <<pc, cmd, img, allLen, ramOff, ret, flash, env, saved, ramDtb,
          wrote, cmds, dtbLen, envSaves>>

\* CONFIG_FDT_FLASH_SIZE, dtb_len's initial value (any non-zero length).
FdtFlashSize == 64

Base == IF cmd = "rescue" THEN 0 ELSE HeadLen

\* The header read at ram_offset: the magic, flash_offset and filelen.
Decode ==
    LET ks == {k \in DOMAIN img : RecordStart(img, Base, k) = ramOff}
    IN IF ks = {} THEN Garbage ELSE img[CHOOSE k \in ks : TRUE]

\* The partition table of a device tree names where the dtb lives.
DtbPart(d) == d.off

Init ==
    /\ pc = "idle" /\ cmd = "all" /\ img = <<>> /\ allLen = 0 /\ ramOff = 0
    /\ ret = 0
    /\ flash = [o \in Offs |-> Old(o)]
    /\ env = DtbFlashAddr /\ saved = DtbFlashAddr /\ ramDtb = Old(DtbFlashAddr)
    /\ wrote = <<>> /\ cmds = 0 /\ dtbLen = FdtFlashSize /\ envSaves = 0

(***************************************************************************)
(* _do_write_file_: a zero length fails at once; otherwise the flash       *)
(* write (spi_flash_update_external, update_image_for_nand or the eMMC     *)
(* block write), which may fail and leave the partition torn.              *)
(***************************************************************************)
WriteFile(r, ok) ==
    IF r.flen = 0
    THEN ret' = 1 /\ UNCHANGED flash
    ELSE /\ flash' = [flash EXCEPT ![r.off] = IF ok THEN r ELSE Torn(r.off)]
         /\ ret' = IF ok THEN 0 ELSE -1

Begin(c) == pc = "idle" /\ cmds < MaxCmds /\ cmd' = c /\ cmds' = cmds + 1

\* do_update_uboot: u-boot.bin by TFTP (length 0 if it fails), written at 0.
UpdateUboot ==
    /\ Begin("uboot")
    /\ \E got, ok \in BOOLEAN :
          /\ WriteFile([magic |-> "boot", off |-> UbootOff,
                        flen |-> IF got THEN 4 ELSE 0], ok)
          /\ wrote' = IF got /\ ok THEN <<flash'[UbootOff]>> ELSE <<>>
    /\ pc' = "done"
    /\ UNCHANGED <<img, allLen, ramOff, env, saved, ramDtb, dtbLen, envSaves>>

\* _do_get_offset / _do_get_size: a tree at dtb_addr that fails fdt_valid
\* has no partition table, and the lookup gives 0.
HasPartTable(d) == d.magic # "torn"

\* do_update_kernel: the kernel partition from the dtb (return 1 if the
\* lookup gives 0), vmlinux.img by TFTP, written there; kernel_offset is set
\* in the RAM environment only.
UpdateKernel ==
    /\ Begin("kernel")
    /\ IF HasPartTable(ramDtb)
       THEN \E got, ok \in BOOLEAN :
              /\ WriteFile([magic |-> "kern", off |-> KernOff,
                            flen |-> IF got THEN 4 ELSE 0], ok)
              /\ wrote' = IF got /\ ok THEN <<flash'[KernOff]>> ELSE <<>>
       ELSE ret' = 1 /\ wrote' = <<>> /\ UNCHANGED flash
    /\ pc' = "done"
    /\ UNCHANGED <<img, allLen, ramOff, env, saved, ramDtb, dtbLen, envSaves>>

\* do_update_dtb: vmlinux.dtb by TFTP (dtb_len 0 if it fails) is copied
\* to dtb_addr; the dtb partition of the tree now there becomes dtb_offset
\* if it differs; the environment is saved with dtb_len.
UpdateDtb ==
    /\ Begin("dtb")
    /\ \E got \in BOOLEAN :
          LET dtb == IF got THEN NewDtb ELSE ramDtb
          IN /\ ramDtb' = dtb
             /\ env' = DtbPart(dtb)
             /\ dtbLen' = IF got THEN NewDtb.flen ELSE 0
    /\ envSaves' = 1 /\ wrote' = <<>> /\ pc' = "dtbwrite"
    /\ UNCHANGED <<img, allLen, ramOff, ret, flash, saved>>

\* After env_save: the file is written at dtb_offset.
DtbWrite ==
    /\ pc = "dtbwrite" /\ envSaves = 0
    /\ \E ok \in BOOLEAN :
          /\ WriteFile([NewDtb EXCEPT !.off = env, !.flen = dtbLen], ok)
          /\ wrote' = IF dtbLen # 0 /\ ok THEN <<flash'[env]>> ELSE <<>>
    /\ pc' = "done"
    /\ UNCHANGED <<cmd, img, allLen, ramOff, env, saved, ramDtb, cmds, dtbLen,
                   envSaves>>

\* env_save, seen from the command: the saved environment takes the RAM
\* environment's dtb_offset. (EnvSf models how env_sf_save gets there.)
EnvSave ==
    /\ envSaves > 0
    /\ envSaves' = envSaves - 1 /\ saved' = env
    /\ UNCHANGED <<pc, cmd, img, allLen, ramOff, ret, flash, env, ramDtb,
                   wrote, cmds, dtbLen>>

\* do_update_all: linux.bin by TFTP; a zero length fails; otherwise
\* _do_write_all_ starts with all_len -= 0x100 and ram_offset 0x100.
UpdateAll ==
    /\ Begin("all")
    /\ wrote' = <<>>
    /\ \/ pc' = "done" /\ ret' = 1 /\ img' = <<>> /\ UNCHANGED <<allLen, ramOff>>
       \/ \E i \in Images :
             /\ img' = i /\ ret' = 0
             /\ allLen' = Sub32(ImageLen(i), HeadLen) /\ ramOff' = HeadLen
             /\ pc' = "hdr"
    /\ UNCHANGED <<flash, env, saved, ramDtb, dtbLen, envSaves>>

\* self_copy in RES_MODE with a packed Linux image (its first magic is
\* u-boot's) in the rescue area: do_write_for_rescure from ram_offset 0.
Rescue ==
    /\ Begin("rescue")
    /\ \E i \in RescueImages :
          /\ i # <<>> /\ i[1].magic = "boot"
          /\ img' = i
    /\ ret' = 0 /\ ramOff' = 0 /\ pc' = "hdr" /\ wrote' = <<>>
    /\ UNCHANGED <<allLen, flash, env, saved, ramDtb, dtbLen, envSaves>>

(***************************************************************************)
(* The record loop of _do_write_all_ and do_write_for_rescure.             *)
(***************************************************************************)
\* while (all_len != 0) exits: the last write's return value.
LoopEnd ==
    /\ pc = "hdr" /\ cmd = "all" /\ allLen = 0
    /\ pc' = "done"
    /\ UNCHANGED <<cmd, img, allLen, ramOff, ret, flash, env, saved, ramDtb,
                   wrote, cmds, dtbLen, envSaves>>

\* The env_save calls a dtb record costs: one if it moves dtb_offset, and
\* "update all" one more for dtb_len.
SavesFor(r) == (IF env # r.off THEN 1 ELSE 0) + (IF cmd = "all" THEN 1 ELSE 0)

\* Mutant: the tree is copied from the record's header, not its data.
HeaderCopyHeader ==
    /\ pc = "hdr" /\ envSaves = 0 /\ (cmd = "rescue" \/ allLen # 0)
    /\ LET r == Decode IN
       CASE r.magic = "garbage" ->
              pc' = "overrun" /\ UNCHANGED <<ret, env, ramDtb, envSaves>>
         [] r.magic = "feof" ->
              pc' = "done" /\ ret' = 0 /\ UNCHANGED <<env, ramDtb, envSaves>>
         [] r.magic = "dtb" ->
              /\ env' = r.off
              /\ envSaves' = SavesFor(r)
              /\ ramDtb' = [r EXCEPT !.magic = "hdr"]
              /\ pc' = "write" /\ UNCHANGED ret
         [] OTHER -> pc' = "write" /\ UNCHANGED <<ret, env, ramDtb, envSaves>>
    /\ UNCHANGED <<cmd, img, allLen, ramOff, flash, saved, wrote, cmds, dtbLen>>

\* Mutant: the rescue walk moves dtb_offset without env_save.
HeaderRescueNoSave ==
    /\ pc = "hdr" /\ envSaves = 0 /\ (cmd = "rescue" \/ allLen # 0)
    /\ LET r == Decode IN
       CASE r.magic = "garbage" ->
              pc' = "overrun" /\ UNCHANGED <<ret, env, ramDtb, envSaves>>
         [] r.magic = "feof" ->
              pc' = "done" /\ ret' = 0 /\ UNCHANGED <<env, ramDtb, envSaves>>
         [] r.magic = "dtb" ->
              /\ env' = r.off
              /\ envSaves' = IF cmd = "all" THEN 1 ELSE 0
              /\ ramDtb' = r
              /\ pc' = "write" /\ UNCHANGED ret
         [] OTHER -> pc' = "write" /\ UNCHANGED <<ret, env, ramDtb, envSaves>>
    /\ UNCHANGED <<cmd, img, allLen, ramOff, flash, saved, wrote, cmds, dtbLen>>



\* The header read and the switch on the magic number: the file-end record
\* returns 0; a dtb record moves dtb_offset (and saves the environment) if
\* it differs and copies the tree to dtb_addr, and "update all" saves the
\* environment again with dtb_len. A header read outside the image reads
\* memory the model does not know: the walk is over ("overrun").
Header ==
    /\ pc = "hdr" /\ envSaves = 0 /\ (cmd = "rescue" \/ allLen # 0)
    /\ LET r == Decode IN
       CASE r.magic = "garbage" ->
              pc' = "overrun" /\ UNCHANGED <<ret, env, ramDtb, envSaves>>
         [] r.magic = "feof" ->
              pc' = "done" /\ ret' = 0 /\ UNCHANGED <<env, ramDtb, envSaves>>
         [] r.magic = "dtb" ->
              /\ env' = r.off
              /\ envSaves' = SavesFor(r)
              /\ ramDtb' = r
              /\ pc' = "write" /\ UNCHANGED ret
         [] OTHER -> pc' = "write" /\ UNCHANGED <<ret, env, ramDtb, envSaves>>
    /\ UNCHANGED <<cmd, img, allLen, ramOff, flash, saved, wrote, cmds, dtbLen>>


\* Mutant: a failed write does not end the walk.
WriteNoReturn ==
    /\ pc = "write" /\ envSaves = 0
    /\ \E ok \in BOOLEAN :
          LET r == Decode IN
          /\ WriteFile(r, ok)
          /\ allLen' = Sub32(allLen, r.flen + RecGap)
          /\ ramOff' = ramOff + r.flen + RecGap
          /\ wrote' = IF r.flen # 0 /\ ok THEN Append(wrote, r) ELSE wrote
          /\ pc' = "hdr"
    /\ UNCHANGED <<cmd, img, env, saved, ramDtb, cmds, dtbLen, envSaves>>


\* _do_write_file_ for the record; a non-zero return ends the walk,
\* otherwise all_len and ram_offset move past the record.
Write ==
    /\ pc = "write" /\ envSaves = 0
    /\ \E ok \in BOOLEAN :
          LET r == Decode IN
          /\ WriteFile(r, ok)
          /\ IF r.flen # 0 /\ ok
             THEN /\ allLen' = Sub32(allLen, r.flen + RecGap)
                  /\ ramOff' = ramOff + r.flen + RecGap
                  /\ wrote' = Append(wrote, r)
                  /\ pc' = "hdr"
             ELSE pc' = "done" /\ UNCHANGED <<allLen, ramOff, wrote>>
    /\ UNCHANGED <<cmd, img, env, saved, ramDtb, cmds, dtbLen, envSaves>>

\* The command has returned to the prompt.
Prompt ==
    /\ pc = "done"
    /\ pc' = "idle"
    /\ UNCHANGED <<cmd, img, allLen, ramOff, ret, flash, env, saved, ramDtb,
                   wrote, cmds, dtbLen, envSaves>>

\* Every command has been run: the prompt waits.
Idle == pc = "idle" /\ cmds = MaxCmds /\ UNCHANGED vars

Next ==
    \/ UpdateUboot \/ UpdateKernel \/ UpdateDtb \/ UpdateAll \/ Rescue
    \/ DtbWrite \/ EnvSave \/ LoopEnd \/ Header \/ Write \/ Prompt
    \/ Idle

\* U-Boot runs one command at a time on one CPU: a command that has begun
\* runs on. Which command the user types, and when, is not forced.
Fairness == WF_vars(LoopEnd) /\ WF_vars(Header) /\ WF_vars(Write)
            /\ WF_vars(DtbWrite) /\ WF_vars(EnvSave)

Spec == Init /\ [][Next]_vars /\ Fairness

-----------------------------------------------------------------------------
Contents == {Old(o) : o \in Offs} \cup {Torn(o) : o \in Offs} \cup UNION {Range(i) : i \in Images \cup RescueImages}
            \cup {[NewDtb EXCEPT !.off = o] : o \in Offs}
            \cup {[magic |-> m, off |-> o, flen |-> 4] :
                    m \in {"boot", "kern"}, o \in Offs}

TypeOK ==
    /\ pc \in {"idle", "hdr", "write", "dtbwrite", "done", "overrun"}
    /\ cmd \in {"uboot", "kernel", "dtb", "all", "rescue"}
    /\ img \in Images \cup RescueImages \cup {<<>>}
    /\ allLen \in Int /\ ramOff \in Nat
    /\ ret \in {-1, 0, 1}
    /\ flash \in [Offs -> Contents]
    /\ env \in Offs /\ saved \in Offs /\ ramDtb \in Contents
    /\ wrote \in Seq(Contents) /\ cmds \in 0..MaxCmds
    /\ dtbLen \in {0, NewDtb.flen, FdtFlashSize} /\ envSaves \in 0..2

\* A packed update writes the image's records up to the file-end record
\* in image order and stops at the first failed _do_write_file_: it
\* returns 0 exactly when every record was written, and what it wrote is
\* on the flash.
UpdateOutcome ==
    pc = "done" /\ cmd \in {"all", "rescue"} /\ img # <<>> =>
        /\ IsPrefix(wrote, Payload(img))
        /\ (ret = 0) = (wrote = Payload(img))
        /\ \A i \in DOMAIN wrote : flash[wrote[i].off] = wrote[i]

\* The device tree an update delivered (update dtb's file, or the dtb
\* record of a packed image) is, when the update returns 0, both the tree
\* at dtb_addr and the one the saved dtb_offset names on the flash, which
\* the next boot's dma_copy_dtb_to_ddr loads.
NoDtb == [magic |-> "none", off |-> UbootOff, flen |-> 0]

DtbDelivered ==
    IF cmd = "dtb" THEN NewDtb
    ELSE LET ds == {r \in Range(Payload(img)) : r.magic = "dtb"}
         IN IF ds = {} THEN NoDtb ELSE CHOOSE r \in ds : TRUE

DtbFollowsUpdate ==
    pc = "done" /\ ret = 0 /\ cmd \in {"all", "rescue", "dtb"}
    /\ DtbDelivered # NoDtb =>
        flash[saved] = DtbDelivered /\ ramDtb = DtbDelivered

=============================================================================
