------------------------------- MODULE EnvSf -------------------------------
(***************************************************************************)
(* The U-Boot environment in SPI NOR flash with a redundant copy           *)
(* (src/u-boot/env/sf.c, CONFIG_ENV_OFFSET_REDUND): env_sf_init,           *)
(* env_sf_load with env_import_redund and self_copy, and env_sf_save.      *)
(*                                                                         *)
(* Copy 1 is at CONFIG_ENV_OFFSET, copy 2 at CONFIG_ENV_OFFSET_REDUND.     *)
(* An environment is named by the number of the save that wrote it         *)
(* (version 0 is the one in flash at the start). The power may fail        *)
(* between any two flash operations, and every flash operation may fail,   *)
(* leaving what it touched torn.                                           *)
(***************************************************************************)
EXTENDS Naturals, FiniteSets

CONSTANTS
    MaxSaves,   \* bound on the number of saves
    Embedded,   \* CONFIG_ENV_SECT_SIZE > CONFIG_ENV_SIZE: the rest of the
                \* sector is read before the erase and written back after
    ResMode     \* the reset modes get_rst_mode() may report at boot

ASSUME MaxSaves \in Nat /\ Embedded \in BOOLEAN /\ ResMode \subseteq BOOLEAN

Copies == {1, 2}
ENV_VALID == 1      \* gd->env_valid naming copy 1
ENV_REDUND == 2     \* gd->env_valid naming copy 2
ACTIVE == 1         \* ENV_REDUND_ACTIVE
OBSOLETE == 0       \* ENV_REDUND_OBSOLETE
\* A copy whose CRC does not match: erased, or torn by a failed write.
Bad == [crc |-> FALSE, ver |-> 0, flags |-> 255]
Copy(v, f) == [crc |-> TRUE, ver |-> v, flags |-> f]

VARIABLES
    flash,      \* the two copies: CRC good?, version, flags byte
    locked,     \* the flash write protection (flash_lock / flash_unlock)
    envValid,   \* gd->env_valid
    newOff, oldOff, \* env_new_offset, env_offset (static, per boot)
    pc,         \* "off" (power cycle), "idle", or the step of a call
    next,       \* the version the next save writes
    committed,  \* the version of the last env_sf_save that returned 0
    attempts    \* versions of saves begun since then

vars == <<flash, locked, envValid, newOff, oldOff, pc, next, committed, attempts>>
history == <<next, committed, attempts>>

(***************************************************************************)
(* env_import_redund (env/common.c): the copy a load takes, or 0 when both *)
(* CRCs are bad. With both good, the flags decide: 255 loses to 0, else    *)
(* the greater wins, and equal flags take copy 1.                          *)
(***************************************************************************)
ImportRedund(c1, c2) ==
    CASE ~c1.crc /\ ~c2.crc -> 0
      [] c1.crc /\ ~c2.crc -> ENV_VALID
      [] ~c1.crc /\ c2.crc -> ENV_REDUND
      [] c1.flags = 255 /\ c2.flags = 0 -> ENV_REDUND
      [] c2.flags = 255 /\ c1.flags = 0 -> ENV_VALID
      [] c1.flags > c2.flags -> ENV_VALID
      [] c2.flags > c1.flags -> ENV_REDUND
      [] OTHER -> ENV_VALID

\* The copy a boot would load from the flash as it is now.
Picked == ImportRedund(flash[1], flash[2])

(***************************************************************************)
(* Boot: env_sf_init sets gd->env_valid = 1 and the static offsets get     *)
(* their initial values; env_sf_load reads both copies and imports. In     *)
(* RES_MODE it then runs self_copy.                                        *)
(***************************************************************************)
Load ==
    /\ pc = "off"
    /\ envValid' = IF Picked = 0 THEN ENV_VALID ELSE Picked
    /\ newOff' = 2 /\ oldOff' = 1
    /\ \E res \in ResMode : pc' = IF res /\ Picked # 0 THEN "sc_erase" ELSE "idle"
    /\ UNCHANGED <<flash, locked, history>>

\* self_copy, writing the rescue image: unlock, erase the rescue area and
\* write it; an erase or write error returns before flash_lock.
SelfCopyErase ==
    /\ pc = "sc_erase"
    /\ locked' = FALSE
    /\ \E ok \in BOOLEAN : pc' = IF ok THEN "sc_write" ELSE "idle"
    /\ UNCHANGED <<flash, envValid, newOff, oldOff, history>>

SelfCopyWrite ==
    /\ pc = "sc_write"
    /\ pc' = "idle"
    /\ locked' \in BOOLEAN    \* TRUE: written and locked; FALSE: error return
    /\ UNCHANGED <<flash, envValid, newOff, oldOff, history>>

\* Power fails: the RAM state is lost, the flash keeps what was written.
Crash ==
    /\ pc # "off"
    /\ pc' = "off"
    /\ UNCHANGED <<flash, locked, envValid, newOff, oldOff, history>>

(***************************************************************************)
(* env_sf_save. Every error does "goto done", which locks the flash and    *)
(* returns the error.                                                      *)
(***************************************************************************)

\* Mutant: both branches set env_offset to CONFIG_ENV_OFFSET_REDUND.
SaveBeginSameOffset ==
    /\ pc = "idle" /\ next < MaxSaves
    /\ next' = next + 1
    /\ attempts' = attempts \cup {next + 1}
    /\ newOff' = IF envValid = ENV_VALID THEN 2 ELSE 1
    /\ oldOff' = 2
    /\ pc' = IF Embedded THEN "read_tail" ELSE "erase"
    /\ UNCHANGED <<flash, locked, envValid, committed>>

\* Export, then write the new copy over the one gd->env_valid does not name.
SaveBegin ==
    /\ pc = "idle" /\ next < MaxSaves
    /\ next' = next + 1
    /\ attempts' = attempts \cup {next + 1}
    /\ newOff' = IF envValid = ENV_VALID THEN 2 ELSE 1
    /\ oldOff' = IF envValid = ENV_VALID THEN 1 ELSE 2
    /\ pc' = IF Embedded THEN "read_tail" ELSE "erase"
    /\ UNCHANGED <<flash, locked, envValid, committed>>

\* Embedded sector: read the rest of the sector into saved_buffer.
ReadTail ==
    /\ pc = "read_tail"
    /\ pc' \in {"erase", "done_err"}
    /\ UNCHANGED <<flash, locked, envValid, newOff, oldOff, history>>

\* flash_unlock, then erase the new copy's sector (torn when it fails).
Erase ==
    /\ pc = "erase"
    /\ locked' = FALSE
    /\ flash' = [flash EXCEPT ![newOff] = Bad]
    /\ pc' \in {"write", "done_err"}
    /\ UNCHANGED <<envValid, newOff, oldOff, history>>

\* Write env_new with flags ACTIVE.
Write ==
    /\ pc = "write"
    /\ \/ /\ flash' = [flash EXCEPT ![newOff] = Copy(next, ACTIVE)]
          /\ pc' = IF Embedded THEN "write_tail" ELSE "flag"
       \/ flash' = flash /\ pc' = "done_err"
    /\ UNCHANGED <<locked, envValid, newOff, oldOff, history>>

\* Embedded sector: write saved_buffer back after the env.
WriteTail ==
    /\ pc = "write_tail"
    /\ pc' \in {"flag", "done_err"}
    /\ UNCHANGED <<flash, locked, envValid, newOff, oldOff, history>>

\* Mutant: gd->env_valid is not toggled after a good save.
FlagNoToggle ==
    /\ pc = "flag"
    /\ LET old == flash[oldOff]
           marked == IF old.crc THEN [old EXCEPT !.flags = OBSOLETE] ELSE old
       IN \/ /\ flash' = [flash EXCEPT ![oldOff] = marked]
             /\ envValid' = envValid
             /\ pc' = "done_ok"
          \/ /\ flash' \in {flash, [flash EXCEPT ![oldOff] = marked]}
             /\ envValid' = envValid /\ pc' = "done_err"
    /\ UNCHANGED <<locked, newOff, oldOff, history>>

\* Program OBSOLETE into the old copy's flags byte, then toggle
\* gd->env_valid. A failed one-byte program leaves the byte either way.
Flag ==
    /\ pc = "flag"
    /\ LET old == flash[oldOff]
           marked == IF old.crc THEN [old EXCEPT !.flags = OBSOLETE] ELSE old
       IN \/ /\ flash' = [flash EXCEPT ![oldOff] = marked]
             /\ envValid' = IF envValid = ENV_REDUND THEN ENV_VALID ELSE ENV_REDUND
             /\ pc' = "done_ok"
          \/ /\ flash' \in {flash, [flash EXCEPT ![oldOff] = marked]}
             /\ envValid' = envValid /\ pc' = "done_err"
    /\ UNCHANGED <<locked, newOff, oldOff, history>>


\* done: flash_lock and return.
Done ==
    /\ pc \in {"done_ok", "done_err"}
    /\ locked' = TRUE /\ pc' = "idle"
    /\ IF pc = "done_ok"
       THEN committed' = next /\ attempts' = {}
       ELSE UNCHANGED <<committed, attempts>>
    /\ UNCHANGED <<flash, envValid, newOff, oldOff, next>>

Init ==
    /\ flash = [c \in Copies |-> IF c = 1 THEN Copy(0, ACTIVE) ELSE Bad]
    /\ locked = TRUE /\ envValid = ENV_VALID /\ newOff = 2 /\ oldOff = 1
    /\ pc = "off" /\ next = 0 /\ committed = 0 /\ attempts = {}

Next == Load \/ SelfCopyErase \/ SelfCopyWrite \/ Crash
        \/ SaveBegin \/ ReadTail \/ Erase \/ Write \/ WriteTail \/ Flag \/ Done

Spec == Init /\ [][Next]_vars

(***************************************************************************)
(* Properties.                                                             *)
(***************************************************************************)

TypeOK ==
    /\ flash \in [Copies -> [crc : BOOLEAN, ver : 0..MaxSaves, flags : {0, 1, 255}]]
    /\ envValid \in {ENV_VALID, ENV_REDUND} /\ {newOff, oldOff} = Copies
    /\ next \in 0..MaxSaves /\ committed \in 0..MaxSaves
    /\ attempts \subseteq 1..MaxSaves

\* Whatever the power does and whichever flash operations fail, a boot loads
\* the environment of the last env_sf_save that returned 0, or of a save
\* begun after it; never an older one and never the default environment.
\* This rests on the order of env_sf_save (write the new copy ACTIVE before
\* marking the old one OBSOLETE) and on gd->env_valid steering each save
\* away from the copy that holds the committed environment.
SavedEnvSurvives ==
    /\ Picked # 0
    /\ flash[Picked].ver \in {committed} \cup attempts


====
