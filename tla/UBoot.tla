------------------------------- MODULE UBoot -------------------------------
(***************************************************************************)
(* U-Boot's environment (EnvSf) and its firmware update (UpdateImage) on   *)
(* one board, with the power failing between any two flash operations.    *)
(*                                                                         *)
(* The two meet in two places. Every env_save the update command makes    *)
(* (cmd_update.c: do_update_dtb, _do_write_all_, do_write_for_rescure) is *)
(* an env_sf_save with its erase, writes and flag byte; the command goes  *)
(* on when it returns, whatever it returned. And a boot in RES_MODE whose *)
(* rescue area holds a packed Linux image runs do_write_for_rescure from  *)
(* inside env_sf_load (self_copy), after the environment is imported.     *)
(* A power failure loses the RAM state of both; a boot reads dtb_offset   *)
(* from the environment env_import_redund picks.                          *)
(***************************************************************************)
EXTENDS Naturals, Sequences

CONSTANTS MaxSaves, Embedded, ResMode,
          Images, RescueImages, Offs, UbootOff, KernOff, DtbFlashAddr, NewDtb,
          MaxCmds

VARIABLES
    envFlash, locked, envValid, newOff, oldOff, envPc, next, committed,
    attempts,                                   \* EnvSf
    pc, cmd, img, allLen, ramOff, ret, flash, env, saved, ramDtb, wrote,
    cmds, dtbLen, envSaves,                     \* UpdateImage
    envDtb,  \* the dtb_offset each environment version holds
    rescue   \* this boot's self_copy has a Linux image still to write

E == INSTANCE EnvSf WITH flash <- envFlash, pc <- envPc
U == INSTANCE UpdateImage

envVars == <<envFlash, locked, envValid, newOff, oldOff, envPc, next,
             committed, attempts>>
updVars == <<pc, cmd, img, allLen, ramOff, ret, flash, env, saved, ramDtb,
             wrote, cmds, dtbLen, envSaves>>
vars == <<envVars, updVars, envDtb, rescue>>

\* The dtb_offset a boot reads: that of the environment env_import_redund
\* picks, or the default CONFIG_FDT_FLASH_ADDR when both copies are bad.
LoadedDtb == IF E!Picked = 0 THEN DtbFlashAddr
             ELSE envDtb[envFlash[E!Picked].ver]

Init ==
    /\ E!Init /\ U!Init
    /\ envDtb = [v \in 0..MaxSaves |-> DtbFlashAddr]
    /\ rescue = FALSE


\* What a boot puts in RAM: the imported dtb_offset, and the tree at it
\* (dma_copy_dtb_to_ddr, on the first _do_get_offset).
BootRam ==
    /\ env' = LoadedDtb /\ saved' = LoadedDtb
    /\ ramDtb' = flash[LoadedDtb]
    /\ UNCHANGED <<pc, cmd, img, allLen, ramOff, ret, flash, wrote, cmds,
                   dtbLen, envSaves, envDtb>>

\* env_sf_load; in RES_MODE, self_copy of a rescue area that holds a
\* U-Boot image (EnvSf's sc_erase and sc_write steps follow).
Boot == E!Load /\ BootRam /\ rescue' = FALSE

\* env_sf_load in RES_MODE, the rescue area holding a packed Linux image:
\* self_copy's else branch, do_write_for_rescure, comes next.
BootRescueLinux ==
    /\ TRUE \in ResMode /\ E!Picked # 0 /\ cmds < MaxCmds
    /\ E!Load /\ envPc' = "idle"
    /\ BootRam /\ rescue' = TRUE

RunRescue ==
    /\ rescue /\ U!Rescue /\ rescue' = FALSE
    /\ UNCHANGED <<envVars, envDtb>>

\* A step of the update command: it runs when no env_sf_save or self_copy
\* is in progress and the boot's rescue write is over.
UStep(A) ==
    /\ envPc = "idle" /\ ~rescue
    /\ A
    /\ UNCHANGED <<envVars, envDtb, rescue>>

\* env_save from the update command: env_sf_save starts, writing an
\* environment whose dtb_offset is the RAM one.
EnvSaveCall ==
    /\ envPc = "idle"
    /\ U!EnvSave /\ E!SaveBegin
    /\ envDtb' = [envDtb EXCEPT ![next + 1] = env]
    /\ UNCHANGED rescue

\* The steps of env_sf_save after its start, and of self_copy.
EnvStep ==
    /\ \/ E!ReadTail \/ E!Erase \/ E!Write \/ E!WriteTail \/ E!Flag \/ E!Done
       \/ E!SelfCopyErase \/ E!SelfCopyWrite
    /\ UNCHANGED <<updVars, envDtb, rescue>>

\* The power fails: the RAM state of the command is lost.
PowerFail ==
    /\ E!Crash
    /\ pc' = "idle" /\ img' = <<>> /\ allLen' = 0 /\ ramOff' = 0 /\ ret' = 0
    /\ wrote' = <<>> /\ dtbLen' = U!FdtFlashSize /\ envSaves' = 0
    /\ rescue' = FALSE
    /\ UNCHANGED <<cmd, flash, env, saved, ramDtb, cmds, envDtb>>

Commands ==
    UStep(U!UpdateUboot \/ U!UpdateKernel \/ U!UpdateDtb \/ U!UpdateAll)

Next ==
    \/ Boot \/ BootRescueLinux \/ RunRescue \/ PowerFail
    \/ Commands
    \/ UStep(U!Header) \/ UStep(U!Write) \/ UStep(U!LoopEnd)
    \/ UStep(U!DtbWrite) \/ UStep(U!Prompt)
    \/ EnvSaveCall \/ EnvStep

\* One CPU runs U-Boot: a command or a save that has begun runs on unless
\* the power fails. Boots, commands and power failures are not forced.
Fairness ==
    /\ WF_vars(RunRescue) /\ WF_vars(UStep(U!Header)) /\ WF_vars(UStep(U!Write))
    /\ WF_vars(UStep(U!LoopEnd)) /\ WF_vars(UStep(U!DtbWrite))
    /\ WF_vars(EnvSaveCall) /\ WF_vars(EnvStep)

Spec == Init /\ [][Next]_vars /\ Fairness

-----------------------------------------------------------------------------
TypeOK ==
    /\ E!TypeOK /\ U!TypeOK
    /\ envDtb \in [0..MaxSaves -> Offs] /\ rescue \in BOOLEAN

\* EnvSf's guarantee, with the update's saves as the callers: a boot loads
\* the environment of the last env_sf_save that returned 0 or of one begun
\* after it.
SavedEnvSurvives == E!SavedEnvSurvives


\* UpdateImage's outcome and dtb guarantees, with power
\* failures and multi-step saves between its steps.
UpdateOutcome == U!UpdateOutcome
DtbFollowsUpdate == U!DtbFollowsUpdate


=============================================================================
