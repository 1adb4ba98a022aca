---------------------------- MODULE CpldPrograms ----------------------------
(***************************************************************************)
(* The CPLD drivers (cpld/): what each function does on the bus, from      *)
(* CPLDDevice::updateDevice down.  Waiting for the chip is one             *)
(* transaction that comes too late or not.  A JEDEC file whose device line *)
(* names another chip leaves the parser with no data and no complaint.     *)
(***************************************************************************)
EXTENDS BusProgram

(* CPLDDevice::updateDevice acquires the multiplexer; the update of every   *)
(* Lattice chip has four phases, of which the first failure is the last.    *)
SetupMux == <<Ask>>

UpdateDevice(updateFirmware) == SetupMux \o updateFirmware

LatticeUpdateFirmware(prepareUpdate, doErase, doUpdate, finishUpdate) ==
  <<Check("empty")>> \o prepareUpdate \o doErase \o doUpdate \o finishUpdate

JedFileParser == <<Parse("foreign")>>

VerifyChecksum == <<Check("wrongSum")>>

----------------------------------------------------------------------------
(* LCMXO2 and LCMXO3.                                                       *)

(* The wait ends with a failure when the chip stays busy.  A flag that      *)
(* could not be read counts as not busy, because the response always has    *)
(* its size: a transaction that changes nothing and whose failure is not    *)
(* seen is no instruction.  Whether the chip is ready is in its status,     *)
(* too, and a status that cannot be read is a failure.                      *)
StaysBusy == <<Ask>>

ReadStatusReg == <<Verdict>>

WaitBusyAndVerify == StaysBusy \o ReadStatusReg

EnableProgramMode == <<Ask>> \o WaitBusyAndVerify

ResetConfigFlash == <<Ask>>

ProgramDone == <<Ask>> \o WaitBusyAndVerify

DisableConfigInterface == <<Ask>>

ReadDeviceId == <<Match("wrongDevice")>>

EraseFlash == <<Erase("flash", 0)>> \o WaitBusyAndVerify

ProgramSinglePage(p) == <<Ask, Write("flash", p)>> \o WaitBusyAndVerify

VerifySinglePage(p) == <<Ask, Compare("flash", p)>>

WriteProgramPage ==
  LET page == [p \in 1..Parts |->
                 Attempts(ProgramSinglePage(p) \o VerifySinglePage(p), Tries)]
  IN Guarded(IfData, ForEach(page)) \o WaitBusyAndVerify

ProgramUserCode == <<Ask>> \o WaitBusyAndVerify

PrepareUpdate == ReadDeviceId \o JedFileParser \o VerifyChecksum

DoErase == Optional(WaitBusyAndVerify) \o EnableProgramMode \o EraseFlash
             \o ResetConfigFlash

DoUpdate == WriteProgramPage \o ProgramUserCode \o ProgramDone

FinishUpdate == DisableConfigInterface

XO3 == UpdateDevice(
         LatticeUpdateFirmware(PrepareUpdate, DoErase, DoUpdate, FinishUpdate))

----------------------------------------------------------------------------
(* LFMXO5-25.  Neither the checksum of the file nor the identity of the     *)
(* chip is looked at.                                                       *)

CheckDeviceReady == <<Ask>>

WaitUntilReady == CheckDeviceReady

StdEraseCfg ==
  LET block == [p \in 1..Parts |-> <<Erase("flash", p)>> \o WaitUntilReady]
  IN ForEach(block)

(* success |= programPage; success |= waitUntilReady: the page counts when  *)
(* either of the two succeeded.                                             *)
StdProgramPage(p) == [Write("flash", p) EXCEPT !.no = 2]

StdProgramCfg ==
  LET page == [p \in 1..Parts |->
                 <<StdProgramPage(p), [Ignored(Ask) EXCEPT !.ok = 2, !.no = 2], Ask>>]
  IN Guarded(IfData, ForEach(page))

StdReadPage(p) == <<Ask>> \o WaitUntilReady \o <<Compare("flash", p)>>

StdVerifyCfg == Guarded(IfData, ForEach([p \in 1..Parts |-> StdReadPage(p)]))

StdProgramDone == <<Ask>>

StdPrepareUpdate == JedFileParser \o WaitUntilReady

StdDoErase == StdEraseCfg

XO5DoUpdate(programCfg) == programCfg

StdFinishUpdate == StdVerifyCfg \o StdProgramDone

XO5Standard ==
  UpdateDevice(LatticeUpdateFirmware(
    StdPrepareUpdate, StdDoErase, XO5DoUpdate(StdProgramCfg), StdFinishUpdate))

----------------------------------------------------------------------------
(* LFMXO5-35T and -65T.  CFG0 shares its blocks with the HEADER area, which *)
(* is copied to a reserved UFM before the erase and back after the          *)
(* programming.                                                             *)

LockI2C == <<Ask>>

ReadCrcStatus == <<Ask>>

IsCrcSuccessful == ReadCrcStatus

(* A command the chip did not take because of its CRC is sent again; a      *)
(* transaction that fails is not.                                           *)
SendReceive(i) == Rounds(<<i>> \o IsCrcSuccessful, Tries)

ToggleCrc16 == LockI2C \o <<Ask>>

TCheckDeviceReady == LockI2C \o <<Ask>>

ReadSoftIPId == SendReceive(Ask) \o SendReceive(Match("wrongDevice"))

TPrepareUpdate ==
  JedFileParser \o VerifyChecksum \o ReadSoftIPId \o ToggleCrc16
    \o TCheckDeviceReady

TEraseCfg(area) ==
  LockI2C \o SendReceive(Ask) \o SendReceive(Erase(area, 0))
    \o TCheckDeviceReady \o SendReceive(Ask)

(* The chunks carry the image or, for the HEADER, what was read before.     *)
TProgramCfg(area) ==
  LET chunk == [p \in 1..Parts |->
                  SendReceive(IF area = "flash" THEN Write(area, p) ELSE Dump(area, p))
                    \o TCheckDeviceReady]
  IN LockI2C \o SendReceive(Ask)
       \o (IF area = "flash" THEN Guarded(IfData, ForEach(chunk)) ELSE ForEach(chunk))
       \o SendReceive(Ask)

TVerifyCfg == LockI2C \o SendReceive(Ask) \o SendReceive(Compare("flash", 0))

TReadCfg(area) == SendReceive(Ask) \o SendReceive(Load(area)) \o SendReceive(Ask)

(* A header that reads as erased is neither copied nor restored.            *)
BackupHeader ==
  LockI2C \o TReadCfg("header")
    \o Guarded(IfHeader, TEraseCfg("backup") \o TProgramCfg("backup")
                     \o TEraseCfg("header"))

RestoreHeader ==
  LockI2C \o TReadCfg("backup")
    \o Guarded(IfHeader, TEraseCfg("header") \o TProgramCfg("header"))

TReadUserCode == ReadSoftIPId \o LockI2C \o SendReceive(Ask)

TDoErase == BackupHeader \o TEraseCfg("flash")

TFinishUpdate == TVerifyCfg \o RestoreHeader \o TReadUserCode

XO5TSeries ==
  UpdateDevice(LatticeUpdateFirmware(
    TPrepareUpdate, TDoErase, XO5DoUpdate(TProgramCfg("flash")), TFinishUpdate))

----------------------------------------------------------------------------
(* LFMXO5-15D.  It holds two images; the one that is not running is erased, *)
(* programmed, tried out by the chip and made the primary one.              *)

EsfbWrite(i) == <<i>>

EsfbReadStatus == <<Verdict>>

EsfbReadData(i) == <<i>>

EsfbWriteRetried(i) == <<Retry(i, Tries)>>

CheckCurrentRunningImageStatus ==
  EsfbWriteRetried(Ask) \o EsfbReadStatus \o EsfbReadData(SelectSpare)

(* The key blob is sent in chunks; the last one lets the chip erase.        *)
EraseNonActiveImage ==
  EsfbWriteRetried(Ask) \o EsfbReadStatus
    \o EsfbWriteRetried(Erase("spare", 0)) \o EsfbReadStatus

ProgramCustomerImage ==
  LET chunk == [p \in 1..Parts |-> EsfbWriteRetried(Write("spare", p)) \o EsfbReadStatus]
  IN ForEach(chunk)

(* The chip answers DRY_RUN, and the command is sent again, until its trial *)
(* is over.                                                                 *)
DryRunCustomerImage == Rounds(EsfbWrite(Ask) \o EsfbReadStatus, Tries)

GetDryRunCustomerImageResult ==
  Rounds(EsfbWrite(Ask) \o EsfbReadStatus, Tries)
    \o EsfbReadData(Compare("spare", 0))

SetPrimaryCustomerImage == Rounds(EsfbWrite(SetPrimary) \o EsfbReadStatus, Tries)

DPrepareUpdate == CheckCurrentRunningImageStatus \o <<Check("wrongSize")>>

DDoErase == EraseNonActiveImage

DDoUpdate == ProgramCustomerImage

DFinishUpdate ==
  DryRunCustomerImage \o GetDryRunCustomerImageResult \o SetPrimaryCustomerImage

XO5DSeries ==
  UpdateDevice(
    LatticeUpdateFirmware(DPrepareUpdate, DDoErase, DDoUpdate, DFinishUpdate))

----------------------------------------------------------------------------
(* MAX10.  The sectors of the configuration are unprotected one by one,     *)
(* erased and written word by word.  Nothing is read back: the chip reports *)
(* about each command.  What is set afterwards are other bits of the        *)
(* register than those of the protection, so the sectors stay unprotected.  *)

ReadReg == <<Retry(Ask, Tries)>>

WriteReg(i) == <<Retry(i, Tries)>>

ReadStatus == <<Retry(Verdict, Tries)>>

ValidateProfile == <<Check("unknownType")>>

ProtectSectors == ReadReg \o WriteReg(Ask)

UnprotectSector(p) == ReadReg \o WriteReg(Unlock)

WaitEraseDone == ReadStatus

WaitWriteDone == ReadStatus

EraseSector(p) == ReadReg \o WriteReg(Erase("flash", p)) \o WaitEraseDone

EraseNone == Optional(ReadReg \o WriteReg(Ask) \o WaitEraseDone)

ProgramRpd ==
  LET unprotect == [p \in 1..Parts |-> UnprotectSector(p)]
      erase == [p \in 1..Parts |-> EraseSector(p)]
      word == [p \in 1..Parts |-> WriteReg(Write("flash", p)) \o WaitWriteDone]
  IN ValidateProfile \o <<Check("wrongSize")>>
       \o ForEach(unprotect) \o ForEach(erase) \o EraseNone
       \o ForEach(word) \o ProtectSectors

Max10UpdateFirmware == <<Check("empty")>> \o ProgramRpd

Max10 == UpdateDevice(Max10UpdateFirmware)
============================================================================
