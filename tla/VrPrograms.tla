----------------------------- MODULE VrPrograms -----------------------------
(***************************************************************************)
(* The voltage regulator drivers (i2c-vr/): what each function does on the *)
(* bus, from I2CVRDevice::updateDevice down.  The registers of a regulator *)
(* are live ("ram"); a command copies them to the memory ("nvm") from      *)
(* which it starts.  Selecting a page is part of the access that needs it. *)
(***************************************************************************)
EXTENDS BusProgram

CONSTANT WarnRemaining  \* bound: VRWarnRemaining, for a smaller number of writes

ASSUME WarnAssumption == WarnRemaining \in Nat

VrUpdateDevice(verifyImage, updateFirmware) == verifyImage \o updateFirmware

(* The regulators that can only be read.                                    *)
XDP71X == VrUpdateDevice(<<Refuse>>, <<Refuse>>)

----------------------------------------------------------------------------
(* ISL69269, ISL69260, RAA...: the chip programs itself when it has         *)
(* received the last record.  A data record that is too long ends the       *)
(* parsing with no data and no complaint.                                   *)

DmaReadWrite(i) == <<Ask, i>>

IslGetRemainingWrites == DmaReadWrite(Room(0))

GetHexMode == DmaReadWrite(Ask)

IslGetDeviceId == <<Match("wrongDevice")>>

IslGetDeviceRevision == <<Ask>>

IslGetCRC == DmaReadWrite(Match("same"))

IslParseImage == <<Check("malformed"), Parse("tooLong")>>

IslCheckImage == <<Check("wrongSum")>>

(* One bit says that the programming succeeded; it is read again while it   *)
(* is not set.                                                              *)
IslGetProgStatus == Rounds(DmaReadWrite(Ask) \o <<Verdict>>, Tries)

(* A record that the chip did not acknowledge is only logged.               *)
IslProgram ==
  LET record == [p \in 1..Parts |-> <<Ignored(Write("ram", p))>>]
  IN Guarded(IfData, ForEach(record) \o <<Ignored(Burn(0))>>) \o IslGetProgStatus

IslVerifyImage ==
  GetHexMode \o IslParseImage \o IslCheckImage \o <<Check("wrongMode")>>
    \o IslGetRemainingWrites \o IslGetDeviceId \o IslGetDeviceRevision
    \o IslGetCRC

IslUpdateFirmware == IslProgram

ISL69269 == VrUpdateDevice(IslVerifyImage, IslUpdateFirmware)

----------------------------------------------------------------------------
(* XDPE1X2XX.  The whole configuration is invalidated before its sections   *)
(* are stored one by one; program() resets what was parsed.  A file without *)
(* sections is taken for one with none.                                     *)

XdpeGetDeviceId == <<Ask>>

MfrFWcmd(i, response) == <<Ask, i>> \o response

GetConfigSize == <<Check("unknownSize")>>

XdpeGetRemainingWrites == MfrFWcmd(Ask, <<Ask>>) \o XdpeGetDeviceId \o GetConfigSize

XdpeGetCRC == MfrFWcmd(Ask, <<Match("same")>>)

(* The status after the programming is read with the two buffers swapped,   *)
(* so the byte tested is always 0.                                          *)
StatusFaultRead == <<Ask>>

EnoughRemaining == <<Room(WarnRemaining)>>

XdpeProgram ==
  LET section == [p \in 1..Parts |->
                    <<Ask>> \o MfrFWcmd(Erase("nvm", p), <<>>) \o <<Ask, Write("ram", p)>>
                      \o MfrFWcmd(Burn(p), <<>>) \o StatusFaultRead]
  IN XdpeGetCRC \o XdpeGetRemainingWrites \o EnoughRemaining
       \o MfrFWcmd(Erase("nvm", 0), <<>>) \o Guarded(IfData, ForEach(section))

XdpeParseImage == <<Check("malformed"), Parse("noData")>>

XdpeCheckImage == <<Check("wrongSum")>>

XdpeVerifyImage == XdpeParseImage \o XdpeCheckImage

GetScratchPadAddress == MfrFWcmd(Ask, <<Ask>>)

XdpeUpdateFirmware == GetScratchPadAddress \o XdpeProgram

XDPE1X2XX == VrUpdateDevice(XdpeVerifyImage, XdpeUpdateFirmware)

----------------------------------------------------------------------------
(* The regulators of MPS.  A line that cannot be parsed leaves no data.     *)

MpsParse == <<Check("malformed")>>

MpsParseImage == MpsParse

(* The registers and the identifiers that parseDeviceConfiguration has to   *)
(* find in the image.                                                       *)
MissingIds == <<Check("missingIds")>>

(* MP2X6XX: one group of registers per configuration, stored one by one.    *)

Mp2x6VerifyImage == MpsParseImage \o MissingIds

Mp2x6CheckId == <<Ask, Match("wrongDevice")>>

Mp2x6UnlockWriteProtect == <<Ask, Unlock>>

SelectConfig(p) == IF p = 1 THEN <<>> ELSE <<Ask>>

StoreUserCode(p) == <<Ask, Store(p)>>

Mp2x6ProgramConfigData(p) == <<Ask, Write("ram", p)>> \o StoreUserCode(p)

ConfigAllRegisters ==
  LET config == [p \in 1..Parts |-> SelectConfig(p) \o Mp2x6ProgramConfigData(p)]
  IN ForEach(config)

Mp2x6GetCRC == <<Ask, Compare("nvm", 0)>>

Mp2x6CheckMTPCRC == Mp2x6GetCRC

Mp2x6UpdateFirmware ==
  Mp2x6CheckId \o Mp2x6CheckId \o Mp2x6CheckId \o Mp2x6UnlockWriteProtect
    \o ConfigAllRegisters \o Mp2x6CheckMTPCRC

MP2X6XX == VrUpdateDevice(Mp2x6VerifyImage, Mp2x6UpdateFirmware)

(* MP297X: two pages of registers that are stored together, and a page of   *)
(* configurations that is written to the MTP directly.                      *)

Mp297VerifyImage == MpsParseImage \o MissingIds

Mp297CheckId == <<Ask, Match("wrongDevice")>>

IsPasswordUnlock == <<Ask, Match("noPassword")>>

Mp297UnlockWriteProtect == <<Ask, Unlock>>

Mp297ProgramPageRegisters(area, p) == <<Ask, Retry(Write(area, p), Tries)>>

Mp297StoreDataIntoMTP == <<Ask, Store(0)>>

EnableMTPPageWriteRead == <<Ask>>

EnableMultiConfigCRC == <<Ask>>

Mp297GetCRC == <<Ask, Compare("nvm", 0), Ask, Compare("page2", 0)>>

Mp297CheckMTPCRC == Mp297GetCRC

Mp297UpdateFirmware ==
  LET page == [p \in 1..Parts |-> Mp297ProgramPageRegisters("ram", p)]
      page2 == [p \in 1..Parts |-> Mp297ProgramPageRegisters("page2", p)]
  IN Mp297CheckId \o Mp297CheckId \o IsPasswordUnlock \o Mp297UnlockWriteProtect
       \o ForEach(page) \o Mp297StoreDataIntoMTP \o EnableMTPPageWriteRead
       \o EnableMultiConfigCRC \o ForEach(page2) \o Mp297CheckMTPCRC

MP297X == VrUpdateDevice(Mp297VerifyImage, Mp297UpdateFirmware)

(* MPQ87XX: write, store and compare, twice if the first round fails.       *)

Mpq87CheckId == <<Ask, Match("wrongDevice")>>

Mpq87ProgramPageRegisters ==
  LET register == [p \in 1..Parts |-> <<Write("ram", p)>>] IN <<Ask>> \o ForEach(register)

StoreMTP == <<Ask, Store(0)>>

Mpq87GetCRC == <<Compare("nvm", 0)>>

Mpq87VerifyCRC == Mpq87GetCRC

Mpq87VerifyImage == MpsParseImage \o MissingIds

Mpq87UpdateFirmware ==
  Mpq87CheckId
    \o Rounds(Mpq87ProgramPageRegisters \o StoreMTP \o Mpq87VerifyCRC, Tries)

MPQ87XX == VrUpdateDevice(Mpq87VerifyImage, Mpq87UpdateFirmware)

(* MP292X and MP994X: the checksum is only valid once the registers have    *)
(* been read back from the memory.                                          *)

Mpx9VerifyImage == MpsParseImage \o MissingIds

Mpx9CheckId == <<Ask, Match("wrongDevice")>>

Mpx9UnlockWriteProtect == <<Ask, Unlock>>

DisableStoreFaultTriggering == <<Ask>>

SetMultiConfigAddress(p) == IF p = 1 THEN <<>> ELSE <<Ask>>

Mpx9StoreDataIntoMTP(p) == <<Ask, Store(p)>>

Mpx9ProgramConfigData(p) == <<Ask, Write("ram", p)>> \o Mpx9StoreDataIntoMTP(p)

ProgramAllRegisters ==
  LET config == [p \in 1..Parts |-> SetMultiConfigAddress(p) \o Mpx9ProgramConfigData(p)]
  IN ForEach(config)

Mpx9GetCRC == <<Ask, Compare("ram", 0)>>

(* A failure to select page 0 is logged, and the command that restores the  *)
(* registers goes to page 2, where it may have no effect.                   *)
RestoreDataFromNVM == <<Ask, [Ask EXCEPT !.no = 2], Restore>>

Mpx9CheckMTPCRC == Mpx9GetCRC

Mpx9UpdateFirmware ==
  Mpx9CheckId \o Mpx9CheckId \o Mpx9CheckId \o Mpx9UnlockWriteProtect
    \o DisableStoreFaultTriggering \o ProgramAllRegisters \o RestoreDataFromNVM
    \o Mpx9CheckMTPCRC

MPX9XX == VrUpdateDevice(Mpx9VerifyImage, Mpx9UpdateFirmware)

(* MP5998.                                                                  *)

Mp5998VerifyImage == MpsParseImage \o MissingIds

Mp5998CheckId == <<Ask, Match("wrongDevice")>>

UnlockWriteProtection == <<Ask, Unlock>>

Mp5998ProgramAllRegisters ==
  LET register == [p \in 1..Parts |-> <<Ask, Write("ram", p)>>] IN ForEach(register)

Mp5998StoreMTP == <<Ask, Store(0)>>

WaitForMTPComplete == <<Verdict>>

Mp5998GetCRC == <<Ask, Compare("nvm", 0)>>

Mp5998VerifyCRC == Mp5998GetCRC

SendRestoreMTPCommand == <<Ask, Restore>>

CheckEEPROMFaultAfterRestore == <<Ask, Verdict>>

RestoreMTPAndVerify == SendRestoreMTPCommand \o CheckEEPROMFaultAfterRestore

Mp5998UpdateFirmware ==
  Mp5998CheckId \o Mp5998CheckId \o UnlockWriteProtection
    \o Mp5998ProgramAllRegisters \o Mp5998StoreMTP \o WaitForMTPComplete
    \o Mp5998VerifyCRC \o RestoreMTPAndVerify

MP5998 == VrUpdateDevice(Mp5998VerifyImage, Mp5998UpdateFirmware)

----------------------------------------------------------------------------
(* TDA38640A.  A file without the line that announces the data has none.    *)

SetPage == <<Ask>>

GetUserRemainingWrites == SetPage \o <<Room(0)>>

TdaGetDeviceRevision == SetPage \o <<Match("wrongDevice")>>

TdaGetCRC == SetPage \o <<Ask, Match("same")>>

TdaParseImage == <<Check("malformed"), Parse("noData")>>

UnlockDevice == <<Unlock>>

ProgrammingCmd == SetPage \o <<Ask, Burn(0)>>

TdaGetProgStatus == <<Ask>>

TdaProgram ==
  LET offset == [p \in 1..Parts |-> SetPage \o <<Write("ram", p)>>]
  IN UnlockDevice \o Guarded(IfData, ForEach(offset)) \o ProgrammingCmd
       \o Rounds(TdaGetProgStatus \o <<Verdict>>, Tries)

TdaVerifyImage ==
  TdaParseImage \o GetUserRemainingWrites \o TdaGetDeviceRevision \o TdaGetCRC

TdaUpdateFirmware == TdaProgram

TDA38640A == VrUpdateDevice(TdaVerifyImage, TdaUpdateFirmware)

----------------------------------------------------------------------------
(* TPS25990 and RS31390.  Whether a bank of the memory is free is only      *)
(* asked when the live registers have been changed.  Lines other than those *)
(* of registers are skipped, so a file of them has no data.                 *)

TpsParseImage == <<Check("malformed"), Parse("noData")>>

RsParseImage == <<Check("malformed"), Parse("noData")>>

TpsVerifyImage(parseImage) == parseImage

TpsUnlockWriteProtect == <<Unlock>>

LockWriteProtect == <<Lock>>

ImportUserConfig ==
  LET register == [p \in 1..Parts |-> <<Write("ram", p)>>]
  IN Guarded(IfData, ForEach(register))

CheckNVMavailable == <<Room(0)>>

TpsProgram == <<Burn(0)>>

(* The checksum is computed over the live registers.                        *)
TpsGetCheckSum == <<Compare("ram", 0)>>

RsGetCheckSum == <<Compare("ram", 0)>>

CheckProgram(getCheckSum) == getCheckSum \o <<Verdict>>

TpsUpdateFirmware(getCheckSum) ==
  TpsUnlockWriteProtect \o ImportUserConfig \o CheckNVMavailable \o TpsProgram
    \o LockWriteProtect \o CheckProgram(getCheckSum)

TPS25990 ==
  VrUpdateDevice(TpsVerifyImage(TpsParseImage), TpsUpdateFirmware(TpsGetCheckSum))

RS31390 ==
  VrUpdateDevice(TpsVerifyImage(RsParseImage), TpsUpdateFirmware(RsGetCheckSum))
============================================================================
