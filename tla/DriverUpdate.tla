---------------------------- MODULE DriverUpdate ----------------------------
(***************************************************************************)
(* The update of a CPLD or of a voltage regulator.  The driver of the chip *)
(* is a program, see BusProgram, executed one transaction at a time.  A    *)
(* transaction may fail before or after the chip has acted on it, a memory *)
(* may take a command badly, and the BMC may restart at any time; the chip *)
(* keeps what it holds, and the next update starts from there.             *)
(***************************************************************************)
EXTENDS Drivers

CONSTANTS
  MaxUpdates,  \* bound: the updates that are started
  MaxWrites    \* bound: the sets of one-time cells left at first

Chips == DOMAIN Programs

(* What one part of an area holds; "new" and "old" are the firmware of the  *)
(* current or the last update and all earlier ones.                         *)
Contents == {"old", "blank", "torn", "new", "header"}

ASSUME BoundsAssumption == MaxUpdates \in Nat /\ MaxWrites \in Nat

VARIABLES
  chip,      \* the chip, which fixes the program
  image,     \* the image of the update: "good", or what is wrong with it
  pc,        \* the next instruction, 0 when no update runs
  tries,     \* the attempts made in the current retry loop
  parsed,    \* the parser found data in the image
  buf,       \* headerData
  mem,       \* the chip's memory
  locked,    \* the chip is write protected
  flagged,   \* the chip reports that the last change of its memory failed
  otp,       \* the sets of one-time cells left
  running,   \* the image the chip runs, of the chips that have two
  primary,   \* the image it will start
  spare,     \* nonActiveImageId
  result,    \* what updateDevice returned; "refused" if it did so knowingly
  touched,   \* this update has sent a command that changes memory
  doubtful,  \* the chip took such a command badly, or not and the driver went on
  updates    \* the updates started

chipVars == <<mem, locked, flagged, otp, running, primary>>

vars == <<chip, image, pc, tries, parsed, buf, mem, locked, flagged, otp, running,
          primary, spare, result, touched, doubtful, updates>>

Code == Programs[chip]
Here == Code[pc]

Does(kinds) == {c \in Chips : \E k \in 1..Len(Programs[c]) : Programs[c][k].do \in kinds}

(* The defects of an image that the driver of the chip distinguishes.       *)
Defects(c) ==
  {Programs[c][k].at : k \in {n \in 1..Len(Programs[c]) :
                               Programs[c][n].do \in {"check", "match", "parse"}}}

Cells(content) == [p \in 1..Parts |-> content]

Whole(area, content) == mem[area] = Cells(content)

(* nonActiveImageId of a new driver object, which does not initialise it.   *)
AnyImage == IF chip \in Does({"select"}) THEN Images ELSE {"image1"}

Other(i) == IF i = "image1" THEN "image2" ELSE "image1"

TypeOK ==
  /\ chip \in Chips /\ image \in {"good"} \cup Defects(chip)
  /\ pc \in 0..Len(Code) + 1 /\ tries \in 0..Tries
  /\ parsed \in BOOLEAN /\ buf \in [1..Parts -> Contents]
  /\ mem \in [Areas -> [1..Parts -> Contents]]
  /\ locked \in BOOLEAN /\ flagged \in BOOLEAN /\ otp \in 0..MaxWrites
  /\ running \in Images /\ primary \in Images /\ spare \in Images
  /\ result \in {"none", "ok", "failed", "refused"}
  /\ touched \in BOOLEAN /\ doubtful \in BOOLEAN /\ updates \in 0..MaxUpdates

Init ==
  /\ chip \in Chips /\ image = "good" /\ pc = 0 /\ tries = 0
  /\ parsed = FALSE /\ buf = Cells("blank")
  /\ \E header \in {"header", "blank"} :
       mem = [a \in Areas |-> CASE a = "header" -> Cells(header)
                                [] a = "backup" -> Cells("blank")
                                [] OTHER        -> Cells("old")]
  /\ locked = (chip \in Does({"unlock", "lock"})) /\ flagged = FALSE
  /\ otp \in (IF chip \in Does({"room"}) THEN 0..MaxWrites ELSE {0})
  /\ running = "image1" /\ primary = "image1" /\ spare \in AnyImage
  /\ result = "none" /\ touched = FALSE /\ doubtful = FALSE /\ updates = 0

----------------------------------------------------------------------------
(* What an instruction does to the chip.                                    *)

Area(i) == IF i.at = "spare" THEN spare ELSE i.at

Programmed(area, cell, content) ==
  IF area \in NorAreas /\ cell \notin {"blank", content} THEN "torn" ELSE content

(* What the part is meant to hold afterwards.                               *)
Intended(i, p) ==
  LET cell == mem[Area(i)][p]
  IN CASE i.do = "erase"              -> "blank"
       [] i.do = "write"              -> Programmed(Area(i), cell, "new")
       [] i.do = "dump"               -> Programmed(Area(i), cell, buf[p])
       [] i.do \in {"store", "burn"}  -> mem["ram"][p]
       [] i.do = "restore"            -> mem["nvm"][p]

Burnable(i) == Spends(i) => otp > 0

(* The chip executes i; "weak" if it does it badly, which it reports.  A    *)
(* chip that is write protected ignores what changes its memory.            *)
Execute(i, weak) ==
  /\ IF Changes(i) /\ ~locked /\ Burnable(i)
     THEN /\ mem' = [mem EXCEPT ![Area(i)] =
                       [p \in 1..Parts |-> IF p \notin Touched(i) THEN @[p]
                                           ELSE IF weak THEN "torn"
                                           ELSE Intended(i, p)]]
          /\ flagged' = weak
          /\ otp' = IF Spends(i) THEN otp - 1 ELSE otp
     ELSE UNCHANGED <<mem, flagged, otp>>
  /\ locked' = CASE i.do = "unlock" -> FALSE [] i.do = "lock" -> TRUE [] OTHER -> locked
  /\ primary' = IF i.do = "primary" THEN spare ELSE primary
  /\ UNCHANGED running
  /\ touched' = (touched \/ Changes(i))
  /\ doubtful' = (doubtful \/ weak)

(* The image to write is the one that is not running, which is not always   *)
(* the one that will be started.                                            *)
NotPrimary == Other(primary)
NotRunning == Other(running)

(* What the driver takes from a transaction that succeeds.                  *)
Receive(i) ==
  /\ buf' = IF i.do = "load" THEN mem[i.at] ELSE buf
  /\ spare' = IF i.do = "select" THEN NotRunning ELSE spare
  /\ parsed' = IF i.do = "parse" THEN image # i.at ELSE parsed

(* Whether what was read is a header.                                       *)
HeaderAssumed == TRUE
HeaderFound == buf # Cells("blank")

(* What a driver concludes from the status the chip reports.                *)
StatusUnread == TRUE
StatusGood == ~flagged

(* What the instruction looks at is as it should be.                        *)
Holds(i) ==
  CASE i.do \in {"check", "match"} -> image # i.at
    [] i.do = "refuse"             -> FALSE
    [] i.do = "room"               -> otp > i.part
    [] i.do = "compare"            ->
         parsed => \A p \in Touched(i) : mem[Area(i)][p] = "new"
    [] i.do = "verdict"            -> StatusGood
    [] i.do = "ifHeader"           -> HeaderFound
    [] i.do = "ifData"             -> parsed
    [] OTHER                       -> TRUE

(* There is no transaction that could fail.                                 *)
Silent(i) == i.do \in {"check", "parse", "refuse", "ifHeader", "ifData"}

----------------------------------------------------------------------------
(* The driver.                                                              *)

Return(r) == pc' = 0 /\ tries' = 0 /\ result' = r

Aged == [a \in Areas |-> [p \in 1..Parts |->
           IF mem[a][p] = "new" THEN "old" ELSE mem[a][p]]]

(* continueUpdateWithMappedPackage calls updateDevice.                      *)
StartUpdate ==
  /\ pc = 0 /\ updates < MaxUpdates
  /\ updates' = updates + 1
  /\ image' \in {"good"} \cup Defects(chip)
  /\ pc' = 1 /\ tries' = 0 /\ result' = "none"
  /\ parsed' = TRUE /\ buf' = Cells("blank")
  /\ mem' = Aged /\ flagged' = FALSE
  /\ spare' \in AnyImage /\ touched' = FALSE /\ doubtful' = FALSE
  /\ UNCHANGED <<chip, locked, otp, running, primary>>

(* The instruction succeeds.                                                *)
Succeed ==
  /\ pc \in 1..Len(Code) /\ Holds(Here)
  /\ \E weak \in BOOLEAN :
       /\ weak => Lasting(Here)
       /\ Execute(Here, weak)
  /\ Receive(Here)
  /\ pc' = pc + Here.ok
  /\ tries' = IF Here.keep THEN tries ELSE 0
  /\ UNCHANGED <<chip, image, result, updates>>

Knowingly(i) == i.do \in {"check", "match", "refuse", "room"} /\ ~Holds(i)

(* Where the next attempt begins.                                           *)
FromStart(i) == pc' = 1
LoopStart(i) == pc' = pc - i.back

UnlimitedTries(i) == i.limit > 1
AttemptsLeft(i) == tries + 1 < i.limit

(* A command that was not executed, as which the driver does not see it.    *)
PassedOver(i) == Changes(i) /\ ~AttemptsLeft(i) /\ i.no > 0

(* It fails: the chip has acted on the transaction or not.  The driver      *)
(* tries again, goes on without it or gives the update up.                  *)
Fail ==
  /\ pc \in 1..Len(Code)
  /\ Silent(Here) => ~Holds(Here)
  /\ \/ Execute(Here, FALSE)
     \/ /\ doubtful' = (doubtful \/ PassedOver(Here))
        /\ UNCHANGED <<chipVars, touched>>
  /\ \/ /\ AttemptsLeft(Here)
        /\ LoopStart(Here) /\ tries' = tries + 1 /\ UNCHANGED result
     \/ /\ ~AttemptsLeft(Here) /\ Here.no > 0
        /\ pc' = pc + Here.no /\ tries' = 0 /\ UNCHANGED result
     \/ /\ ~AttemptsLeft(Here) /\ Here.no = 0
        /\ Return(IF Knowingly(Here) THEN "refused" ELSE "failed")
  /\ UNCHANGED <<chip, image, parsed, buf, spare, updates>>

Finish ==
  /\ pc = Len(Code) + 1
  /\ Return("ok")
  /\ UNCHANGED <<chip, image, parsed, buf, spare, updates, chipVars, touched,
                 doubtful>>

Driver == Succeed \/ Fail \/ Finish

----------------------------------------------------------------------------
(* The environment.                                                         *)

(* The BMC restarts; the chip is powered on its own.                        *)
RestartBMC ==
  /\ pc # 0
  /\ Return("none")
  /\ parsed' = FALSE /\ buf' = Cells("blank") /\ spare' \in AnyImage
  /\ UNCHANGED <<chip, image, updates, chipVars, touched, doubtful>>

Intact(area) == \A p \in 1..Parts : mem[area][p] \in {"old", "new"}

(* The chip loses its power while no update runs.  It starts the primary    *)
(* image, or the other one if that is not intact, and its memory is         *)
(* protected again.                                                         *)
PowerCycle ==
  /\ pc = 0 /\ updates < MaxUpdates
  /\ running' = IF Intact(primary) THEN primary ELSE Other(primary)
  /\ locked' = (chip \in Does({"unlock", "lock"}))
  /\ mem' = IF chip \in Does({"store", "burn"})
            THEN [mem EXCEPT !["ram"] = mem["nvm"]] ELSE mem
  /\ UNCHANGED <<chip, image, pc, tries, parsed, buf, flagged, otp, primary, spare,
                 result, touched, doubtful, updates>>

Next == StartUpdate \/ Driver \/ RestartBMC \/ PowerCycle

SafeSpec == Init /\ [][Next]_vars

(* Every transaction and every sleep ends.                                  *)
Spec == SafeSpec /\ WF_vars(Driver)

----------------------------------------------------------------------------
(* Properties.                                                              *)

(* Where a chip keeps its firmware.                                         *)
Kept ==
  IF chip \in Does({"primary"}) THEN {spare}
  ELSE {a \in {"flash", "nvm", "page2"} :
          \E k \in 1..Len(Code) : Changes(Code[k]) /\ Code[k].at = a}

(* What updateDevice reports as done is done: the whole image is in the     *)
(* memory from which the chip starts, whichever transactions failed and     *)
(* were repeated or ignored, whatever an earlier update left behind and     *)
(* even if the memory took a command badly; and the write protection that   *)
(* TPS25990 and RS31390 take away is back.  Left out are an image in which  *)
(* the parser found nothing and did not say so and, for the drivers that do *)
(* not see it, a command that the chip took badly or not at all.            *)
ReportedMeansStored ==
  result = "ok" /\ parsed /\ (chip \in Unseen => ~doubtful) =>
    /\ \A a \in Kept : Whole(a, "new")
    /\ chip \in Does({"primary"}) => primary = spare
    /\ chip \in Does({"lock"}) => locked

(* An update that is refused, because the image is bad or meant for         *)
(* something else or because the chip cannot be programmed any more, has    *)
(* not changed the chip.                                                    *)
RefusedTouchesNothing ==
  result = "refused" /\ chip \notin AsksLate => ~touched

(* The header of an LFMXO5 is in its place or in the backup at every        *)
(* moment, also when updates fail or the BMC restarts in between, as long   *)
(* as no update begins or ends with the header half restored and the chip   *)
(* stored the backup well.                                                  *)
HeaderAtRest == pc = 0 => Whole("header", "header") \/ Whole("header", "blank")
BackupStored == \A p \in 1..Parts : mem["backup"][p] # "torn"
HeaderThere  == Whole("header", "header") \/ Whole("backup", "header")

HeaderRecoverable ==
  Whole("header", "header") /\ []HeaderAtRest /\ []BackupStored => []HeaderThere

(* The image from which an LFMXO5-15D runs is intact at every moment, also  *)
(* during a second update before the first one has been started.            *)
RunningImageKept == Intact(running)

(* Every update ends.                                                       *)
UpdateEnds == pc # 0 ~> pc = 0

(* "STOP UPDATING: The image does not match the chip."                      *)
(* (lattice_base_cpld.cpp): an image for another chip changes nothing.      *)
ForeignImageStops == image = "foreign" => ~touched
============================================================================
