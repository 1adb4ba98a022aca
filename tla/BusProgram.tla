----------------------------- MODULE BusProgram -----------------------------
(***************************************************************************)
(* The vocabulary in which the drivers of the CPLDs and of the voltage     *)
(* regulators are written down.  A driver is a coroutine without state of  *)
(* its own between two transactions on its I2C bus, so it is modelled as a *)
(* sequence of instructions; the module DriverUpdate executes them.  An    *)
(* instruction is a transaction, a run of transactions that leave the chip *)
(* as it is, or a test of the image.                                       *)
(***************************************************************************)
EXTENDS Naturals, Sequences

CONSTANTS
  Parts,   \* bound: the pages, sectors, sections or register groups of an area
  Tries    \* bound: the attempts of every retry loop that makes more than one

ASSUME LoopAssumption == Parts \in Nat \ {0} /\ Tries \in Nat \ {0}

(* do    what the instruction does                                         *)
(* at    the area of the chip, or the defect of the image it looks at      *)
(* part  the part of the area, 0 for all of it                             *)
(* ok    where to go on after a success, relative to the instruction       *)
(* no    the same after a failure, 0 to give the update up                 *)
(* limit how many attempts are made before the failure counts              *)
(* back  how far a further attempt goes back                               *)
(* keep  the attempts made so far still count afterwards                   *)
Instruction(do, at, part) ==
  [do |-> do, at |-> at, part |-> part, ok |-> 1, no |-> 0,
   limit |-> 1, back |-> 0, keep |-> FALSE]

Deeds ==
  {"ask", "check", "match", "parse", "refuse", "room", "compare", "verdict", "ifHeader",
   "ifData", "erase", "write", "load", "dump", "store", "burn", "restore", "unlock",
   "lock", "select", "primary"}

Subjects ==
  {"none", "spare", "flash", "header", "backup", "ram", "nvm", "page2", "empty",
   "foreign", "noData", "wrongSum", "wrongDevice", "wrongSize", "wrongMode", "unknownType",
   "unknownSize", "malformed", "tooLong", "same", "missingIds", "noPassword"}

Instructions ==
  [do : Deeds, at : Subjects, part : Nat, ok : Nat \ {0}, no : Nat,
   limit : 1..Tries, back : Nat, keep : BOOLEAN]

(* Tests.  Match is an answer of the chip that does not fit the image,     *)
(* Verdict the chip's report about the last command that changed it.       *)
Ask           == Instruction("ask", "none", 0)
Check(defect) == Instruction("check", defect, 0)
Match(defect) == Instruction("match", defect, 0)
Parse(defect) == Instruction("parse", defect, 0)
Refuse        == Instruction("refuse", "none", 0)
Room(reserve) == Instruction("room", "none", reserve)
Compare(area, part) == Instruction("compare", area, part)
Verdict       == Instruction("verdict", "none", 0)
IfHeader      == Instruction("ifHeader", "none", 0)
IfData        == Instruction("ifData", "none", 0)

(* Commands.  Store and Restore copy between the live registers and the    *)
(* memory behind them, Burn is a Store that uses a set of one-time cells.  *)
Erase(area, part)   == Instruction("erase", area, part)
Write(area, part)   == Instruction("write", area, part)
Load(area)          == Instruction("load", area, 0)
Dump(area, part)    == Instruction("dump", area, part)
Store(part)         == Instruction("store", "nvm", part)
Burn(part)          == Instruction("burn", "nvm", part)
Restore             == Instruction("restore", "ram", 0)
Unlock              == Instruction("unlock", "none", 0)
Lock                == Instruction("lock", "none", 0)
SelectSpare         == Instruction("select", "none", 0)
SetPrimary          == Instruction("primary", "none", 0)

(* What an instruction changes of the chip.  Nothing but live registers is  *)
(* lost without power; a burn needs a set of one-time cells, which its      *)
(* first part uses up.                                                      *)
Areas == {"flash", "header", "backup", "image1", "image2", "ram", "nvm", "page2"}

Images == {"image1", "image2"}

Changes(i) == i.do \in {"erase", "write", "dump", "store", "burn", "restore"}

Lasting(i) == Changes(i) /\ i.at # "ram"

Touched(i) == IF i.part = 0 THEN 1..Parts ELSE {i.part}

Spends(i) == i.do = "burn" /\ i.part \in {0, 1}

(* These can only be programmed where they are erased.                      *)
NorAreas == {"flash", "header", "backup", "image1", "image2"}

----------------------------------------------------------------------------
(* Control.                                                                 *)

Retry(i, n) == [i EXCEPT !.limit = n]

Ignored(i) == [i EXCEPT !.no = 1]

(* A loop that starts over whichever of its instructions fails.             *)
Attempts(body, n) ==
  [k \in 1..Len(body) |->
     [body[k] EXCEPT !.back = k - 1, !.limit = n, !.keep = k < Len(body)]]

(* A loop that starts over when its last instruction fails; a failure       *)
(* before it ends the update.                                               *)
FreshRounds(body, n) ==
  [k \in 1..Len(body) |->
     IF k = Len(body) THEN [body[k] EXCEPT !.back = k - 1, !.limit = n] ELSE body[k]]
Rounds(body, n) ==
  [k \in 1..Len(body) |->
     IF k = Len(body) THEN [body[k] EXCEPT !.back = k - 1, !.limit = n]
                      ELSE [body[k] EXCEPT !.keep = TRUE]]

(* A call whose result the caller ignores: a failure leaves it.             *)
Optional(body) ==
  [k \in 1..Len(body) |-> [body[k] EXCEPT !.no = Len(body) + 1 - k]]

(* Code that runs only if a condition holds.                                *)
Guarded(condition, body) ==
  <<[condition EXCEPT !.no = Len(body) + 1]>> \o body

(* A loop over all parts.                                                   *)
Unrolled(body) ==
  LET upTo[p \in 0..Parts] ==
        IF p = 0 THEN <<>> ELSE upTo[p - 1] \o body[p]
  IN upTo

ForEach(body) == Unrolled(body)[Parts]
=============================================================================
