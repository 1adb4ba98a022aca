--------------------------- MODULE DriverOutline ---------------------------
(***************************************************************************)
(* What can be said about the code of a driver without running it.  The    *)
(* first part is about the order of its instructions.  The second one is   *)
(* about proof outlines: what is known about the chip before each          *)
(* instruction of an update of an image with data, whatever has failed and *)
(* been repeated until there.  An outline is one when it is kept by every  *)
(* instruction.  The header of an LFMXO5, which an update may find in its  *)
(* place or only in the backup, has an outline of its own, with several    *)
(* situations.  DriversProofs proves these things of the drivers,          *)
(* DriverUpdateProofs what follows for their updates.                      *)
(***************************************************************************)
EXTENDS Drivers

Has(code, do) == \E k \in 1..Len(code) : code[k].do = do

(* Code is never left, and changes or reads back areas.                     *)
StaysInside(code) ==
  /\ code \in Seq(Instructions)
  /\ \A k \in 1..Len(code) :
       LET i == code[k]
       IN /\ k + i.ok \in 1..Len(code) + 1
          /\ k + i.no \in 1..Len(code) + 1
          /\ i.back < k
          /\ Changes(i) => i.at \in (Areas \ Images) \cup {"spare"} /\ i.part <= Parts
          /\ i.do = "load" => i.at \in Areas

(* Nothing passes instruction s by, and the driver gives up when it fails.  *)
Gate(code, s) ==
  /\ s \in 1..Len(code) /\ code[s].no = 0
  /\ \A k \in 1..s - 1 : k + code[k].ok <= s /\ k + code[k].no <= s

(* Instruction s asks which image is running.                               *)
Selects(code, s) == Gate(code, s) /\ code[s].do = "select"

(* A driver that changes one of two images has asked before.                *)
SelectsFirst(code) ==
  \A k \in 1..Len(code) :
    Changes(code[k]) /\ code[k].at = "spare" => \E s \in 1..k - 1 : Selects(code, s)

Refuses(i) == i.do \in {"check", "match", "refuse", "room"} /\ i.no = 0

LooksAtImage(i) == i.do \in {"check", "match"}

(* The code up to instruction d changes nothing, and no retry leads back    *)
(* into it.                                                                 *)
Prologue(code, d) ==
  \A k \in 1..Len(code) :
    /\ Changes(code[k]) => k > d
    /\ k > d => k - code[k].back > d

(* A driver that refuses before it changes anything; what is looked at      *)
(* again later has been found good.                                         *)
RefusesFirst(code) ==
  \A k \in 1..Len(code) :
    Refuses(code[k]) =>
      \/ \E d \in k..Len(code) : Prologue(code, d)
      \/ \E s \in 1..k - 1 :
           /\ Gate(code, s) /\ LooksAtImage(code[s]) /\ LooksAtImage(code[k])
           /\ code[s].at = code[k].at

----------------------------------------------------------------------------
(* Knowledge about the chip.                                                *)

(* A cell is a part of an area, of the spare image for "spare".             *)
Cell == ((Areas \ Images) \cup {"spare"}) \X (1..Parts)

(* new, clean      the cells that hold the image, or that or nothing        *)
(* ifNew, ifClean  those that do so unless the chip reports a failure       *)
(* flags           "open" and "locked" speak of the write protection,       *)
(*                 "cells" says that a set of one-time cells is left and    *)
(*                 "primary" that the spare image is the primary one        *)
Knowledge ==
  [new : SUBSET Cell, clean : SUBSET Cell, ifNew : SUBSET Cell,
   ifClean : SUBSET Cell, flags : SUBSET {"open", "locked", "cells", "primary"}]

AtMost(K, L) ==
  /\ K.new \subseteq L.new /\ K.clean \subseteq L.clean
  /\ K.ifNew \subseteq L.ifNew /\ K.ifClean \subseteq L.ifClean
  /\ K.flags \subseteq L.flags

(* A chip whose driver neither locks nor unlocks it is not protected.       *)
Protects(code) == Has(code, "unlock") \/ Has(code, "lock")

AtFirst(code) ==
  [new |-> {}, clean |-> {}, ifNew |-> {}, ifClean |-> {},
   flags |-> IF Protects(code) THEN {} ELSE {"open"}]

----------------------------------------------------------------------------
(* The cells of which an instruction may change the content or the meaning. *)
Named(i) == {i.at} \X Touched(i)
Lost(i) ==
  IF Changes(i) THEN Named(i) ELSE IF i.do = "select" THEN {"spare"} \X (1..Parts) ELSE {}

(* The chip is known to execute a command that changes its memory.          *)
Effective(i, K) ==
  Changes(i) /\ "open" \in K.flags /\ (Spends(i) => "cells" \in K.flags)

(* The cells that hold the image, or nothing, when such a command has been  *)
(* executed well.                                                           *)
MadeNew(i, K) ==
  {x \in Named(i) :
     /\ Effective(i, K)
     /\ \/ i.do = "write" /\ (i.at \in NorAreas \cup {"spare"} => x \in K.clean)
        \/ i.do \in {"store", "burn"} /\ <<"ram", x[2]>> \in K.new
        \/ i.do = "restore" /\ <<"nvm", x[2]>> \in K.new}
MadeClean(i, K) == IF Effective(i, K) /\ i.do = "erase" THEN Named(i) ELSE {}

(* Failures are reported after the command; what is not seen, by a driver   *)
(* that is blind, is left out of what the driver promises, and registers    *)
(* never fail this way.                                                     *)
Certain(blind, i) == blind \/ ~Lasting(i)

Gone(i) ==
  CASE i.do = "unlock" -> {"locked"}
    [] i.do = "lock"   -> {"open"}
    [] i.do = "select" -> {"primary"}
    [] Spends(i)       -> {"cells"}
    [] OTHER           -> {}

Gained(i) ==
  CASE i.do = "unlock"  -> {"open"}
    [] i.do = "lock"    -> {"locked"}
    [] i.do = "primary" -> {"primary"}
    [] i.do = "room"    -> {"cells"}
    [] OTHER            -> {}

(* What a driver knows after a success, and what it still knows after a     *)
(* failure; when it parses an image it starts anew, from F.                 *)
AfterSuccess(F, blind, i, K) ==
  IF i.do = "parse" THEN F
  ELSE [new |-> (K.new \ Lost(i))
                  \cup (IF i.do = "compare" THEN Named(i) ELSE {})
                  \cup (IF i.do = "verdict" THEN K.ifNew ELSE {})
                  \cup (IF Certain(blind, i) THEN MadeNew(i, K) ELSE {}),
        clean |-> (K.clean \ Lost(i))
                    \cup (IF i.do = "verdict" THEN K.ifClean ELSE {})
                    \cup (IF Certain(blind, i) THEN MadeClean(i, K) ELSE {}),
        ifNew |-> IF Changes(i) THEN MadeNew(i, K) ELSE K.ifNew \ Lost(i),
        ifClean |-> IF Changes(i) THEN MadeClean(i, K) ELSE K.ifClean \ Lost(i),
        flags |-> (K.flags \ Gone(i)) \cup Gained(i)]

AfterFailure(i, K) ==
  [new |-> K.new \ Lost(i),
   clean |-> IF i.do \in {"erase", "write"} THEN K.clean ELSE K.clean \ Lost(i),
   ifNew |-> IF Changes(i) THEN {} ELSE K.ifNew \ Lost(i),
   ifClean |-> IF Changes(i) THEN {} ELSE K.ifClean \ Lost(i),
   flags |-> K.flags \ Gone(i)]

(* A driver that goes on without a command leaves it open whether the chip  *)
(* has executed it.  That a driver that is blind does so when the chip has  *)
(* not is left out of what it promises, too.                                *)
AfterPassing(F, blind, i, K) ==
  IF blind /\ Changes(i) THEN AfterSuccess(F, blind, i, K) ELSE AfterFailure(i, K)

----------------------------------------------------------------------------
(* Where the chip has to hold the image in the end.                         *)
Promised(code) ==
  IF Has(code, "primary") THEN {"spare"}
  ELSE {a \in {"flash", "nvm", "page2"} :
          \E k \in 1..Len(code) : Changes(code[k]) /\ code[k].at = a}

(* A test that fails because the image has no data leads nowhere an outline *)
(* speaks of.                                                               *)
Leaves(i) == i.do = "ifData"

(* O is an outline of a driver, and ends with what an update that is        *)
(* reported as done promises.                                               *)
IsOutline(code, blind, O) ==
  /\ O \in [1..Len(code) + 1 -> Knowledge]
  /\ AtMost(O[1], AtFirst(code))
  /\ \A k \in 1..Len(code) :
       LET i == code[k]
       IN /\ AtMost(O[k + i.ok], AfterSuccess(AtFirst(code), blind, i, O[k]))
          /\ ~Leaves(i) /\ i.no > 0 =>
               AtMost(O[k + i.no], AfterPassing(AtFirst(code), blind, i, O[k]))
          /\ ~Leaves(i) /\ i.limit > 1 => AtMost(O[k - i.back], AfterFailure(i, O[k]))
  /\ Promised(code) \X (1..Parts) \subseteq O[Len(code) + 1].new
  /\ Has(code, "primary") => "primary" \in O[Len(code) + 1].flags
  /\ Has(code, "lock") => "locked" \in O[Len(code) + 1].flags

----------------------------------------------------------------------------
(* The header.                                                              *)

(* header  what the area of the header is known to hold in all its parts    *)
(* read    the same of the data the driver has read                         *)
(* copied  the parts of the backup that are known to hold the header        *)
Situation ==
  [header : SUBSET {"header", "blank"}, read : SUBSET {"header", "blank"},
   copied : SUBSET (1..Parts)]

(* An update begins with the header in its place, or with the backup alone. *)
AtRest ==
  {[header |-> {"header"}, read |-> {}, copied |-> {}],
   [header |-> {"blank"}, read |-> {}, copied |-> 1..Parts]}

Secured(S) == "header" \in S.header \/ S.copied = 1..Parts

(* One of the situations in H claims no more than S does.                   *)
Covers(H, S) ==
  \E T \in H : /\ T.header \subseteq S.header /\ T.read \subseteq S.read
              /\ T.copied \subseteq S.copied

HeaderLeft(i, S) == IF Changes(i) /\ i.at = "header" THEN {} ELSE S.header
CopiesLeft(i, S) ==
  IF Changes(i) /\ i.at = "backup" THEN S.copied \ Touched(i) ELSE S.copied

CopiesMade(protected, i, S) ==
  {p \in Touched(i) : /\ i.do = "dump" /\ i.at = "backup" /\ "header" \in S.read
                      /\ ~protected}

WhatIsRead(i, S) ==
  {x \in {"header", "blank"} :
     \/ i.do # "load" /\ x \in S.read
     \/ i.do = "load" /\ i.at = "header" /\ x \in S.header
     \/ i.do = "load" /\ i.at = "backup" /\ x = "header" /\ S.copied = 1..Parts}

HeaderSuccess(protected, i, S) ==
  [header |-> HeaderLeft(i, S), read |-> WhatIsRead(i, S),
   copied |-> CopiesLeft(i, S) \cup CopiesMade(protected, i, S)]
HeaderFailure(i, S) ==
  [header |-> HeaderLeft(i, S), read |-> S.read, copied |-> CopiesLeft(i, S)]

(* What was read decides which way a test for the header goes.              *)
MaySucceed(i, S) == i.do = "ifHeader" => "blank" \notin S.read
MayFail(i, S)    == i.do = "ifHeader" => "header" \notin S.read

IsHeaderOutline(code, H) ==
  LET protected == Protects(code)
  IN /\ H \in [1..Len(code) + 1 -> SUBSET Situation]
     /\ \A S \in AtRest : Covers(H[1], S)
     /\ \A k \in 1..Len(code) + 1 : \A S \in H[k] : Secured(S)
     /\ \A k \in 1..Len(code) : \A S \in H[k] :
          LET i == code[k]
          IN /\ MaySucceed(i, S) => Covers(H[k + i.ok], HeaderSuccess(protected, i, S))
             /\ MayFail(i, S) =>
                  /\ i.no = 0 => Secured(HeaderFailure(i, S))
                  /\ i.no > 0 => Covers(H[k + i.no], HeaderFailure(i, S))
                  /\ i.limit > 1 => Covers(H[k - i.back], HeaderFailure(i, S))
=============================================================================
