------------------------- MODULE DriverUpdateProofs -------------------------
(***************************************************************************)
(* What DriverUpdate guarantees for the sixteen drivers, however large the *)
(* chip is and however often a transaction is repeated.  The proofs rest   *)
(* on what DriversProofs says of their code: that it is never left, asks   *)
(* which image is running before it writes the other one, refuses before   *)
(* it changes anything and has proof outlines.                             *)
(***************************************************************************)
EXTENDS DriverUpdate, DriversProofs

LEMMA CodeIs ==
  ASSUME TypeOK
  PROVE  /\ StaysInside(Code) /\ SelectsFirst(Code) /\ Len(Code) \in Nat
         /\ chip \notin AsksLate => RefusesFirst(Code)
BY DriversAreSound DEF TypeOK, Chips, Code, StaysInside

LEMMA HasIs ==
  ASSUME TypeOK, NEW x
  PROVE  chip \in Does({x}) <=> Has(Code, x)
BY DEF TypeOK, Does, Has, Code

LEMMA ProtectsIs ==
  ASSUME TypeOK
  PROVE  chip \in Does({"unlock", "lock"}) <=> Protects(Code)
BY DEF TypeOK, Does, Has, Protects, Code

(* The next instruction is one of the driver's.                             *)
LEMMA HereIn ==
  ASSUME TypeOK, pc \in 1..Len(Code)
  PROVE  /\ Here \in Instructions /\ Len(Code) \in Nat /\ pc \in Nat
         /\ pc + Here.ok \in 1..Len(Code) + 1 /\ pc + Here.no \in 1..Len(Code) + 1
         /\ Here.back < pc
         /\ Changes(Here) => /\ Here.at \in (Areas \ Images) \cup {"spare"}
                             /\ Touched(Here) \subseteq 1..Parts
         /\ Here.do = "load" => Here.at \in Areas
<1>1. Code \in Seq(Instructions)
  BY CodeIs DEF StaysInside
<1>2. Here \in Instructions /\ Len(Code) \in Nat
  BY <1>1 DEF Here
<1>3. /\ pc + Here.ok \in 1..Len(Code) + 1 /\ pc + Here.no \in 1..Len(Code) + 1
      /\ Here.back < pc
      /\ Changes(Here) => /\ Here.at \in (Areas \ Images) \cup {"spare"}
                          /\ Here.part <= Parts
      /\ Here.do = "load" => Here.at \in Areas
  BY <1>1, CodeIs DEF StaysInside, Here
<1>4. Changes(Here) => Touched(Here) \subseteq 1..Parts
  BY <1>2, <1>3, LoopAssumption DEF Touched, Instructions
<1> QED
  BY <1>1, <1>2, <1>3, <1>4

LEMMA AnyImageIn == AnyImage \subseteq Images
BY DEF AnyImage, Images

(* Whatever the chip executes, and however badly, leaves contents it can    *)
(* have, and never spends a set of cells that is not there.                 *)
LEMMA ExecuteType ==
  ASSUME TypeOK, pc \in 1..Len(Code), NEW weak \in BOOLEAN, Execute(Here, weak)
  PROVE  /\ mem' \in [Areas -> [1..Parts -> Contents]]
         /\ locked' \in BOOLEAN /\ flagged' \in BOOLEAN /\ otp' \in 0..MaxWrites
         /\ primary' \in Images /\ running' \in Images
         /\ touched' \in BOOLEAN /\ doubtful' \in BOOLEAN
<1>1. CASE Changes(Here) /\ ~locked /\ Burnable(Here)
  <2>1. Area(Here) \in Areas
    BY <1>1, HereIn DEF Area, TypeOK, Areas, Images
  <2>2. \A p \in 1..Parts : Intended(Here, p) \in Contents
    <3> SUFFICES ASSUME NEW p \in 1..Parts PROVE Intended(Here, p) \in Contents
      OBVIOUS
    <3>1. "ram" \in Areas /\ "nvm" \in Areas
      BY DEF Areas
    <3>2. mem["ram"][p] \in Contents /\ mem["nvm"][p] \in Contents /\ buf[p] \in Contents
      BY <3>1 DEF TypeOK
    <3> QED
      BY <1>1, <3>2 DEF Intended, Changes, Programmed, Contents
  <2> DEFINE cells == [p \in 1..Parts |-> IF p \notin Touched(Here) THEN mem[Area(Here)][p]
                                           ELSE IF weak THEN "torn"
                                           ELSE Intended(Here, p)]
  <2>3. mem' = [mem EXCEPT ![Area(Here)] = cells]
    BY <1>1 DEF Execute
  <2>4. cells \in [1..Parts -> Contents]
    BY <2>1, <2>2 DEF TypeOK, Contents
  <2> HIDE DEF cells
  <2>5. mem' \in [Areas -> [1..Parts -> Contents]]
    BY <2>1, <2>3, <2>4 DEF TypeOK
  <2>6. otp' \in 0..MaxWrites
    BY <1>1, BoundsAssumption DEF Execute, Burnable, TypeOK
  <2>7. flagged' \in BOOLEAN
    BY <1>1 DEF Execute
  <2> QED
    BY <2>5, <2>6, <2>7, Zenon DEF Execute, TypeOK, Changes
<1>2. CASE ~(Changes(Here) /\ ~locked /\ Burnable(Here))
  BY <1>2, Zenon DEF Execute, TypeOK, Changes
<1> QED
  BY <1>1, <1>2

(* Every step of the driver and of its environment keeps the types; in      *)
(* particular the driver never runs out of its code or of attempts.         *)
LEMMA TypeStep == TypeOK /\ [Next]_vars => TypeOK'
<1> SUFFICES ASSUME TypeOK, [Next]_vars PROVE TypeOK'
  OBVIOUS
<1>1. CASE StartUpdate
  <2>1. mem' \in [Areas -> [1..Parts -> Contents]]
    BY <1>1 DEF StartUpdate, Aged, TypeOK, Contents
  <2>2. updates' \in 0..MaxUpdates
    BY <1>1, BoundsAssumption DEF StartUpdate, TypeOK
  <2>3. pc' \in 0..Len(Code') + 1 /\ Code' = Code
    <3>1. Code' = Code /\ Len(Code) \in Nat
      BY <1>1, CodeIs DEF StartUpdate, Code
    <3> QED
      BY <1>1, <3>1 DEF StartUpdate
  <2>4. buf' \in [1..Parts -> Contents]
    BY <1>1 DEF StartUpdate, Cells, Contents
  <2>5. spare' \in Images /\ tries' \in 0..Tries
    BY <1>1, AnyImageIn, LoopAssumption DEF StartUpdate
  <2> QED
    BY <1>1, <2>1, <2>2, <2>3, <2>4, <2>5 DEF StartUpdate, TypeOK
<1>2. CASE Succeed
  <2>1. PICK weak \in BOOLEAN : Execute(Here, weak)
    BY <1>2 DEF Succeed
  <2>2. pc \in 1..Len(Code) /\ Code' = Code
    BY <1>2 DEF Succeed, Code
  <2>3. /\ mem' \in [Areas -> [1..Parts -> Contents]]
        /\ locked' \in BOOLEAN /\ flagged' \in BOOLEAN /\ otp' \in 0..MaxWrites
        /\ primary' \in Images /\ running' \in Images
        /\ touched' \in BOOLEAN /\ doubtful' \in BOOLEAN
    BY <2>1, <2>2, ExecuteType
  <2>4. pc' \in 0..Len(Code') + 1
    BY <1>2, <2>2, HereIn DEF Succeed
  <2>5. spare' \in Images /\ parsed' \in BOOLEAN
    BY <1>2 DEF Succeed, Receive, NotRunning, Other, Images, TypeOK
  <2>6. buf' \in [1..Parts -> Contents]
    <3>1. Here.do = "load" => mem[Here.at] \in [1..Parts -> Contents]
      BY <2>2, HereIn DEF TypeOK
    <3> QED
      BY <1>2, <3>1 DEF Succeed, Receive, TypeOK
  <2>7. tries' \in 0..Tries
    BY <1>2, LoopAssumption DEF Succeed, TypeOK
  <2> QED
    BY <1>2, <2>2, <2>3, <2>4, <2>5, <2>6, <2>7 DEF Succeed, TypeOK
<1>3. CASE Fail
  <2>1. pc \in 1..Len(Code) /\ Code' = Code
    BY <1>3 DEF Fail, Code
  <2>2. /\ mem' \in [Areas -> [1..Parts -> Contents]]
        /\ locked' \in BOOLEAN /\ flagged' \in BOOLEAN /\ otp' \in 0..MaxWrites
        /\ primary' \in Images /\ running' \in Images
        /\ touched' \in BOOLEAN /\ doubtful' \in BOOLEAN
    <3>1. CASE Execute(Here, FALSE)
      BY <2>1, <3>1, ExecuteType
    <3>2. CASE doubtful' = (doubtful \/ PassedOver(Here)) /\ UNCHANGED <<chipVars, touched>>
      BY <3>2 DEF chipVars, TypeOK, PassedOver, Changes, AttemptsLeft
    <3> QED
      BY <1>3, <3>1, <3>2 DEF Fail
  <2>3. /\ pc' \in 0..Len(Code') + 1 /\ tries' \in 0..Tries
        /\ result' \in {"none", "ok", "failed", "refused"}
    <3>1. CASE AttemptsLeft(Here) /\ pc' = pc - Here.back /\ tries' = tries + 1 /\ UNCHANGED result
      <4>1. pc \in Nat /\ Len(Code) \in Nat /\ Here.back \in Nat /\ Here.back < pc
        BY <2>1, HereIn DEF Instructions
      <4>2. Here.limit \in 1..Tries /\ tries \in Nat /\ tries + 1 < Here.limit
        BY <2>1, <3>1, HereIn DEF AttemptsLeft, Instructions, TypeOK
      <4>3. pc' \in 0..Len(Code') + 1
        BY <2>1, <3>1, <4>1
      <4>4. tries' \in 0..Tries
        BY <3>1, <4>2, LoopAssumption
      <4>5. result' \in {"none", "ok", "failed", "refused"}
        BY <3>1 DEF TypeOK
      <4> QED
        BY <4>3, <4>4, <4>5
    <3>2. CASE pc' = pc + Here.no /\ tries' = 0 /\ UNCHANGED result
      BY <2>1, <3>2, HereIn, LoopAssumption DEF TypeOK
    <3>3. CASE Return(IF Knowingly(Here) THEN "refused" ELSE "failed")
      BY <2>1, <3>3, HereIn, LoopAssumption DEF Return
    <3> QED
      BY <1>3, <3>1, <3>2, <3>3 DEF Fail, LoopStart
  <2> QED
    BY <1>3, <2>1, <2>2, <2>3 DEF Fail, TypeOK
<1>4. CASE Finish
  <2>1. pc' = 0 /\ tries' = 0 /\ result' = "ok" /\ Code' = Code
    BY <1>4 DEF Finish, Return, Code
  <2>2. UNCHANGED <<chip, image, parsed, buf, spare, updates, mem, locked, flagged, otp,
                    running, primary, touched, doubtful>>
    BY <1>4 DEF Finish, chipVars
  <2>3. 0 \in 0..Len(Code) + 1 /\ 0 \in 0..Tries
    BY CodeIs, LoopAssumption
  <2> QED
    BY <2>1, <2>2, <2>3 DEF TypeOK
<1>5. CASE RestartBMC
  <2>1. pc' = 0 /\ tries' = 0 /\ result' = "none" /\ Code' = Code
    BY <1>5 DEF RestartBMC, Return, Code
  <2>2. /\ UNCHANGED <<chip, image, updates, mem, locked, flagged, otp, running, primary,
                       touched, doubtful>>
        /\ parsed' \in BOOLEAN /\ buf' \in [1..Parts -> Contents] /\ spare' \in Images
    BY <1>5, AnyImageIn DEF RestartBMC, chipVars, Cells, Contents
  <2>3. 0 \in 0..Len(Code) + 1 /\ 0 \in 0..Tries
    BY CodeIs, LoopAssumption
  <2> QED
    BY <2>1, <2>2, <2>3 DEF TypeOK
<1>6. CASE PowerCycle
  <2>1. running' \in Images
    BY <1>6 DEF PowerCycle, TypeOK, Other, Images
  <2>2. mem' \in [Areas -> [1..Parts -> Contents]]
    BY <1>6 DEF PowerCycle, TypeOK, Areas
  <2>3. locked' \in BOOLEAN /\ Code' = Code
    BY <1>6 DEF PowerCycle, Code
  <2> QED
    BY <1>6, <2>1, <2>2, <2>3 DEF PowerCycle, TypeOK
<1>7. CASE UNCHANGED vars
  BY <1>7 DEF vars, TypeOK, Code
<1> QED
  BY <1>1, <1>2, <1>3, <1>4, <1>5, <1>6, <1>7 DEF Next, Driver

LEMMA TypeInit == Init => TypeOK
<1> SUFFICES ASSUME Init PROVE TypeOK
  OBVIOUS
<1>0. Len(Code) \in Nat
  <2>1. chip \in DOMAIN Programs
    BY DEF Init, Chips
  <2> QED
    BY <2>1, DriversAreSound DEF StaysInside, Code
<1>1. mem \in [Areas -> [1..Parts -> Contents]]
  BY DEF Init, Cells, Contents
<1>2. otp \in 0..MaxWrites
  BY BoundsAssumption DEF Init
<1>3. /\ pc \in 0..Len(Code) + 1 /\ tries \in 0..Tries /\ updates \in 0..MaxUpdates
  BY <1>0, BoundsAssumption, LoopAssumption DEF Init
<1>4. buf \in [1..Parts -> Contents] /\ spare \in Images
  BY AnyImageIn DEF Init, Cells, Contents
<1>5. /\ chip \in Chips /\ image \in {"good"} \cup Defects(chip)
  BY DEF Init
<1>6. locked \in BOOLEAN
  <2>1. locked = (chip \in Does({"unlock", "lock"}))
    BY DEF Init
  <2> QED
    BY <2>1
<1>7. /\ parsed \in BOOLEAN /\ flagged \in BOOLEAN
      /\ running \in Images /\ primary \in Images
      /\ result \in {"none", "ok", "failed", "refused"}
      /\ touched \in BOOLEAN /\ doubtful \in BOOLEAN
  BY DEF Init, Images
<1> QED
  BY <1>1, <1>2, <1>3, <1>4, <1>5, <1>6, <1>7 DEF TypeOK

(* TypeOK: the driver stays inside its code and its attempts, and the chip  *)
(* holds nothing but what one of its commands can leave.                    *)
THEOREM TypeCorrect == SafeSpec => []TypeOK
BY TypeInit, TypeStep, PTL DEF SafeSpec

-----------------------------------------------------------------------------
(* The image that runs.                                                     *)

(* Past the instruction that asked, the image to write is the one that does *)
(* not run, and it stays so: the chip starts another one only between two   *)
(* updates.                                                                 *)
Chosen == \A s \in 1..Len(Code) : Selects(Code, s) /\ pc > s => spare = Other(running)

(* With two images, one of them can be started.                             *)
ImageInv == Chosen /\ Intact(running)

LEMMA ImagesDiffer == \A i \in Images : Other(i) \in Images /\ Other(i) # i /\ Other(Other(i)) = i
BY DEF Other, Images

(* A command that changes memory never does so to the image that runs.      *)
LEMMA ExecuteKeeps ==
  ASSUME TypeOK, ImageInv, pc \in 1..Len(Code), NEW weak \in BOOLEAN, Execute(Here, weak)
  PROVE  Intact(running)' /\ running' = running
<1>1. running' = running /\ running \in Images /\ running \in Areas
  BY DEF Execute, TypeOK, Images, Areas
<1>2. mem'[running] = mem[running]
  <2>1. CASE Changes(Here)
    <3>1. CASE Here.at = "spare"
      <4>1. PICK s \in 1..pc - 1 : Selects(Code, s)
        BY <2>1, <3>1, CodeIs DEF SelectsFirst, Here
      <4>2. s \in 1..Len(Code) /\ pc > s
        BY <4>1, HereIn
      <4>3. spare = Other(running)
        BY <4>1, <4>2 DEF ImageInv, Chosen
      <4>4. Area(Here) # running
        BY <1>1, <3>1, <4>3, ImagesDiffer DEF Area
      <4> QED
        BY <1>1, <4>4 DEF Execute, TypeOK
    <3>2. CASE Here.at # "spare"
      <4>1. Area(Here) # running
        BY <1>1, <2>1, <3>2, HereIn DEF Area
      <4> QED
        BY <1>1, <4>1 DEF Execute, TypeOK
    <3> QED
      BY <3>1, <3>2
  <2>2. CASE ~Changes(Here)
    BY <2>2 DEF Execute
  <2> QED
    BY <2>1, <2>2
<1> QED
  BY <1>1, <1>2 DEF ImageInv, Intact

LEMMA ImageStep == TypeOK /\ ImageInv /\ [Next]_vars => ImageInv'
<1> SUFFICES ASSUME TypeOK, ImageInv, [Next]_vars PROVE ImageInv'
  OBVIOUS
<1>1. CASE StartUpdate
  <2>1. Chosen'
    BY <1>1 DEF StartUpdate, Chosen
  <2>2. Intact(running)'
    BY <1>1 DEF StartUpdate, ImageInv, Intact, Aged, TypeOK, Images, Areas
  <2> QED
    BY <2>1, <2>2 DEF ImageInv
<1>2. CASE Succeed
  <2>1. Intact(running)' /\ running' = running
    BY <1>2, ExecuteKeeps DEF Succeed
  <2>2. pc \in 1..Len(Code) /\ chip' = chip /\ Code' = Code /\ pc' = pc + Here.ok
    BY <1>2 DEF Succeed, Code
  <2>3. ASSUME NEW s \in 1..Len(Code), Selects(Code, s), pc' > s
        PROVE  spare' = Other(running)
    <3>1. CASE pc > s
      <4>1. spare = Other(running)
        BY <2>3, <3>1 DEF ImageInv, Chosen
      <4> QED
        BY <1>2, <4>1 DEF Succeed, Receive, NotRunning
    <3>2. CASE pc = s
      <4>1. Here.do = "select"
        BY <2>3, <3>2 DEF Selects, Here, Code
      <4> QED
        BY <1>2, <4>1 DEF Succeed, Receive, NotRunning
    <3>3. CASE pc < s
      <4>1. pc \in 1..s - 1
        BY <2>2, <3>3, HereIn
      <4> QED
        BY <2>2, <2>3, <4>1, HereIn DEF Selects, Gate, Here, Code
    <3> QED
      BY <2>2, <3>1, <3>2, <3>3, HereIn
  <2>4. Chosen'
    BY <2>1, <2>2, <2>3 DEF Chosen
  <2> QED
    BY <2>1, <2>4 DEF ImageInv
<1>3. CASE Fail
  <2>1. pc \in 1..Len(Code) /\ chip' = chip /\ Code' = Code /\ spare' = spare
    BY <1>3 DEF Fail, Code
  <2>2. Intact(running)' /\ running' = running
    <3>1. CASE Execute(Here, FALSE)
      BY <2>1, <3>1, ExecuteKeeps
    <3>2. CASE UNCHANGED chipVars
      BY <3>2 DEF chipVars, ImageInv, Intact
    <3> QED
      BY <1>3, <3>1, <3>2 DEF Fail
  <2>3. \/ pc' = 0
        \/ pc' = pc - Here.back
        \/ pc' = pc + Here.no /\ Here.no > 0
    BY <1>3 DEF Fail, LoopStart, Return
  <2>4. ASSUME NEW s \in 1..Len(Code), Selects(Code, s), pc' > s PROVE pc > s
    <3>1. CASE pc' = 0 \/ pc' = pc - Here.back
      BY <2>1, <2>4, <3>1, HereIn DEF Instructions
    <3>2. CASE pc' = pc + Here.no /\ Here.no > 0
      <4>1. CASE pc = s
        BY <2>4, <3>2, <4>1 DEF Selects, Gate, Here, Code
      <4>2. CASE pc < s
        <5>1. pc \in 1..s - 1
          BY <2>1, <4>2, HereIn
        <5> QED
          BY <2>1, <2>4, <3>2, <5>1, HereIn DEF Selects, Gate, Here, Code
      <4> QED
        BY <2>1, <4>1, <4>2, HereIn
    <3> QED
      BY <2>3, <3>1, <3>2
  <2>5. Chosen'
    BY <2>1, <2>2, <2>4 DEF ImageInv, Chosen
  <2> QED
    BY <2>2, <2>5 DEF ImageInv
<1>4. CASE Finish
  BY <1>4 DEF Finish, Return, chipVars, ImageInv, Chosen, Intact
<1>5. CASE RestartBMC
  BY <1>5 DEF RestartBMC, Return, chipVars, ImageInv, Chosen, Intact
<1>6. CASE PowerCycle
  <2>1. Chosen'
    BY <1>6 DEF PowerCycle, Chosen
  <2>2. primary \in Images /\ running \in Images
    BY DEF TypeOK
  <2>3. running' \in Images /\ Intact(running')
    <3>1. CASE Intact(primary)
      BY <1>6, <2>2, <3>1 DEF PowerCycle
    <3>2. CASE ~Intact(primary)
      <4>1. Other(primary) = running
        BY <2>2, <3>2 DEF ImageInv, Other, Images
      <4> QED
        BY <1>6, <2>2, <3>2, <4>1 DEF PowerCycle, ImageInv
    <3> QED
      BY <3>1, <3>2
  <2>4. \A i \in Images : mem'[i] = mem[i]
    BY <1>6 DEF PowerCycle, TypeOK, Images, Areas
  <2>5. Intact(running)'
    BY <2>3, <2>4 DEF Intact
  <2> QED
    BY <2>1, <2>5 DEF ImageInv
<1>7. CASE UNCHANGED vars
  BY <1>7 DEF vars, ImageInv, Chosen, Intact, Code
<1> QED
  BY <1>1, <1>2, <1>3, <1>4, <1>5, <1>6, <1>7 DEF Next, Driver

(* RunningImageKept: whatever fails, is repeated or is cut off, and however *)
(* many updates come before the chip is started again, the image that runs  *)
(* is not written to.                                                       *)
THEOREM RunningImageSafe == SafeSpec => []RunningImageKept
<1>1. Init => ImageInv
  <2> SUFFICES ASSUME Init PROVE ImageInv
    OBVIOUS
  <2>1. Chosen
    BY DEF Init, Chosen
  <2>2. Intact(running)
    BY DEF Init, Intact, Cells, Areas
  <2> QED
    BY <2>1, <2>2 DEF ImageInv
<1>2. ImageInv => RunningImageKept
  BY DEF ImageInv, RunningImageKept
<1> QED
  BY <1>1, <1>2, TypeInit, TypeStep, ImageStep, PTL DEF SafeSpec

-----------------------------------------------------------------------------
(* Refusals.                                                                *)

(* Past a gate that is passed only with a good answer about the image, the  *)
(* image is good in that respect.                                           *)
LookedAt ==
  \A s \in 1..Len(Code) :
    Gate(Code, s) /\ LooksAtImage(Code[s]) /\ pc > s => image # Code[s].at

(* What has changed the chip is past the prologue.                          *)
PastPrologue ==
  \A d \in 1..Len(Code) : Prologue(Code, d) /\ touched /\ pc # 0 => pc > d

RefusalInv ==
  /\ LookedAt /\ PastPrologue
  /\ result = "refused" => pc = 0 /\ (chip \notin AsksLate => ~touched)

(* The driver gets past a gate by its success only.                         *)
LEMMA GatePassed ==
  ASSUME TypeOK, pc \in 1..Len(Code), NEW s \in 1..Len(Code), Gate(Code, s),
         pc' > s, pc' \in {0, pc - Here.back, pc + Here.ok, pc + Here.no}
  PROVE  pc > s \/ (pc = s /\ pc' = pc + Here.ok)
<1>1. pc \in Nat /\ s \in Nat /\ Here.back \in Nat /\ Here.no \in Nat /\ Here.ok \in Nat
  BY HereIn DEF Instructions
<1>2. CASE pc < s
  <2>1. pc \in 1..s - 1
    BY <1>1, <1>2
  <2>2. pc + Here.ok <= s /\ pc + Here.no <= s
    BY <2>1 DEF Gate, Here, Code
  <2> QED
    BY <1>1, <1>2, <2>2
<1>3. CASE pc = s
  <2>1. Here.no = 0
    BY <1>3 DEF Gate, Here, Code
  <2> QED
    BY <1>1, <1>3, <2>1
<1> QED
  BY <1>1, <1>2, <1>3

(* A step of the driver that changes the chip is past the prologue, and     *)
(* stays there.                                                             *)
LEMMA ProloguePassed ==
  ASSUME TypeOK, PastPrologue, pc \in 1..Len(Code), NEW d \in 1..Len(Code),
         Prologue(Code, d), touched \/ Changes(Here),
         pc' \in {pc - Here.back, pc + Here.ok, pc + Here.no}
  PROVE  pc' > d
<1>1. /\ pc \in Nat \ {0} /\ d \in Nat
      /\ Here.back \in Nat /\ Here.no \in Nat /\ Here.ok \in Nat /\ Here.back < pc
  BY HereIn DEF Instructions
<1>2. pc > d
  BY <1>1 DEF PastPrologue, Prologue, Here, Code
<1>3. pc - Here.back > d
  BY <1>2 DEF Prologue, Here, Code
<1> QED
  BY <1>1, <1>2, <1>3

(* A refusal comes from the prologue: past it what is looked at is good.    *)
LEMMA RefusalEarly ==
  ASSUME TypeOK, LookedAt, PastPrologue, pc \in 1..Len(Code), chip \notin AsksLate,
         Knowingly(Here), Here.no = 0
  PROVE  ~touched
<1>1. Refuses(Code[pc])
  BY DEF Here, Knowingly, Refuses
<1>2. \/ \E d \in pc..Len(Code) : Prologue(Code, d)
      \/ \E s \in 1..pc - 1 :
           /\ Gate(Code, s) /\ LooksAtImage(Code[s]) /\ LooksAtImage(Code[pc])
           /\ Code[s].at = Code[pc].at
  BY <1>1, CodeIs DEF RefusesFirst
<1>3. pc \in Nat \ {0} /\ Len(Code) \in Nat
  BY HereIn
<1>4. ASSUME NEW d \in pc..Len(Code), Prologue(Code, d)
      PROVE  ~touched
  BY <1>3, <1>4 DEF PastPrologue
<1>5. ASSUME NEW s \in 1..pc - 1, Gate(Code, s), LooksAtImage(Code[s]), LooksAtImage(Here),
             Code[s].at = Here.at
      PROVE  FALSE
  <2>1. s \in 1..Len(Code) /\ pc > s
    BY <1>3
  <2>2. image # Here.at
    BY <1>5, <2>1 DEF LookedAt
  <2>3. Holds(Here)
    BY <1>5, <2>2 DEF Holds, LooksAtImage
  <2> QED
    BY <2>3 DEF Knowingly
<1> QED
  BY <1>2, <1>4, <1>5 DEF Here

LEMMA RefusalStep == TypeOK /\ RefusalInv /\ [Next]_vars => RefusalInv'
<1> SUFFICES ASSUME TypeOK, RefusalInv, [Next]_vars PROVE RefusalInv'
  OBVIOUS
<1>1. CASE StartUpdate
  <2>1. pc' = 1 /\ touched' = FALSE /\ result' = "none" /\ Code' = Code
    BY <1>1 DEF StartUpdate, Code
  <2> QED
    BY <2>1 DEF RefusalInv, LookedAt, PastPrologue
<1>2. CASE Succeed
  <2>1. PICK weak \in BOOLEAN : Execute(Here, weak)
    BY <1>2 DEF Succeed
  <2>2. /\ pc \in 1..Len(Code) /\ pc' = pc + Here.ok /\ Holds(Here)
        /\ UNCHANGED <<chip, image, result>> /\ Code' = Code
    BY <1>2 DEF Succeed, Code
  <2>3. touched' = (touched \/ Changes(Here))
    BY <2>1 DEF Execute
  <2>4. LookedAt'
    <3> SUFFICES ASSUME NEW s \in 1..Len(Code), Gate(Code, s), LooksAtImage(Code[s]), pc' > s
                 PROVE  image # Code[s].at
      BY <2>2 DEF LookedAt
    <3>1. CASE pc > s
      BY <3>1 DEF RefusalInv, LookedAt
    <3>2. CASE pc = s
      BY <2>2, <3>2 DEF Holds, LooksAtImage, Here
    <3> QED
      BY <2>2, <3>1, <3>2, GatePassed
  <2>5. PastPrologue'
    <3> SUFFICES ASSUME NEW d \in 1..Len(Code), Prologue(Code, d), touched \/ Changes(Here)
                 PROVE  pc' > d
      BY <2>2, <2>3 DEF PastPrologue
    <3> QED
      BY <2>2, ProloguePassed DEF RefusalInv
  <2>6. result # "refused"
    BY <2>2 DEF RefusalInv
  <2> QED
    BY <2>2, <2>4, <2>5, <2>6 DEF RefusalInv
<1>3. CASE Fail
  <2>1. pc \in 1..Len(Code) /\ UNCHANGED <<chip, image>> /\ Code' = Code
    BY <1>3 DEF Fail, Code
  <2>2. touched' => touched \/ Changes(Here)
    BY <1>3 DEF Fail, Execute
  <2>3. \/ pc' = pc - Here.back /\ result' = result
        \/ pc' = pc + Here.no /\ result' = result
        \/ /\ pc' = 0 /\ Here.no = 0
           /\ result' = IF Knowingly(Here) THEN "refused" ELSE "failed"
    BY <1>3 DEF Fail, LoopStart, Return
  <2>4. LookedAt'
    <3> SUFFICES ASSUME NEW s \in 1..Len(Code), Gate(Code, s), LooksAtImage(Code[s]), pc' > s
                 PROVE  image # Code[s].at
      BY <2>1 DEF LookedAt
    <3>1. pc' \in {0, pc - Here.back, pc + Here.no}
      BY <2>3
    <3>2. pc > s \/ (pc = s /\ pc' = pc + Here.ok)
      BY <2>1, <3>1, GatePassed
    <3>3. CASE pc = s
      <4>1. Here.no = 0 /\ Here.back \in Nat /\ pc \in Nat
        BY <2>1, <3>3, HereIn DEF Gate, Here, Code, Instructions
      <4> QED
        BY <3>1, <3>3, <4>1
    <3> QED
      BY <3>2, <3>3 DEF RefusalInv, LookedAt
  <2>5. PastPrologue'
    <3> SUFFICES ASSUME NEW d \in 1..Len(Code), Prologue(Code, d), touched \/ Changes(Here),
                        pc' # 0
                 PROVE  pc' > d
      BY <2>1, <2>2 DEF PastPrologue
    <3>1. pc' \in {pc - Here.back, pc + Here.no}
      BY <2>3
    <3> QED
      BY <2>1, <3>1, ProloguePassed DEF RefusalInv
  <2>6. ASSUME result' = "refused" PROVE pc' = 0 /\ (chip \notin AsksLate => ~touched')
    <3>1. pc' = 0 /\ Here.no = 0 /\ Knowingly(Here)
      BY <2>1, <2>3, <2>6, HereIn DEF RefusalInv
    <3>2. ~Changes(Here)
      BY <3>1 DEF Knowingly, Changes
    <3>3. chip \notin AsksLate => ~touched
      BY <2>1, <3>1, RefusalEarly DEF RefusalInv
    <3> QED
      BY <2>2, <3>1, <3>2, <3>3
  <2> QED
    BY <2>1, <2>4, <2>5, <2>6 DEF RefusalInv
<1>4. CASE Finish
  BY <1>4 DEF Finish, Return, RefusalInv, LookedAt, PastPrologue
<1>5. CASE RestartBMC
  BY <1>5 DEF RestartBMC, Return, RefusalInv, LookedAt, PastPrologue
<1>6. CASE PowerCycle
  BY <1>6 DEF PowerCycle, RefusalInv, LookedAt, PastPrologue, Code
<1>7. CASE UNCHANGED vars
  BY <1>7 DEF vars, RefusalInv, LookedAt, PastPrologue, Code
<1> QED
  BY <1>1, <1>2, <1>3, <1>4, <1>5, <1>6, <1>7 DEF Next, Driver

(* RefusedTouchesNothing: an update that the driver refuses has changed     *)
(* nothing, although some drivers look at the chip again after they have    *)
(* changed it, and a retry may lead back to code that ran before.           *)
THEOREM RefusedHarmless == SafeSpec => []RefusedTouchesNothing
<1>1. Init => RefusalInv
  BY DEF Init, RefusalInv, LookedAt, PastPrologue, Code
<1>2. RefusalInv => RefusedTouchesNothing
  BY DEF RefusalInv, RefusedTouchesNothing
<1> QED
  BY <1>1, <1>2, TypeInit, TypeStep, RefusalStep, PTL DEF SafeSpec

-----------------------------------------------------------------------------
(* Outlines.                                                                *)

(* What knowledge says about the state.                                     *)
Content(x) == mem[IF x[1] = "spare" THEN spare ELSE x[1]][x[2]]

Knows(K) ==
  /\ \A x \in K.new : Content(x) = "new"
  /\ \A x \in K.clean : Content(x) \in {"blank", "new"}
  /\ ~flagged => /\ \A x \in K.ifNew : Content(x) = "new"
                 /\ \A x \in K.ifClean : Content(x) \in {"blank", "new"}
  /\ "open" \in K.flags => ~locked
  /\ "locked" \in K.flags => locked
  /\ "cells" \in K.flags => otp > 0
  /\ "primary" \in K.flags => primary = spare

Reliable == parsed /\ (chip \in Unseen => ~doubtful)

(* The outline of each driver, one of those it has.                         *)
Outline == [c \in Chips |-> CHOOSE O : IsOutline(Programs[c], c \in Unseen, O)]

LEMMA OutlineIs ==
  ASSUME TypeOK
  PROVE  IsOutline(Code, chip \in Unseen, Outline[chip])
<1>1. chip \in DOMAIN Programs /\ chip \in Chips
  BY DEF TypeOK, Chips
<1>2. \E O : IsOutline(Programs[chip], chip \in Unseen, O)
  BY <1>1, DriversHaveOutlines
<1>3. Outline[chip] = CHOOSE O : IsOutline(Programs[chip], chip \in Unseen, O)
  BY <1>1 DEF Outline
<1> QED
  BY <1>2, <1>3, Zenon DEF Code

(* At every moment of an update what the outline claims is true.            *)
OutlineTrue == pc # 0 /\ Reliable => Knows(Outline[chip][pc])

LEMMA CellParts ==
  \A x \in Cell : /\ x = <<x[1], x[2]>> /\ x[2] \in 1..Parts
                  /\ x[1] \in (Areas \ Images) \cup {"spare"}
BY DEF Cell

LEMMA NamedParts ==
  ASSUME NEW i, NEW x \in Named(i)
  PROVE  x = <<i.at, x[2]>> /\ x[1] = i.at /\ x[2] \in Touched(i)
BY DEF Named

(* What a command does to the memory, cell by cell.                         *)
LEMMA ExecuteMem ==
  ASSUME TypeOK, pc \in 1..Len(Code), NEW weak \in BOOLEAN, Execute(Here, weak),
         NEW a \in Areas, NEW p \in 1..Parts
  PROVE  /\ a # Area(Here) => mem'[a] = mem[a]
         /\ p \notin Touched(Here) => mem'[a][p] = mem[a][p]
         /\ Changes(Here) /\ ~locked /\ Burnable(Here)
              /\ a = Area(Here) /\ p \in Touched(Here)
            => mem'[a][p] = IF weak THEN "torn" ELSE Intended(Here, p)
<1> DEFINE cells == [q \in 1..Parts |-> IF q \notin Touched(Here) THEN mem[Area(Here)][q]
                                         ELSE IF weak THEN "torn" ELSE Intended(Here, q)]
<1>1. mem' = IF Changes(Here) /\ ~locked /\ Burnable(Here)
             THEN [mem EXCEPT ![Area(Here)] = cells] ELSE mem
  BY DEF Execute
<1>2. p \notin Touched(Here) => cells[p] = mem[Area(Here)][p]
  OBVIOUS
<1>3. p \in Touched(Here) => cells[p] = IF weak THEN "torn" ELSE Intended(Here, p)
  OBVIOUS
<1> HIDE DEF cells
<1> QED
  BY <1>1, <1>2, <1>3 DEF TypeOK

(* A command leaves alone what it does not name.                            *)
LEMMA ContentKept ==
  ASSUME TypeOK, pc \in 1..Len(Code), NEW weak \in BOOLEAN, Execute(Here, weak),
         Here.do # "select" => spare' = spare, spare' \in Images,
         NEW x \in Cell, x \notin Lost(Here)
  PROVE  Content(x)' = Content(x)
<1> DEFINE row(s) == IF x[1] = "spare" THEN s ELSE x[1]
<1>1. row(spare) \in Areas /\ x[2] \in 1..Parts
  BY CellParts DEF TypeOK, Areas, Images
<1>2. CASE Changes(Here)
  <2>1. spare' = spare
    BY <1>2 DEF Changes
  <2>2. CASE row(spare) = Area(Here)
    <3>1. x[1] = Here.at
      BY <1>2, <2>2, CellParts, HereIn DEF Area, TypeOK, Images
    <3>2. x[2] \notin Touched(Here)
      BY <1>2, <3>1, CellParts DEF Lost, Named
    <3>3. mem'[row(spare)][x[2]] = mem[row(spare)][x[2]]
      BY <1>1, <2>2, <3>2, ExecuteMem
    <3> QED
      BY <2>1, <3>3 DEF Content
  <2>3. CASE row(spare) # Area(Here)
    <3>1. mem'[row(spare)] = mem[row(spare)]
      BY <1>1, <2>3, ExecuteMem
    <3> QED
      BY <2>1, <3>1 DEF Content
  <2> QED
    BY <2>2, <2>3
<1>3. CASE ~Changes(Here)
  <2>1. mem' = mem
    BY <1>3 DEF Execute
  <2>2. x[1] = "spare" => spare' = spare
    BY <1>3, CellParts DEF Lost
  <2> QED
    BY <2>1, <2>2 DEF Content
<1> QED
  BY <1>2, <1>3

(* A command the chip is known to execute leaves what is meant or is        *)
(* reported.                                                                *)
LEMMA EffectiveDone ==
  ASSUME TypeOK, pc \in 1..Len(Code), NEW weak \in BOOLEAN, Execute(Here, weak),
         Here.do # "select" => spare' = spare,
         NEW K \in Knowledge, Knows(K), Effective(Here, K),
         NEW x \in Named(Here)
  PROVE  /\ flagged' = weak
         /\ ~weak => Content(x)' = Intended(Here, x[2])
<1>1. ~locked /\ Burnable(Here) /\ Changes(Here)
  BY DEF Effective, Knows, Burnable
<1>2. x[1] = Here.at /\ x[2] \in Touched(Here) /\ x[2] \in 1..Parts
  BY <1>1, NamedParts, HereIn
<1>3. Area(Here) \in Areas /\ Content(x) = mem[Area(Here)][x[2]]
  BY <1>1, <1>2, HereIn DEF Area, Content, TypeOK, Areas, Images
<1>4. Here.do # "select"
  BY <1>1 DEF Changes
<1>5. spare' = spare
  BY <1>4
<1>6. Content(x)' = mem'[Area(Here)][x[2]]
  BY <1>2, <1>5 DEF Content, Area
<1>7. flagged' = weak
  BY <1>1 DEF Execute
<1>8. ~weak => mem'[Area(Here)][x[2]] = Intended(Here, x[2])
  BY <1>1, <1>2, <1>3, ExecuteMem
<1> QED
  BY <1>6, <1>7, <1>8

(* What an outline counts on a command to write is written, or the failure  *)
(* is reported.                                                             *)
LEMMA MadeHolds ==
  ASSUME TypeOK, pc \in 1..Len(Code), NEW weak \in BOOLEAN, Execute(Here, weak),
         Here.do # "select" => spare' = spare,
         NEW K \in Knowledge, Knows(K)
  PROVE  /\ \A x \in MadeNew(Here, K) : IF weak THEN flagged' ELSE Content(x)' = "new"
         /\ \A x \in MadeClean(Here, K) : IF weak THEN flagged' ELSE Content(x)' = "blank"
<1>1. ASSUME NEW x \in MadeNew(Here, K)
      PROVE  IF weak THEN flagged' ELSE Content(x)' = "new"
  <2>1. Effective(Here, K) /\ x \in Named(Here)
    BY <1>1 DEF MadeNew
  <2>2. flagged' = weak /\ (~weak => Content(x)' = Intended(Here, x[2]))
    BY <2>1, EffectiveDone
  <2>3. /\ x[1] = Here.at /\ x[2] \in 1..Parts
        /\ Content(x) = mem[Area(Here)][x[2]]
    BY <2>1, NamedParts, HereIn DEF Effective, Content, Area
  <2>4. Intended(Here, x[2]) = "new"
    <3>1. CASE Here.do = "write" /\ Here.at \in NorAreas \cup {"spare"}
      <4>1. x \in K.clean
        BY <1>1, <2>1, <3>1 DEF MadeNew
      <4>2. mem[Area(Here)][x[2]] \in {"blank", "new"}
        BY <2>3, <4>1 DEF Knows
      <4> QED
        BY <3>1, <4>2 DEF Intended, Programmed
    <3>2. CASE Here.do = "write" /\ Here.at \notin NorAreas \cup {"spare"}
      BY <3>2 DEF Intended, Programmed, Area
    <3>3. CASE Here.do \in {"store", "burn"}
      <4>1. <<"ram", x[2]>> \in K.new
        BY <1>1, <2>1, <3>3 DEF MadeNew
      <4>2. Content(<<"ram", x[2]>>) = "new"
        BY <4>1 DEF Knows
      <4> QED
        BY <3>3, <4>2 DEF Intended, Content
    <3>4. CASE Here.do = "restore"
      <4>1. <<"nvm", x[2]>> \in K.new
        BY <1>1, <2>1, <3>4 DEF MadeNew
      <4>2. Content(<<"nvm", x[2]>>) = "new"
        BY <4>1 DEF Knows
      <4> QED
        BY <3>4, <4>2 DEF Intended, Content
    <3> QED
      BY <1>1, <2>1, <3>1, <3>2, <3>3, <3>4 DEF MadeNew
  <2> QED
    BY <2>2, <2>4
<1>2. ASSUME NEW x \in MadeClean(Here, K)
      PROVE  IF weak THEN flagged' ELSE Content(x)' = "blank"
  <2>1. Effective(Here, K) /\ x \in Named(Here) /\ Here.do = "erase"
    BY <1>2 DEF MadeClean
  <2>2. flagged' = weak /\ (~weak => Content(x)' = Intended(Here, x[2]))
    BY <2>1, EffectiveDone
  <2> QED
    BY <2>1, <2>2 DEF Intended
<1> QED
  BY <1>1, <1>2

(* What is known of the protection, the cells and the primary image after   *)
(* an instruction that has been executed, or has not.                       *)
LEMMA FlagsKept ==
  ASSUME TypeOK, pc \in 1..Len(Code), NEW weak \in BOOLEAN,
         Execute(Here, weak) \/ UNCHANGED chipVars,
         Here.do # "select" => spare' = spare,
         NEW K \in Knowledge, Knows(K), NEW f \in K.flags, f \notin Gone(Here)
  PROVE  /\ f = "open" => ~locked'
         /\ f = "locked" => locked'
         /\ f = "cells" => otp' > 0
         /\ f = "primary" => primary' = spare'
<1>1. /\ Here.do = "unlock" => f # "locked"
      /\ Here.do = "lock" => f # "open"
      /\ Here.do = "select" => f # "primary"
      /\ Spends(Here) => f # "cells"
  BY DEF Gone, Spends
<1>2. CASE Execute(Here, weak)
  <2>1. /\ locked' = CASE Here.do = "unlock" -> FALSE
                       [] Here.do = "lock" -> TRUE
                       [] OTHER -> locked
        /\ primary' = IF Here.do = "primary" THEN spare ELSE primary
        /\ ~Spends(Here) => otp' = otp
    BY <1>2 DEF Execute
  <2> QED
    BY <1>1, <2>1 DEF Knows
<1>3. CASE UNCHANGED chipVars
  BY <1>1, <1>3 DEF Knows, chipVars
<1> QED
  BY <1>2, <1>3

(* After a success the driver knows what the outline says.                  *)
LEMMA SuccessKnown ==
  ASSUME TypeOK, pc \in 1..Len(Code), NEW weak \in BOOLEAN, Execute(Here, weak),
         weak => Lasting(Here) /\ chip \notin Unseen,
         Holds(Here), parsed, Here.do # "parse",
         Here.do # "select" => spare' = spare, spare' \in Images,
         NEW K \in Knowledge, Knows(K), NEW L, L = AfterSuccess(AtFirst(Code), chip \in Unseen, Here, K)
  PROVE  Knows(L)'
<1>1. \A x \in Cell \ Lost(Here) : Content(x)' = Content(x)
  BY ContentKept
<1>2. /\ K.new \subseteq Cell /\ K.clean \subseteq Cell
      /\ K.ifNew \subseteq Cell /\ K.ifClean \subseteq Cell
  BY DEF Knowledge
<1>3. /\ \A x \in MadeNew(Here, K) : IF weak THEN flagged' ELSE Content(x)' = "new"
      /\ \A x \in MadeClean(Here, K) : IF weak THEN flagged' ELSE Content(x)' = "blank"
  BY MadeHolds
<1>4. Certain(chip \in Unseen, Here) => ~weak
  BY DEF Certain
<1>5. ~Changes(Here) => flagged' = flagged
  BY DEF Execute
<1>6. /\ L.new = (K.new \ Lost(Here))
                   \cup (IF Here.do = "compare" THEN Named(Here) ELSE {})
                   \cup (IF Here.do = "verdict" THEN K.ifNew ELSE {})
                   \cup (IF Certain(chip \in Unseen, Here) THEN MadeNew(Here, K) ELSE {})
      /\ L.clean = (K.clean \ Lost(Here))
                     \cup (IF Here.do = "verdict" THEN K.ifClean ELSE {})
                     \cup (IF Certain(chip \in Unseen, Here) THEN MadeClean(Here, K) ELSE {})
      /\ L.ifNew = IF Changes(Here) THEN MadeNew(Here, K) ELSE K.ifNew \ Lost(Here)
      /\ L.ifClean = IF Changes(Here) THEN MadeClean(Here, K) ELSE K.ifClean \ Lost(Here)
      /\ L.flags = (K.flags \ Gone(Here)) \cup Gained(Here)
  BY DEF AfterSuccess
<1>7. Here.do = "compare" => \A x \in Named(Here) : Content(x)' = "new"
  <2> SUFFICES ASSUME Here.do = "compare", NEW x \in Named(Here)
               PROVE  Content(x)' = "new"
    OBVIOUS
  <2>1. x[1] = Here.at /\ x[2] \in Touched(Here)
    BY NamedParts
  <2>2. mem[Area(Here)][x[2]] = "new"
    BY <2>1 DEF Holds
  <2>3. mem' = mem /\ spare' = spare
    BY DEF Execute, Changes
  <2> QED
    BY <2>1, <2>2, <2>3 DEF Content, Area
<1>8. Here.do = "verdict" =>
        /\ Lost(Here) = {}
        /\ \A x \in K.ifNew : Content(x) = "new"
        /\ \A x \in K.ifClean : Content(x) \in {"blank", "new"}
  BY DEF Lost, Changes, Holds, StatusGood, Knows
<1>9. \A x \in L.new : Content(x)' = "new"
  <2> SUFFICES ASSUME NEW x \in L.new PROVE Content(x)' = "new"
    OBVIOUS
  <2>1. CASE x \in K.new \ Lost(Here)
    BY <1>1, <1>2, <2>1 DEF Knows
  <2>2. CASE Here.do = "compare" /\ x \in Named(Here)
    BY <1>7, <2>2
  <2>3. CASE Here.do = "verdict" /\ x \in K.ifNew
    BY <1>1, <1>2, <1>8, <2>3
  <2>4. CASE Certain(chip \in Unseen, Here) /\ x \in MadeNew(Here, K)
    BY <1>3, <1>4, <2>4
  <2> QED
    BY <1>6, <2>1, <2>2, <2>3, <2>4
<1>10. \A x \in L.clean : Content(x)' \in {"blank", "new"}
  <2> SUFFICES ASSUME NEW x \in L.clean PROVE Content(x)' \in {"blank", "new"}
    OBVIOUS
  <2>1. CASE x \in K.clean \ Lost(Here)
    BY <1>1, <1>2, <2>1 DEF Knows
  <2>2. CASE Here.do = "verdict" /\ x \in K.ifClean
    BY <1>1, <1>2, <1>8, <2>2
  <2>3. CASE Certain(chip \in Unseen, Here) /\ x \in MadeClean(Here, K)
    BY <1>3, <1>4, <2>3
  <2> QED
    BY <1>6, <2>1, <2>2, <2>3
<1>11. ~flagged' => /\ \A x \in L.ifNew : Content(x)' = "new"
                    /\ \A x \in L.ifClean : Content(x)' \in {"blank", "new"}
  <2>1. CASE Changes(Here)
    BY <1>3, <1>6, <2>1
  <2>2. CASE ~Changes(Here)
    BY <1>1, <1>2, <1>5, <1>6, <2>2 DEF Knows
  <2> QED
    BY <2>1, <2>2
<1>12. ASSUME NEW f \in L.flags
       PROVE  /\ f = "open" => ~locked'
              /\ f = "locked" => locked'
              /\ f = "cells" => otp' > 0
              /\ f = "primary" => primary' = spare'
  <2>1. CASE f \in K.flags /\ f \notin Gone(Here)
    BY <2>1, FlagsKept
  <2>2. CASE f \in Gained(Here)
    <3>1. \/ Here.do = "unlock" /\ f = "open"
          \/ Here.do = "lock" /\ f = "locked"
          \/ Here.do = "primary" /\ f = "primary"
          \/ Here.do = "room" /\ f = "cells"
      BY <2>2 DEF Gained
    <3>2. CASE Here.do = "unlock" \/ Here.do = "lock"
      BY <3>1, <3>2 DEF Execute
    <3>3. CASE Here.do = "primary"
      BY <3>1, <3>3 DEF Execute
    <3>4. CASE Here.do = "room"
      <4>1. otp > Here.part /\ Here.part \in Nat /\ otp \in Nat
        BY <3>4, HereIn, BoundsAssumption DEF Holds, Instructions, TypeOK
      <4>2. otp' = otp
        BY <3>4 DEF Execute, Changes
      <4> QED
        BY <3>1, <3>4, <4>1, <4>2
    <3> QED
      BY <3>1, <3>2, <3>3, <3>4
  <2> QED
    BY <1>6, <2>1, <2>2
<1> QED
  BY <1>9, <1>10, <1>11, <1>12 DEF Knows

(* After a failure it still knows this, whether the chip has acted or not.  *)
LEMMA FailureKnown ==
  ASSUME TypeOK, pc \in 1..Len(Code), Execute(Here, FALSE) \/ UNCHANGED chipVars,
         spare' = spare,
         NEW K \in Knowledge, Knows(K), NEW L, L = AfterFailure(Here, K)
  PROVE  Knows(L)'
<1>1. /\ K.new \subseteq Cell /\ K.clean \subseteq Cell
      /\ K.ifNew \subseteq Cell /\ K.ifClean \subseteq Cell
  BY DEF Knowledge
<1>2. /\ L.new = K.new \ Lost(Here)
      /\ L.clean = IF Here.do \in {"erase", "write"} THEN K.clean ELSE K.clean \ Lost(Here)
      /\ L.ifNew = IF Changes(Here) THEN {} ELSE K.ifNew \ Lost(Here)
      /\ L.ifClean = IF Changes(Here) THEN {} ELSE K.ifClean \ Lost(Here)
      /\ L.flags = K.flags \ Gone(Here)
  BY DEF AfterFailure
<1>3. \A x \in Cell \ Lost(Here) : Content(x)' = Content(x)
  <2>1. CASE Execute(Here, FALSE)
    BY <2>1, ContentKept DEF TypeOK
  <2>2. CASE UNCHANGED chipVars
    BY <2>2 DEF chipVars, Content
  <2> QED
    BY <2>1, <2>2
<1>4. ASSUME Here.do \in {"erase", "write"}, NEW x \in K.clean
      PROVE  Content(x)' \in {"blank", "new"}
  <2>1. Content(x) \in {"blank", "new"} /\ x \in Cell
    BY <1>1 DEF Knows
  <2>2. CASE x \notin Lost(Here) \/ UNCHANGED chipVars
    BY <1>3, <2>1, <2>2 DEF chipVars, Content
  <2>3. CASE x \in Lost(Here) /\ Execute(Here, FALSE)
    <3>1. Changes(Here) /\ x \in Named(Here)
      BY <1>4, <2>3 DEF Lost, Changes
    <3>2. /\ x[1] = Here.at /\ x[2] \in Touched(Here) /\ x[2] \in 1..Parts
          /\ Content(x) = mem[Area(Here)][x[2]] /\ Content(x)' = mem'[Area(Here)][x[2]]
      BY <3>1, NamedParts, HereIn DEF Content, Area
    <3>3. Area(Here) \in Areas
      BY <3>1, HereIn DEF Area, TypeOK, Areas, Images
    <3>4. CASE ~locked /\ Burnable(Here)
      <4>1. mem'[Area(Here)][x[2]] = IF FALSE THEN "torn" ELSE Intended(Here, x[2])
        <5>1. Execute(Here, FALSE) /\ Changes(Here) /\ x[2] \in 1..Parts /\ x[2] \in Touched(Here)
          BY <2>3, <3>1, <3>2
        <5> QED
          BY <3>3, <3>4, <5>1, ExecuteMem
      <4>2. Intended(Here, x[2]) \in {"blank", "new"}
        BY <1>4, <2>1, <3>2 DEF Intended, Programmed
      <4> QED
        BY <3>2, <4>1, <4>2
    <3>5. CASE ~(~locked /\ Burnable(Here))
      <4>1. mem' = mem
        BY <2>3, <3>5 DEF Execute
      <4> QED
        BY <2>1, <3>2, <4>1
    <3> QED
      BY <3>4, <3>5
  <2> QED
    BY <2>2, <2>3
<1>5. ~Changes(Here) => flagged' = flagged
  BY DEF Execute, chipVars
<1>6. ASSUME NEW f \in L.flags
      PROVE  /\ f = "open" => ~locked'
             /\ f = "locked" => locked'
             /\ f = "cells" => otp' > 0
             /\ f = "primary" => primary' = spare'
  BY <1>2, FlagsKept
<1>7. \A x \in L.new : Content(x)' = "new"
  BY <1>1, <1>2, <1>3 DEF Knows
<1>8. \A x \in L.clean : Content(x)' \in {"blank", "new"}
  BY <1>1, <1>2, <1>3, <1>4 DEF Knows
<1>9. ~flagged' => /\ \A x \in L.ifNew : Content(x)' = "new"
                   /\ \A x \in L.ifClean : Content(x)' \in {"blank", "new"}
  BY <1>1, <1>2, <1>3, <1>5 DEF Knows
<1> QED
  BY <1>6, <1>7, <1>8, <1>9 DEF Knows

LEMMA OutlineIn ==
  ASSUME TypeOK, pc \in 1..Len(Code) + 1
  PROVE  Outline[chip][pc] \in Knowledge
BY OutlineIs DEF IsOutline

(* The outline at the next instruction follows from the one here.           *)
LEMMA OutlineSteps ==
  ASSUME TypeOK, pc \in 1..Len(Code)
  PROVE  LET K == Outline[chip][pc]
         IN /\ AtMost(Outline[chip][pc + Here.ok], AfterSuccess(AtFirst(Code), chip \in Unseen, Here, K))
            /\ Here.do # "ifData" /\ Here.no > 0
                 => AtMost(Outline[chip][pc + Here.no],
                           AfterPassing(AtFirst(Code), chip \in Unseen, Here, K))
            /\ Here.do # "ifData" /\ Here.limit > 1
                 => AtMost(Outline[chip][pc - Here.back], AfterFailure(Here, K))
BY OutlineIs DEF IsOutline, Leaves, Here

LEMMA LessIsKnown ==
  ASSUME NEW K, NEW L, AtMost(K, L), Knows(L)'
  PROVE  Knows(K)'
BY DEF AtMost, Knows

(* A chip whose driver neither locks nor unlocks it is never protected.     *)
Unprotected == ~Protects(Code) => ~locked

LEMMA FirstIsKnown ==
  ASSUME Unprotected', chip' = chip, NEW K, AtMost(K, AtFirst(Code))
  PROVE  Knows(K)'
BY DEF Unprotected, AtMost, AtFirst, Knows, Code

(* What is true at each moment of an update, and what that leaves when it   *)
(* is over.                                                                 *)
ReportInv ==
  /\ OutlineTrue
  /\ Unprotected
  /\ pc # 0 => result = "none"
  /\ ReportedMeansStored

LEMMA ProtectionStep ==
  ASSUME TypeOK, Unprotected, pc \in 1..Len(Code), chip' = chip,
         NEW weak \in BOOLEAN, Execute(Here, weak) \/ UNCHANGED chipVars
  PROVE  Unprotected'
<1>1. ~Protects(Code) => Here.do # "lock"
  BY DEF Protects, Has, Here
<1>2. locked' = locked \/ Here.do = "lock" \/ ~locked'
  BY DEF Execute, chipVars
<1> QED
  BY <1>1, <1>2 DEF Unprotected, Code

(* At the end of the code the image is where it has to be.                  *)
LEMMA EndStored ==
  ASSUME TypeOK, OutlineTrue, pc = Len(Code) + 1, Reliable
  PROVE  /\ \A a \in Kept : Whole(a, "new")
         /\ chip \in Does({"primary"}) => primary = spare
         /\ chip \in Does({"lock"}) => locked
<1>1. Len(Code) \in Nat
  BY CodeIs
<1> DEFINE K == Outline[chip][Len(Code) + 1]
<1>2. /\ Promised(Code) \X (1..Parts) \subseteq K.new
      /\ chip \in Does({"primary"}) => "primary" \in K.flags
      /\ chip \in Does({"lock"}) => "locked" \in K.flags
  BY OutlineIs, HasIs DEF IsOutline
<1>3. Knows(K)
  BY <1>1 DEF OutlineTrue
<1> HIDE DEF K
<1>4. ASSUME NEW a \in Kept PROVE Whole(a, "new")
  <2>1. a \in Areas
    BY <1>4 DEF Kept, TypeOK, Areas, Images
  <2>2. ASSUME NEW p \in 1..Parts PROVE mem[a][p] = "new"
    <3>1. CASE chip \in Does({"primary"})
      <4>1. a = spare /\ <<"spare", p>> \in K.new
        BY <1>2, <1>4, <3>1, HasIs DEF Kept, Promised
      <4>2. Content(<<"spare", p>>) = "new"
        BY <1>3, <4>1 DEF Knows
      <4> QED
        BY <4>1, <4>2 DEF Content
    <3>2. CASE chip \notin Does({"primary"})
      <4>1. a # "spare" /\ <<a, p>> \in K.new
        BY <1>2, <1>4, <3>2, HasIs DEF Kept, Promised
      <4>2. Content(<<a, p>>) = "new"
        BY <1>3, <4>1 DEF Knows
      <4> QED
        BY <4>1, <4>2 DEF Content
    <3> QED
      BY <3>1, <3>2
  <2> QED
    BY <2>1, <2>2 DEF Whole, Cells, TypeOK
<1> QED
  BY <1>2, <1>3, <1>4 DEF Knows

LEMMA ReportStep == TypeOK /\ ReportInv /\ [Next]_vars => ReportInv'
<1> SUFFICES ASSUME TypeOK, ReportInv, [Next]_vars PROVE ReportInv'
  OBVIOUS
<1>1. CASE StartUpdate
  <2>1. pc' = 1 /\ result' = "none" /\ locked' = locked /\ chip' = chip
    BY <1>1 DEF StartUpdate
  <2>2. Unprotected'
    BY <2>1 DEF ReportInv, Unprotected, Code
  <2>3. PICK M : M = Outline[chip][1]
    OBVIOUS
  <2>4. AtMost(M, AtFirst(Code))
    BY <2>3, OutlineIs DEF IsOutline
  <2>5. Knows(M)'
    BY <2>1, <2>2, <2>4, FirstIsKnown
  <2>6. OutlineTrue'
    BY <2>1, <2>3, <2>5 DEF OutlineTrue, Knows
  <2> QED
    BY <2>1, <2>2, <2>6 DEF ReportInv, ReportedMeansStored
<1>2. CASE Succeed
  <2>1. PICK weak \in BOOLEAN : (weak => Lasting(Here)) /\ Execute(Here, weak)
    BY <1>2 DEF Succeed
  <2>2. /\ pc \in 1..Len(Code) /\ pc' = pc + Here.ok /\ Holds(Here)
        /\ chip' = chip /\ result' = result
        /\ parsed' = IF Here.do = "parse" THEN image # Here.at ELSE parsed
        /\ spare' = IF Here.do = "select" THEN NotRunning ELSE spare
    BY <1>2 DEF Succeed, Receive
  <2>3. Unprotected'
    BY <2>1, <2>2, ProtectionStep DEF ReportInv
  <2>4. spare' \in Images
    BY <2>2, ImagesDiffer DEF TypeOK, NotRunning
  <2>5. PICK M : M = Outline[chip][pc + Here.ok]
    OBVIOUS
  <2>6. ASSUME Reliable' PROVE Knows(M)'
    <3> DEFINE K == Outline[chip][pc]
    <3>1. PICK L : L = AfterSuccess(AtFirst(Code), chip \in Unseen, Here, K)
      OBVIOUS
    <3>2. AtMost(M, L)
      BY <2>2, <2>5, <3>1, OutlineSteps
    <3>3. CASE Here.do = "parse"
      BY <2>2, <2>3, <3>1, <3>2, <3>3, FirstIsKnown DEF AfterSuccess
    <3>4. CASE Here.do # "parse"
      <4>1. parsed /\ (chip \in Unseen => ~doubtful /\ ~weak)
        BY <2>1, <2>2, <2>6, <3>4 DEF Reliable, Execute
      <4>2. pc # 0 /\ K \in Knowledge
        BY <2>2, OutlineIn, HereIn
      <4>3. Knows(K)
        BY <4>1, <4>2 DEF ReportInv, OutlineTrue, Reliable
      <4> HIDE DEF K
      <4>4. Knows(L)'
        BY <2>1, <2>2, <2>4, <3>1, <3>4, <4>1, <4>2, <4>3, SuccessKnown
      <4> QED
        BY <3>2, <4>4, LessIsKnown
    <3> QED
      BY <3>3, <3>4
  <2>7. OutlineTrue'
    BY <2>2, <2>5, <2>6 DEF OutlineTrue, Knows
  <2>8. pc # 0 /\ result = "none"
    BY <2>2, HereIn DEF ReportInv
  <2> QED
    BY <2>2, <2>3, <2>7, <2>8 DEF ReportInv, ReportedMeansStored
<1>3. CASE Fail
  <2>1. /\ pc \in 1..Len(Code) /\ chip' = chip /\ parsed' = parsed /\ spare' = spare
        /\ (Silent(Here) => ~Holds(Here)) /\ pc # 0
    BY <1>3, HereIn DEF Fail
  <2>2. Execute(Here, FALSE) \/ UNCHANGED chipVars
    BY <1>3 DEF Fail
  <2>3. /\ doubtful => doubtful'
        /\ PassedOver(Here) /\ ~doubtful' => Execute(Here, FALSE)
    BY <1>3 DEF Fail, Execute, TypeOK
  <2>4. Unprotected'
    BY <2>1, <2>2, ProtectionStep DEF ReportInv
  <2>5. \/ pc' = pc - Here.back /\ Here.limit > 1 /\ result' = result
        \/ pc' = pc + Here.no /\ Here.no > 0 /\ result' = result /\ ~AttemptsLeft(Here)
        \/ pc' = 0 /\ result' \in {"refused", "failed"}
    <3>1. tries \in Nat /\ Here.limit \in Nat
      BY <2>1, HereIn, LoopAssumption DEF TypeOK, Instructions
    <3> QED
      BY <1>3, <3>1 DEF Fail, AttemptsLeft, LoopStart, Return
  <2>6. PICK M : M = Outline[chip][pc']
    OBVIOUS
  <2>7. ASSUME Reliable', pc' # 0 PROVE Knows(M)'
    <3> DEFINE K == Outline[chip][pc]
               blind == chip \in Unseen
    <3>1. Reliable
      BY <2>1, <2>3, <2>7 DEF Reliable
    <3>2. Here.do # "ifData"
      BY <2>1, <3>1 DEF Silent, Holds, Reliable
    <3>3. K \in Knowledge /\ Knows(K)
      BY <2>1, <3>1, OutlineIn, HereIn DEF ReportInv, OutlineTrue
    <3>4. CASE AtMost(M, AfterFailure(Here, K))
      <4>1. PICK L : L = AfterFailure(Here, K)
        OBVIOUS
      <4> HIDE DEF K
      <4>2. Knows(L)'
        BY <2>1, <2>2, <3>3, <4>1, FailureKnown
      <4> QED
        BY <3>4, <4>1, <4>2, LessIsKnown
    <3>5. CASE pc' = pc + Here.no /\ ~AttemptsLeft(Here) /\ Here.no > 0 /\ blind /\ Changes(Here)
      <4>1. PICK L : L = AfterSuccess(AtFirst(Code), blind, Here, K)
        OBVIOUS
      <4>2. AtMost(M, L)
        BY <2>1, <2>6, <3>2, <3>5, <4>1, OutlineSteps DEF AfterPassing
      <4>3. Execute(Here, FALSE)
        BY <2>1, <2>3, <2>7, <3>5 DEF PassedOver, Reliable
      <4>4. Holds(Here) /\ Here.do # "parse" /\ parsed /\ spare' \in Images
        BY <2>1, <3>1, <3>5 DEF Holds, Changes, Reliable, TypeOK
      <4> HIDE DEF K
      <4>5. Knows(L)'
        BY <2>1, <3>3, <4>1, <4>3, <4>4, SuccessKnown
      <4> QED
        BY <4>2, <4>5, LessIsKnown
    <3>6. CASE pc' = pc + Here.no /\ Here.no > 0 /\ ~(blind /\ Changes(Here))
      <4>1. AtMost(M, AfterFailure(Here, K))
        BY <2>1, <2>6, <3>2, <3>6, OutlineSteps DEF AfterPassing
      <4> QED
        BY <3>4, <4>1
    <3>7. CASE pc' = pc - Here.back /\ Here.limit > 1
      <4>1. AtMost(M, AfterFailure(Here, K))
        BY <2>1, <2>6, <3>2, <3>7, OutlineSteps
      <4> QED
        BY <3>4, <4>1
    <3> QED
      BY <2>5, <2>7, <3>5, <3>6, <3>7
  <2>8. OutlineTrue'
    BY <2>1, <2>6, <2>7 DEF OutlineTrue, Knows
  <2> QED
    BY <2>1, <2>4, <2>5, <2>8 DEF ReportInv, ReportedMeansStored
<1>4. CASE Finish
  <2>1. pc = Len(Code) + 1 /\ pc' = 0 /\ UNCHANGED <<chip, parsed, spare, chipVars, doubtful>>
    BY <1>4 DEF Finish, Return
  <2>2. OutlineTrue' /\ Unprotected'
    BY <2>1 DEF ReportInv, OutlineTrue, Unprotected, chipVars, Code
  <2>3. Reliable' => Reliable
    BY <2>1 DEF Reliable
  <2>4. Reliable' => /\ \A a \in Kept : Whole(a, "new")
                     /\ chip \in Does({"primary"}) => primary = spare
                     /\ chip \in Does({"lock"}) => locked
    BY <2>1, <2>3, EndStored DEF ReportInv
  <2>5. Reliable' => ReportedMeansStored'
    BY <2>1, <2>4 DEF ReportedMeansStored, Kept, Whole, Code, chipVars
  <2>6. ReportedMeansStored'
    BY <2>5 DEF ReportedMeansStored, Reliable
  <2> QED
    BY <2>1, <2>2, <2>6 DEF ReportInv
<1>5. CASE RestartBMC
  BY <1>5 DEF RestartBMC, Return, chipVars, ReportInv, OutlineTrue, Unprotected, Code,
     ReportedMeansStored
<1>6. CASE PowerCycle
  <2>1. /\ pc = 0 /\ locked' = (chip \in Does({"unlock", "lock"}))
        /\ UNCHANGED <<chip, pc, parsed, primary, spare, result, doubtful>>
    BY <1>6 DEF PowerCycle
  <2>2. \A a \in Areas \ {"ram"} : mem'[a] = mem[a]
    BY <1>6 DEF PowerCycle, TypeOK
  <2>3. Kept \subseteq Areas \ {"ram"} /\ Kept' = Kept
    BY <2>1 DEF Kept, TypeOK, Areas, Images, Code
  <2>4. chip \in Does({"lock"}) => locked'
    BY <2>1 DEF Does
  <2>5. ReportedMeansStored'
    BY <2>1, <2>2, <2>3, <2>4 DEF ReportInv, ReportedMeansStored, Whole
  <2>6. Unprotected'
    BY <2>1, ProtectsIs DEF Unprotected, Code
  <2> QED
    BY <2>1, <2>5, <2>6 DEF ReportInv, OutlineTrue
<1>7. CASE UNCHANGED vars
  <2>1. OutlineTrue' /\ Unprotected'
    BY <1>7 DEF vars, ReportInv, OutlineTrue, Unprotected, Code, Reliable, Knows, Content
  <2>2. ReportedMeansStored'
    BY <1>7 DEF vars, ReportInv, ReportedMeansStored, Kept, Whole, Code
  <2> QED
    BY <1>7, <2>1, <2>2 DEF vars, ReportInv
<1> QED
  BY <1>1, <1>2, <1>3, <1>4, <1>5, <1>6, <1>7 DEF Next, Driver

(* The invariants of an update hold throughout.                             *)
LEMMA ReportHolds == SafeSpec => [](TypeOK /\ ReportInv)
<1>1. Init => ReportInv
  <2> SUFFICES ASSUME Init PROVE ReportInv
    OBVIOUS
  <2>1. Unprotected
    BY TypeInit, ProtectsIs DEF Init, Unprotected
  <2> QED
    BY <2>1 DEF Init, ReportInv, OutlineTrue, ReportedMeansStored
<1> QED
  BY <1>1, TypeInit, TypeStep, ReportStep, PTL DEF SafeSpec

(* ReportedMeansStored: whichever transactions fail, are repeated or are    *)
(* ignored and whatever an earlier update left behind, a driver that        *)
(* reports success for an image with data has stored the whole image where  *)
(* the chip starts from, and TPS25990 and RS31390 have protected the chip   *)
(* again.  For the drivers in Unseen this is said of updates in which no    *)
(* command was taken badly or passed over, for the others of all.           *)
THEOREM ReportedIsStored == SafeSpec => []ReportedMeansStored
<1>1. ReportInv => ReportedMeansStored
  BY DEF ReportInv
<1> QED
  BY <1>1, ReportHolds, PTL

-----------------------------------------------------------------------------
(* The header.  Where it is differs from one update to the next: the proof *)
(* follows the situations of the outline.                                  *)

HeaderOutline == [c \in Chips |-> CHOOSE H : IsHeaderOutline(Programs[c], H)]

LEMMA HeaderOutlineIs ==
  ASSUME TypeOK
  PROVE  IsHeaderOutline(Code, HeaderOutline[chip])
<1>1. chip \in DOMAIN Programs /\ chip \in Chips
  BY DEF TypeOK, Chips
<1>2. \E H : IsHeaderOutline(Programs[chip], H)
  BY <1>1, HeadersHaveOutlines
<1>3. HeaderOutline[chip] = CHOOSE H : IsHeaderOutline(Programs[chip], H)
  BY <1>1 DEF HeaderOutline
<1> QED
  BY <1>2, <1>3, Zenon DEF Code

(* What a situation says about the state.                                   *)
Applies(S) ==
  /\ \A x \in S.header : Whole("header", x)
  /\ \A x \in S.read : buf = Cells(x)
  /\ \A p \in S.copied : mem["backup"][p] = "header"

(* At every moment of an update one of the situations applies, and between  *)
(* two updates the header is there.                                         *)
HeaderInv ==
  IF pc = 0 THEN HeaderThere ELSE \E S \in HeaderOutline[chip][pc] : Applies(S)

(* A command leaves an area alone that it does not name.                    *)
LEMMA AreaKept ==
  ASSUME TypeOK, pc \in 1..Len(Code), NEW weak \in BOOLEAN, Execute(Here, weak),
         NEW a \in {"header", "backup"}, ~(Changes(Here) /\ Here.at = a)
  PROVE  mem'[a] = mem[a]
<1>1. CASE Changes(Here)
  <2>1. Area(Here) # a /\ a \in Areas
    BY <1>1 DEF Area, TypeOK, Images, Areas
  <2>2. 1 \in 1..Parts
    BY LoopAssumption
  <2> QED
    BY <2>1, <2>2, ExecuteMem
<1>2. CASE ~Changes(Here)
  BY <1>2 DEF Execute
<1> QED
  BY <1>1, <1>2

(* The parts of the backup that a command does not touch stay copies.       *)
LEMMA CopiesKept ==
  ASSUME TypeOK, pc \in 1..Len(Code), NEW weak \in BOOLEAN, Execute(Here, weak),
         NEW S \in Situation, Applies(S), NEW p \in CopiesLeft(Here, S)
  PROVE  mem'["backup"][p] = "header"
<1>1. p \in S.copied /\ p \in 1..Parts /\ mem["backup"][p] = "header"
  BY DEF CopiesLeft, Situation, Applies
<1>2. CASE Changes(Here) /\ Here.at = "backup"
  <2>1. p \notin Touched(Here) /\ "backup" \in Areas
    BY <1>2 DEF CopiesLeft, Areas
  <2> QED
    BY <1>1, <2>1, ExecuteMem
<1>3. CASE ~(Changes(Here) /\ Here.at = "backup")
  BY <1>1, <1>3, AreaKept
<1> QED
  BY <1>2, <1>3

(* A part of the backup into which the header was dumped holds it, unless   *)
(* the chip stored it badly.                                                *)
LEMMA CopiesHold ==
  ASSUME TypeOK, Unprotected, BackupStored', pc \in 1..Len(Code),
         NEW weak \in BOOLEAN, Execute(Here, weak),
         NEW S \in Situation, Applies(S), NEW p \in CopiesMade(Protects(Code), Here, S)
  PROVE  mem'["backup"][p] = "header"
<1>1. /\ p \in Touched(Here) /\ Here.do = "dump" /\ Here.at = "backup"
      /\ "header" \in S.read /\ ~Protects(Code)
  BY DEF CopiesMade
<1>2. p \in 1..Parts /\ "backup" \in Areas
  BY <1>1, HereIn DEF Changes, Areas
<1>3. Changes(Here) /\ ~locked /\ Burnable(Here) /\ Area(Here) = "backup"
  BY <1>1 DEF Changes, Unprotected, Burnable, Spends, Area
<1>4. mem'["backup"][p] = IF weak THEN "torn" ELSE Intended(Here, p)
  BY <1>1, <1>2, <1>3, ExecuteMem
<1>5. buf[p] = "header"
  BY <1>1, <1>2 DEF Applies, Cells
<1>6. Intended(Here, p) \in {"torn", "header"}
  BY <1>1, <1>3, <1>5 DEF Intended, Programmed
<1>7. mem'["backup"][p] # "torn"
  BY <1>2 DEF BackupStored
<1> QED
  BY <1>4, <1>6, <1>7

(* What the driver has read is what the outline says it has.                *)
LEMMA ReadHolds ==
  ASSUME TypeOK, Receive(Here), NEW S \in Situation, Applies(S),
         NEW x \in WhatIsRead(Here, S)
  PROVE  buf' = Cells(x)
<1>1. CASE Here.do # "load"
  BY <1>1 DEF WhatIsRead, Receive, Applies
<1>2. CASE Here.do = "load" /\ Here.at = "header" /\ x \in S.header
  BY <1>2 DEF Receive, Applies, Whole
<1>3. CASE Here.do = "load" /\ Here.at = "backup" /\ x = "header" /\ S.copied = 1..Parts
  <2>1. mem["backup"] \in [1..Parts -> Contents]
    BY DEF TypeOK, Areas
  <2>2. mem["backup"] = Cells("header")
    BY <1>3, <2>1 DEF Applies, Cells
  <2> QED
    BY <1>3, <2>2 DEF Receive
<1> QED
  BY <1>1, <1>2, <1>3 DEF WhatIsRead

LEMMA SituationSuccess ==
  ASSUME TypeOK, Unprotected, BackupStored', pc \in 1..Len(Code),
         NEW weak \in BOOLEAN, Execute(Here, weak), Receive(Here),
         NEW S \in Situation, Applies(S), NEW T, T = HeaderSuccess(Protects(Code), Here, S)
  PROVE  Applies(T)'
<1>1. ASSUME NEW x \in T.header PROVE Whole("header", x)'
  <2>1. ~(Changes(Here) /\ Here.at = "header") /\ x \in S.header
    BY DEF HeaderSuccess, HeaderLeft
  <2> QED
    BY <2>1, AreaKept DEF Applies, Whole
<1>2. ASSUME NEW x \in T.read PROVE buf' = Cells(x)
  BY ReadHolds DEF HeaderSuccess
<1>3. ASSUME NEW p \in T.copied PROVE mem'["backup"][p] = "header"
  <2>1. p \in CopiesLeft(Here, S) \/ p \in CopiesMade(Protects(Code), Here, S)
    BY DEF HeaderSuccess
  <2> QED
    BY <2>1, CopiesKept, CopiesHold
<1> QED
  BY <1>1, <1>2, <1>3 DEF Applies, Cells

LEMMA SituationFailure ==
  ASSUME TypeOK, pc \in 1..Len(Code), Execute(Here, FALSE) \/ UNCHANGED chipVars,
         buf' = buf,
         NEW S \in Situation, Applies(S), NEW T, T = HeaderFailure(Here, S)
  PROVE  Applies(T)'
<1>1. T.read = S.read /\ T.copied = CopiesLeft(Here, S) /\ T.header = HeaderLeft(Here, S)
  BY DEF HeaderFailure
<1>2. CASE Execute(Here, FALSE)
  <2>1. ASSUME NEW x \in T.header PROVE Whole("header", x)'
    <3>1. ~(Changes(Here) /\ Here.at = "header") /\ x \in S.header
      BY <1>1, <2>1 DEF HeaderLeft
    <3> QED
      BY <1>2, <3>1, AreaKept DEF Applies, Whole
  <2>2. \A p \in T.copied : mem'["backup"][p] = "header"
    BY <1>1, <1>2, CopiesKept
  <2> QED
    BY <1>1, <2>1, <2>2 DEF Applies, Cells
<1>3. CASE UNCHANGED chipVars
  BY <1>1, <1>3 DEF chipVars, HeaderLeft, CopiesLeft, Applies, Whole, Cells
<1> QED
  BY <1>2, <1>3

(* A weaker situation applies as well.                                      *)
LEMMA CoveredApplies ==
  ASSUME NEW H, NEW S, Covers(H, S), Applies(S)'
  PROVE  \E T \in H : Applies(T)'
BY DEF Covers, Applies

LEMMA SecuredIsThere ==
  ASSUME NEW S \in Situation, Secured(S)
  PROVE  /\ TypeOK /\ Applies(S) => HeaderThere
         /\ TypeOK' /\ Applies(S)' => HeaderThere'
<1>1. CASE "header" \in S.header
  BY <1>1 DEF Applies, HeaderThere
<1>2. CASE S.copied = 1..Parts
  <2>1. ASSUME TypeOK, Applies(S) PROVE HeaderThere
    <3>1. mem["backup"] \in [1..Parts -> Contents]
      BY <2>1 DEF TypeOK, Areas
    <3>2. mem["backup"] = Cells("header")
      BY <1>2, <2>1, <3>1 DEF Applies, Cells
    <3> QED
      BY <3>2 DEF HeaderThere, Whole
  <2>2. ASSUME TypeOK', Applies(S)' PROVE HeaderThere'
    <3>1. mem'["backup"] \in [1..Parts -> Contents]
      BY <2>2 DEF TypeOK, Areas
    <3>2. mem'["backup"] = Cells("header")
      BY <1>2, <2>2, <3>1 DEF Applies, Cells
    <3> QED
      BY <3>2 DEF HeaderThere, Whole, Cells
  <2> QED
    BY <2>1, <2>2
<1> QED
  BY <1>1, <1>2 DEF Secured

(* The outline goes on from each instruction.                               *)
LEMMA HeaderOutlineIn ==
  ASSUME TypeOK, pc \in 1..Len(Code) + 1, NEW S \in HeaderOutline[chip][pc]
  PROVE  S \in Situation /\ Secured(S)
BY HeaderOutlineIs DEF IsHeaderOutline

LEMMA HeaderOutlineSteps ==
  ASSUME TypeOK, pc \in 1..Len(Code), NEW S \in HeaderOutline[chip][pc]
  PROVE  /\ MaySucceed(Here, S)
              => Covers(HeaderOutline[chip][pc + Here.ok], HeaderSuccess(Protects(Code), Here, S))
         /\ MayFail(Here, S) =>
              /\ Here.no = 0 => Secured(HeaderFailure(Here, S))
              /\ Here.no > 0 => Covers(HeaderOutline[chip][pc + Here.no],
                                       HeaderFailure(Here, S))
              /\ Here.limit > 1 => Covers(HeaderOutline[chip][pc - Here.back],
                                          HeaderFailure(Here, S))
BY HeaderOutlineIs DEF IsHeaderOutline, Here

(* An update begins in one of the two situations at rest.                   *)
LEMMA BeginsAtRest ==
  ASSUME TypeOK, HeaderThere, HeaderAtRest, StartUpdate
  PROVE  \E S \in AtRest : Applies(S)'
<1>1. pc = 0 /\ mem' = Aged
  BY DEF StartUpdate
<1>2. ASSUME NEW a \in Areas, NEW x \in {"header", "blank"}, Whole(a, x)
      PROVE  mem'[a] = Cells(x)
  BY <1>1, <1>2 DEF Aged, Whole, Cells
<1>3. "header" \in Areas /\ "backup" \in Areas
  BY DEF Areas
<1>4. CASE Whole("header", "header")
  <2>1. mem'["header"] = Cells("header")
    BY <1>2, <1>3, <1>4
  <2> DEFINE S == [header |-> {"header"}, read |-> {}, copied |-> {}]
  <2>2. Applies(S)'
    BY <2>1 DEF Applies, Whole, Cells
  <2> QED
    BY <2>2 DEF AtRest
<1>5. CASE Whole("header", "blank") /\ Whole("backup", "header")
  <2>1. mem'["header"] = Cells("blank") /\ mem'["backup"] = Cells("header")
    BY <1>2, <1>3, <1>5
  <2> DEFINE S == [header |-> {"blank"}, read |-> {}, copied |-> 1..Parts]
  <2>2. Applies(S)'
    BY <2>1 DEF Applies, Whole, Cells
  <2> QED
    BY <2>2 DEF AtRest
<1> QED
  BY <1>1, <1>4, <1>5 DEF HeaderAtRest, HeaderThere

LEMMA HeaderStep ==
  TypeOK /\ TypeOK' /\ Unprotected /\ HeaderInv /\ HeaderAtRest /\ BackupStored'
    /\ [Next]_vars => HeaderInv'
<1> SUFFICES ASSUME TypeOK, TypeOK', Unprotected, HeaderInv, HeaderAtRest,
                    BackupStored', [Next]_vars
             PROVE  HeaderInv'
  OBVIOUS
<1>1. ASSUME pc' # 0, chip' = chip, NEW M, M = HeaderOutline[chip][pc'],
             \E S \in M : Applies(S)'
      PROVE  HeaderInv'
  BY <1>1 DEF HeaderInv, Applies
<1>2. CASE StartUpdate
  <2>1. pc = 0 /\ pc' = 1 /\ chip' = chip /\ HeaderThere
    BY <1>2 DEF StartUpdate, HeaderInv
  <2>2. PICK S \in AtRest : Applies(S)'
    BY <1>2, <2>1, BeginsAtRest
  <2>3. PICK M : M = HeaderOutline[chip][1]
    OBVIOUS
  <2>4. Covers(M, S)
    BY <2>3, HeaderOutlineIs DEF IsHeaderOutline
  <2>5. \E T \in M : Applies(T)'
    BY <2>2, <2>4, CoveredApplies
  <2> QED
    BY <1>1, <2>1, <2>3, <2>5
<1>3. CASE Succeed
  <2>1. PICK weak \in BOOLEAN : Execute(Here, weak)
    BY <1>3 DEF Succeed
  <2>2. /\ pc \in 1..Len(Code) /\ pc' = pc + Here.ok /\ Holds(Here)
        /\ chip' = chip /\ Receive(Here)
    BY <1>3 DEF Succeed
  <2>3. pc # 0 /\ pc' # 0 /\ pc \in 1..Len(Code) + 1
    BY <2>2, HereIn
  <2>4. PICK S \in HeaderOutline[chip][pc] : Applies(S)
    BY <2>3 DEF HeaderInv
  <2>5. S \in Situation
    BY <2>3, HeaderOutlineIn
  <2>6. MaySucceed(Here, S)
    BY <2>2, <2>4 DEF MaySucceed, Holds, HeaderFound, Applies
  <2>7. PICK M : M = HeaderOutline[chip][pc + Here.ok]
    OBVIOUS
  <2>8. PICK T : T = HeaderSuccess(Protects(Code), Here, S)
    OBVIOUS
  <2>9. Covers(M, T)
    BY <2>2, <2>6, <2>7, <2>8, HeaderOutlineSteps
  <2>10. Applies(T)'
    BY <2>1, <2>2, <2>4, <2>5, <2>8, SituationSuccess
  <2>11. \E R \in M : Applies(R)'
    BY <2>9, <2>10, CoveredApplies
  <2> QED
    BY <1>1, <2>2, <2>3, <2>7, <2>11
<1>4. CASE Fail
  <2>1. /\ pc \in 1..Len(Code) /\ chip' = chip /\ buf' = buf
        /\ (Silent(Here) => ~Holds(Here)) /\ pc # 0 /\ pc \in 1..Len(Code) + 1
    BY <1>4, HereIn DEF Fail
  <2>2. Execute(Here, FALSE) \/ UNCHANGED chipVars
    BY <1>4 DEF Fail
  <2>3. PICK S \in HeaderOutline[chip][pc] : Applies(S)
    BY <2>1 DEF HeaderInv
  <2>4. S \in Situation
    BY <2>1, HeaderOutlineIn
  <2>5. MayFail(Here, S)
    <3>1. Cells("header") # Cells("blank")
      BY LoopAssumption DEF Cells
    <3> QED
      BY <2>1, <2>3, <3>1 DEF MayFail, Silent, Holds, HeaderFound, Applies
  <2>6. PICK T : T = HeaderFailure(Here, S)
    OBVIOUS
  <2>7. Applies(T)'
    BY <2>1, <2>2, <2>3, <2>4, <2>6, SituationFailure
  <2>8. \/ pc' = pc - Here.back /\ Here.limit > 1
        \/ pc' = pc + Here.no /\ Here.no > 0
        \/ pc' = 0 /\ Here.no = 0
    <3>1. Here \in Instructions
      BY <2>1, HereIn
    <3>2. Here.limit \in Nat
      BY ONLY <3>1, LoopAssumption DEF Instructions
    <3>3. tries \in Nat
      BY ONLY TypeOK, LoopAssumption DEF TypeOK
    <3> QED
      BY <1>4, <3>2, <3>3 DEF Fail, AttemptsLeft, LoopStart, Return
  <2>9. CASE pc' = 0
    <3>1. Here.no = 0
      BY <2>1, <2>8, <2>9, HereIn DEF Instructions
    <3>2. Secured(T)
      BY <2>1, <2>5, <2>6, <3>1, HeaderOutlineSteps
    <3>3. T \in Situation
      BY <2>4, <2>6 DEF HeaderFailure, HeaderLeft, CopiesLeft, Situation
    <3>4. HeaderThere'
      BY <2>7, <3>2, <3>3, SecuredIsThere
    <3> QED
      BY <2>9, <3>4 DEF HeaderInv
  <2>10. CASE pc' # 0
    <3>1. PICK M : M = HeaderOutline[chip][pc']
      OBVIOUS
    <3>2. Covers(M, T)
      BY <2>1, <2>5, <2>6, <2>8, <2>10, <3>1, HeaderOutlineSteps
    <3>3. \E R \in M : Applies(R)'
      BY <2>7, <3>2, CoveredApplies
    <3> QED
      BY <1>1, <2>1, <2>10, <3>1, <3>3
  <2> QED
    BY <2>9, <2>10
<1>5. ASSUME UNCHANGED mem, pc' = 0, pc # 0 => pc \in 1..Len(Code) + 1
      PROVE  HeaderInv'
  <2>1. HeaderThere
    <3>1. CASE pc = 0
      BY <3>1 DEF HeaderInv
    <3>2. CASE pc # 0
      <4>1. PICK S \in HeaderOutline[chip][pc] : Applies(S)
        BY <3>2 DEF HeaderInv
      <4> QED
        BY <1>5, <3>2, <4>1, HeaderOutlineIn, SecuredIsThere
    <3> QED
      BY <3>1, <3>2
  <2> QED
    BY <1>5, <2>1 DEF HeaderInv, HeaderThere, Whole, Cells
<1>6. CASE Finish
  <2>1. pc' = 0 /\ mem' = mem /\ pc = Len(Code) + 1
    BY <1>6 DEF Finish, Return, chipVars
  <2>2. Len(Code) + 1 \in 1..Len(Code) + 1
    BY CodeIs
  <2> QED
    BY <1>5, <2>1, <2>2
<1>7. CASE RestartBMC
  <2>1. pc' = 0 /\ mem' = mem /\ pc \in 0..Len(Code) + 1
    BY <1>7 DEF RestartBMC, Return, chipVars, TypeOK
  <2>2. Len(Code) \in Nat
    BY CodeIs
  <2>3. pc # 0 => pc \in 1..Len(Code) + 1
    BY <2>1, <2>2
  <2> QED
    BY <1>5, <2>1, <2>3
<1>8. CASE PowerCycle
  <2>1. pc = 0 /\ pc' = 0 /\ mem'["header"] = mem["header"] /\ mem'["backup"] = mem["backup"]
    BY <1>8 DEF PowerCycle, TypeOK, Areas
  <2> QED
    BY <2>1 DEF HeaderInv, HeaderThere, Whole, Cells
<1>9. CASE UNCHANGED vars
  BY <1>9 DEF vars, HeaderInv, HeaderThere, Applies, Whole, Cells
<1> QED
  BY <1>2, <1>3, <1>4, <1>6, <1>7, <1>8, <1>9 DEF Next, Driver

(* HeaderRecoverable: the header of an LFMXO5 is in its place or in the     *)
(* backup over any number of updates, failures, repetitions, restarts and   *)
(* power cycles.                                                            *)
THEOREM HeaderIsRecoverable == SafeSpec => HeaderRecoverable
<1>1. Init /\ Whole("header", "header") => HeaderInv
  BY DEF Init, HeaderInv, HeaderThere
<1>2. TypeOK /\ HeaderInv => HeaderThere
  <2> SUFFICES ASSUME TypeOK, HeaderInv, pc # 0 PROVE HeaderThere
    BY DEF HeaderInv
  <2>1. pc \in 1..Len(Code) + 1
    <3>1. Len(Code) \in Nat /\ pc \in 0..Len(Code) + 1
      BY CodeIs DEF TypeOK
    <3> QED
      BY <3>1
  <2>2. PICK S \in HeaderOutline[chip][pc] : Applies(S)
    BY DEF HeaderInv
  <2> QED
    BY <2>1, <2>2, HeaderOutlineIn, SecuredIsThere
<1>3. ReportInv => Unprotected
  BY DEF ReportInv
<1> QED
  BY <1>1, <1>2, <1>3, HeaderStep, ReportHolds, PTL DEF SafeSpec, HeaderRecoverable
=============================================================================
