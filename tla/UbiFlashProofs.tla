--------------------------- MODULE UbiFlashProofs ---------------------------
(***************************************************************************)
(* Proofs about UbiFlash, for any number of versions, slots and power      *)
(* losses, and whether or not the calls of the clients overlap.            *)
(***************************************************************************)
EXTENDS UbiFlash, FiniteSetTheorems, WellFoundedInduction, TLAPS

Values == Priorities \cup {NoPrio}

UnitOf(names) ==
  [unit : names, of : Versions, value : Values, pc : {1}, slot : {0}]

StartedUnits == UnitOf({"write", "remove", "vars", "setenv", "clear"})

(* What a handler may have to do.                                           *)
Effects ==
  [do : {"save", "start"}, unit : StartedUnits]
    \cup [do : {"forget"}, unit : UnitOf({"none"})]

(* A volume that is not free belongs to a version.                          *)
VolumesOwned == \A s \in Slots : vol[s].kind # "free" => vol[s].of \in Versions

(* A removal that is past the rofs is not of the running version, and an    *)
(* update of the environment that is past kernelname knows its volume.      *)
UnitsUnderWay ==
  \A j \in jobs :
    /\ j.unit = "remove" /\ j.pc # 1 => j.of # running
    /\ j.unit = "vars" => j.pc \in 1..3 /\ (j.pc # 1 => j.slot \in Slots)

Inv == TypeOK /\ todo \in Seq(Effects) /\ VolumesOwned /\ UnitsUnderWay

(* The volumes of the running version stay as they are.                     *)
Spared ==
  \A s \in Slots :
    vol[s].kind # "free" /\ vol[s].of = running /\ vol[s].whole
    => /\ vol'[s].kind = vol[s].kind /\ vol'[s].of = running /\ vol'[s].whole

----------------------------------------------------------------------------
(* The operators of the model.                                              *)

(* A set of slots that is not empty has a first one.                        *)
LEMMA FirstIn ==
  ASSUME NEW S \in SUBSET Slots, S # {}
  PROVE  First(S) \in S /\ \A s \in S : First(S) <= s
<1> DEFINE Less == {pair \in Nat \X Nat : pair[1] < pair[2]}
<1>1. S \subseteq Nat
  BY FlashAssumption DEF Slots
<1>2. IsWellFoundedOn(Less, Nat)
  <2>1. Less = OpToRel(<, Nat)
    BY DEF OpToRel
  <2> QED
    BY <2>1, NatLessThanWellFounded
<1>3. PICK x \in S : \A y \in S : ~ (<<y, x>> \in Less)
  <2> HIDE DEF Less
  <2> QED
    BY <1>1, <1>2, WFMin
<1>4. \A y \in S : x <= y
  <2> TAKE y \in S
  <2>1. ~ (y < x)
    BY <1>1, <1>3
  <2> QED
    BY <2>1, <1>1
<1> QED
  BY <1>4 DEF First

(* A priority that is moved up is a priority again.                         *)
LEMMA BumpedIn ==
  ASSUME NEW p \in Priorities
  PROVE  Bumped(p) \in Priorities
BY FlashAssumption DEF Bumped, Priorities

(* The priorities that are moved up follow one another.                     *)
LEMMA RunIsInterval ==
  ASSUME NEW v \in Versions, NEW value \in Priorities
  PROVE  /\ Cardinality(RunOf(v, value)) \in Nat
         /\ \A i \in 1..Cardinality(RunOf(v, value)) : value + i - 1 \in RunOf(v, value)
<1> DEFINE run == RunOf(v, value)
<1>1. IsFiniteSet(run) /\ Cardinality(run) \in Nat
  <2>1. run \in SUBSET Priorities /\ IsFiniteSet(Priorities)
    <3>1. 0 \in Int /\ PrioLimit - 1 \in Int
      BY FlashAssumption
    <3> QED
      BY <3>1, FS_Interval DEF RunOf, Priorities
  <2> QED
    BY <2>1, FS_Subset, FS_CardinalityType
<1>2. ASSUME NEW i \in 1..Cardinality(run), value + i - 1 \notin run
      PROVE  FALSE
  <2>0. value \in Nat /\ i \in Nat \ {0}
    BY <1>1, FlashAssumption DEF Priorities
  <2>1. \A k \in run : k \in Nat /\ k >= value /\ k < value + i - 1
    <3> TAKE k \in run
    <3>1. k \in Priorities /\ k >= value
          /\ \A m \in value..k : \E w \in Versions \ {v} : shown[w] = m
      BY DEF RunOf
    <3>2. CASE k >= value + i - 1
      <4>1. value + i - 1 \in Priorities
        BY <3>1, <3>2, <2>0, FlashAssumption DEF Priorities
      <4>2. \A m \in value..(value + i - 1) : \E w \in Versions \ {v} : shown[w] = m
        BY <3>1, <3>2, <2>0, FlashAssumption DEF Priorities
      <4>3. value + i - 1 \in run
        BY <4>1, <4>2, <2>0 DEF RunOf
      <4> QED
        BY <4>3, <1>2
    <3> QED
      BY <3>1, <3>2, <2>0, FlashAssumption DEF Priorities
  <2>2. run \in SUBSET (value..(value + i - 2))
    BY <2>1, <2>0
  <2>3. /\ IsFiniteSet(value..(value + i - 2))
        /\ Cardinality(value..(value + i - 2)) = i - 1
    <3> DEFINE last == value + i - 2
    <3>1. last \in Int /\ value \in Int
      BY <2>0
    <3>2. /\ IsFiniteSet(value..last)
          /\ Cardinality(value..last) = IF value > last THEN 0 ELSE last - value + 1
      <4> HIDE DEF last
      <4> QED
        BY <3>1, FS_Interval
    <3> QED
      BY <3>2, <2>0
  <2>4. Cardinality(run) <= i - 1
    BY <2>2, <2>3, FS_Subset
  <2> QED
    BY <2>4, <1>1, <1>2
<1> QED
  BY <1>1, <1>2

(* The values that are given out again are priorities.                      *)
LEMMA LowestIn ==
  ASSUME NEW prio
  PROVE  Lowest(prio) \subseteq Versions
BY DEF Lowest

(* A unit that is started is one of the units, and begins with its first    *)
(* command.                                                                 *)
LEMMA StartedIn ==
  ASSUME TypeOK, UnitsUnderWay, running' = running, NEW u \in StartedUnits
  PROVE  /\ Started(u) \subseteq Units
         /\ jobs' \subseteq Started(u) => UnitsUnderWay'
<1>1. u \in Units /\ u.pc = 1
  BY FlashAssumption DEF StartedUnits, UnitOf, Units, Values
<1>2. Started(u) \subseteq jobs \cup {u}
  BY DEF Started
<1> QED
  BY <1>1, <1>2 DEF TypeOK, UnitsUnderWay

(* A unit of the read-only image goes on with its next command.             *)
LEMMA ProceedIn ==
  ASSUME TypeOK, UnitsUnderWay, NEW j \in jobs, j.unit = "write", j.pc \in 1..5,
         Proceed(j), running' = running
  PROVE  jobs' \subseteq Units /\ UnitsUnderWay'
<1> DEFINE next == [j EXCEPT !.pc = j.pc + 1]
<1>1. next \in Units /\ next.unit = "write"
  BY DEF TypeOK, Units
<1>2. jobs' = (jobs \ {j}) \cup {next}
  BY DEF Proceed
<1> HIDE DEF next
<1> QED
  BY <1>1, <1>2 DEF TypeOK, UnitsUnderWay

(* A unit that ends tells the activation that waits for it.                 *)
LEMMA JobRemovedIn ==
  ASSUME TypeOK, NEW j \in jobs, NEW done \in BOOLEAN
  PROVE  JobRemoved(j, done)
           \subseteq [unit : {"write", "vars"}, of : Versions, done : BOOLEAN]
BY DEF TypeOK, Units, JobRemoved, Waits

----------------------------------------------------------------------------
(* The units.                                                               *)

(* Making room removes volumes of another version than the running one.     *)
LEMMA MakeRoomInv ==
  ASSUME Inv, NEW j \in jobs, NEW kind \in {"rofs", "kernel"}, j.unit = "write",
         j.pc \in 1..5, MakeRoom(j, kind), mixed' \in BOOLEAN,
         UNCHANGED <<running, lost, half, cut, used, faults>>
  PROVE  Inv' /\ Spared
<1> DEFINE gone == Victim(kind, j.of)
<1>1. gone \subseteq Versions \ {running}
  <2>1. CASE Removable(kind, j.of) = {}
    BY <2>1 DEF Victim
  <2>2. CASE Removable(kind, j.of) # {}
    <3>1. First(Removable(kind, j.of)) \in Removable(kind, j.of)
      BY <2>2, FirstIn DEF Removable, SlotsOf
    <3> QED
      BY <3>1 DEF Victim, Removable, SlotsOf, Inv, VolumesOwned
  <2> QED
    BY <2>1, <2>2
<1>2. vol' = [s \in Slots |-> IF s \in VolumesOf(gone) THEN Free ELSE vol[s]]
  BY DEF MakeRoom, Removed
<1>3. \A s \in Slots : s \in VolumesOf(gone) => vol[s].of \in gone
  BY DEF VolumesOf, Find
<1>4. setting' \in [Versions -> Priorities \cup {NoPrio}]
  BY DEF MakeRoom, Cleared, Inv, TypeOK
<1>5. jobs' \subseteq Units /\ UnitsUnderWay'
  BY ProceedIn DEF MakeRoom, Inv
<1> HIDE DEF gone
<1>6. /\ vol' \in [Slots -> [kind : {"free", "rofs", "kernel"},
                             of : Versions \cup {Nobody}, whole : BOOLEAN]]
      /\ VolumesOwned'
  BY <1>2 DEF Inv, TypeOK, VolumesOwned, Free, Volume
<1>7. Spared
  BY <1>1, <1>2, <1>3 DEF Spared
<1>8. TypeOK'
  BY <1>4, <1>5, <1>6 DEF MakeRoom, Inv, TypeOK, updater
<1> QED
  BY <1>5, <1>6, <1>7, <1>8 DEF Inv, MakeRoom, updater

(* A volume is created where there was none.                                *)
LEMMA CreateVolumeInv ==
  ASSUME Inv, NEW j \in jobs, NEW kind \in {"rofs", "kernel"}, j.unit = "write",
         j.pc \in 1..5, CreateVolume(j, kind), mixed' \in BOOLEAN,
         UNCHANGED <<running, lost, half, cut, used, faults>>
  PROVE  Inv' /\ Spared
<1> DEFINE s0 == First({s \in Slots : vol[s] = Free})
<1>1. s0 \in Slots /\ vol[s0] = Free
  BY FirstIn DEF CreateVolume
<1>2. vol' = [vol EXCEPT ![s0] = Volume(kind, j.of, FALSE)]
  BY DEF CreateVolume, Made
<1>3. j.of \in Versions
  BY DEF Inv, TypeOK, Units
<1>4. jobs' \subseteq Units /\ UnitsUnderWay'
  BY ProceedIn DEF CreateVolume, Inv
<1> HIDE DEF s0
<1>5. /\ vol' \in [Slots -> [kind : {"free", "rofs", "kernel"},
                             of : Versions \cup {Nobody}, whole : BOOLEAN]]
      /\ VolumesOwned'
  BY <1>1, <1>2, <1>3 DEF Inv, TypeOK, VolumesOwned, Volume
<1>6. Spared
  BY <1>1, <1>2 DEF Spared, Free, Volume, Inv, TypeOK
<1>7. TypeOK'
  BY <1>3, <1>4, <1>5 DEF CreateVolume, Inv, TypeOK
<1> QED
  BY <1>4, <1>5, <1>6, <1>7 DEF Inv, CreateVolume

(* Filling a volume makes it whole.                                         *)
LEMMA UpdateVolumeInv ==
  ASSUME Inv, NEW j \in jobs, NEW kind \in {"rofs", "kernel"}, j.unit = "write",
         kind = "rofs" => j.pc \in 1..5, UpdateVolume(j, kind), mixed' \in BOOLEAN,
         UNCHANGED <<running, lost, half, cut, used, faults>>
  PROVE  Inv' /\ Spared
<1>1. vol' = [s \in Slots |-> IF s \in Find(kind, j.of)
                             THEN [vol[s] EXCEPT !.whole = TRUE] ELSE vol[s]]
  BY DEF UpdateVolume, Filled
<1>2. jobs' \subseteq Units /\ UnitsUnderWay'
  <2>1. CASE kind = "kernel"
    BY <2>1 DEF UpdateVolume, End, Inv, TypeOK, UnitsUnderWay
  <2>2. CASE kind = "rofs"
    BY <2>2, ProceedIn DEF UpdateVolume, Inv
  <2> QED
    BY <2>1, <2>2
<1>3. ended' \subseteq [unit : {"write", "vars"}, of : Versions, done : BOOLEAN]
  <2>1. JobRemoved(j, TRUE)
          \subseteq [unit : {"write", "vars"}, of : Versions, done : BOOLEAN]
    BY JobRemovedIn DEF Inv
  <2>2. ended' = ended \/ ended' = JobRemoved(j, TRUE)
    BY DEF UpdateVolume, End
  <2> QED
    BY <2>1, <2>2 DEF Inv, TypeOK
<1>4. /\ vol' \in [Slots -> [kind : {"free", "rofs", "kernel"},
                             of : Versions \cup {Nobody}, whole : BOOLEAN]]
      /\ VolumesOwned'
  <2>1. \A s \in Slots :
          /\ vol'[s] \in [kind : {"free", "rofs", "kernel"},
                          of : Versions \cup {Nobody}, whole : BOOLEAN]
          /\ vol'[s].kind = vol[s].kind /\ vol'[s].of = vol[s].of
    <3> TAKE s \in Slots
    <3>1. vol[s] \in [kind : {"free", "rofs", "kernel"},
                      of : Versions \cup {Nobody}, whole : BOOLEAN]
      BY DEF Inv, TypeOK
    <3>2. vol'[s] = vol[s] \/ vol'[s] = [vol[s] EXCEPT !.whole = TRUE]
      BY <1>1
    <3> QED
      BY <3>1, <3>2
  <2>2. vol' \in [Slots -> [kind : {"free", "rofs", "kernel"},
                            of : Versions \cup {Nobody}, whole : BOOLEAN]]
    BY <1>1, <2>1
  <2> QED
    BY <2>1, <2>2 DEF Inv, VolumesOwned
<1>5. Spared
  BY <1>1 DEF Spared, Inv, TypeOK
<1>6. TypeOK'
  BY <1>2, <1>3, <1>4 DEF UpdateVolume, Inv, TypeOK
<1> QED
  BY <1>2, <1>4, <1>5, <1>6 DEF Inv, UpdateVolume

(* A removal stops at the rofs if that is the root, before the kernel.      *)
LEMMA RemoveVolumesInv ==
  ASSUME Inv, NEW j \in jobs, j.unit = "remove", RemoveVolumes(j), mixed' \in BOOLEAN,
         UNCHANGED <<running, lost, half, cut, used, faults>>
  PROVE  Inv' /\ Spared
<1>1. j.of # running
  BY DEF Inv, UnitsUnderWay, RemoveVolumes
<1>2. PICK kind \in {"rofs", "kernel"} :
        vol' = [s \in Slots |-> IF s \in Find(kind, j.of) THEN Free ELSE vol[s]]
  BY DEF RemoveVolumes, Removed
<1>3. jobs' \subseteq Units /\ UnitsUnderWay'
  <2>1. CASE j.pc = 1
    <3> DEFINE next == [j EXCEPT !.pc = j.pc + 1]
    <3>0. j \in Units
      BY DEF Inv, TypeOK
    <3>1. next \in Units /\ next.unit = "remove" /\ next.of = j.of
      BY <3>0, <2>1 DEF Units
    <3>2. jobs' = (jobs \ {j}) \cup {next}
      BY <2>1 DEF RemoveVolumes, Proceed
    <3> HIDE DEF next
    <3> QED
      BY <1>1, <3>1, <3>2 DEF Inv, TypeOK, UnitsUnderWay
  <2>2. CASE j.pc # 1
    BY <2>2 DEF RemoveVolumes, End, Inv, TypeOK, UnitsUnderWay
  <2> QED
    BY <2>1, <2>2
<1>4. ended' \subseteq [unit : {"write", "vars"}, of : Versions, done : BOOLEAN]
  <2>1. JobRemoved(j, TRUE)
          \subseteq [unit : {"write", "vars"}, of : Versions, done : BOOLEAN]
    BY JobRemovedIn DEF Inv
  <2>2. ended' = ended \/ ended' = JobRemoved(j, TRUE)
    BY DEF RemoveVolumes, End
  <2> QED
    BY <2>1, <2>2 DEF Inv, TypeOK
<1>5. /\ vol' \in [Slots -> [kind : {"free", "rofs", "kernel"},
                             of : Versions \cup {Nobody}, whole : BOOLEAN]]
      /\ VolumesOwned'
  BY <1>2 DEF Inv, TypeOK, VolumesOwned, Free, Volume
<1>6. Spared
  BY <1>1, <1>2 DEF Spared, Find
<1>7. TypeOK'
  BY <1>3, <1>4, <1>5 DEF RemoveVolumes, Inv, TypeOK
<1> QED
  BY <1>3, <1>5, <1>6, <1>7 DEF Inv, RemoveVolumes

(* The environment is given a volume that was found.                        *)
LEMMA PointUbootInv ==
  ASSUME Inv, NEW j \in jobs, j.unit = "vars", PointUboot(j), mixed' \in BOOLEAN,
         UNCHANGED <<running, lost, half, cut, used, faults>>
  PROVE  Inv' /\ Spared
<1> DEFINE slot == IF j.pc = 1 THEN First(Find("rofs", j.of)) ELSE j.slot
           next == [j EXCEPT !.pc = j.pc + 1, !.slot = slot]
<1>1. j \in Units /\ j.pc \in 1..3
  BY DEF Inv, TypeOK, UnitsUnderWay
<1>2. slot \in Slots
  <2>1. CASE j.pc = 1
    <3>1. Find("rofs", j.of) # {} /\ Find("rofs", j.of) \in SUBSET Slots
      BY <2>1 DEF PointUboot, Whole, Find, SlotsOf
    <3>2. First(Find("rofs", j.of)) \in Find("rofs", j.of)
      BY <3>1, FirstIn
    <3> QED
      BY <2>1, <3>1, <3>2
  <2>2. CASE j.pc # 1
    BY <2>2 DEF Inv, UnitsUnderWay
  <2> QED
    BY <2>1, <2>2
<1>3. /\ env' = CASE j.pc = 1 -> [env EXCEPT !.kernelname = j.of]
                  [] j.pc = 2 -> [env EXCEPT !.ubiblock = slot]
                  [] j.pc = 3 -> [env EXCEPT !.root = slot]
      /\ j.pc = 3 => jobs' = jobs \ {j} /\ ended' = JobRemoved(j, TRUE)
      /\ j.pc # 3 => jobs' = (jobs \ {j}) \cup {next} /\ ended' = ended
      /\ exposed' = (exposed /\ j.pc < 3)
  BY DEF PointUboot, UpdateEnvVars, UpdateEnv, End
<1> HIDE DEF slot
<1>4. env' \in [kernelname : Versions, ubiblock : Slots, root : Slots]
  BY <1>1, <1>2, <1>3 DEF Inv, TypeOK, Units
<1>5. jobs' \subseteq Units /\ UnitsUnderWay'
  <2>1. CASE j.pc = 3
    BY <2>1, <1>3 DEF Inv, TypeOK, UnitsUnderWay
  <2>2. CASE j.pc # 3
    <3>1. slot \in 0..NumSlots
      BY <1>2, FlashAssumption DEF Slots
    <3>2. /\ next \in Units /\ next.unit = "vars"
          /\ next.pc \in 1..3 /\ next.slot \in Slots
      <4>1. j.pc + 1 \in 2..3
        BY <2>2, <1>1
      <4> DEFINE one == [j EXCEPT !.pc = j.pc + 1]
      <4>2. one \in Units /\ one.unit = "vars" /\ one.pc \in 2..3
        BY <4>1, <1>1 DEF Units
      <4>3. next = [one EXCEPT !.slot = slot]
        OBVIOUS
      <4> HIDE DEF one, next
      <4> QED
        BY <4>2, <4>3, <3>1, <1>2 DEF Units
    <3> HIDE DEF next
    <3> QED
      BY <2>2, <3>2, <1>3 DEF Inv, TypeOK, UnitsUnderWay
  <2> QED
    BY <2>1, <2>2
<1>6. ended' \subseteq [unit : {"write", "vars"}, of : Versions, done : BOOLEAN]
  <2>1. JobRemoved(j, TRUE)
          \subseteq [unit : {"write", "vars"}, of : Versions, done : BOOLEAN]
    BY JobRemovedIn DEF Inv
  <2> QED
    BY <1>3, <2>1 DEF Inv, TypeOK
<1>7. exposed' \in BOOLEAN
  BY <1>3
<1>8. TypeOK'
  BY <1>4, <1>5, <1>6, <1>7 DEF PointUboot, Inv, TypeOK
<1> QED
  BY <1>5, <1>8 DEF Inv, PointUboot, VolumesOwned, Spared

(* A priority is set in the environment.                                    *)
LEMMA SetEnvInv ==
  ASSUME Inv, NEW j \in jobs, SetEnv(j), mixed' \in BOOLEAN,
         UNCHANGED <<running, lost, half, cut, used, faults>>
  PROVE  Inv' /\ Spared
<1>1. ended' \subseteq [unit : {"write", "vars"}, of : Versions, done : BOOLEAN]
  BY JobRemovedIn DEF SetEnv, End, Inv, TypeOK
<1>2. setting' \in [Versions -> Priorities \cup {NoPrio}]
  BY DEF SetEnv, Inv, TypeOK, Units
<1>3. jobs' \subseteq Units /\ UnitsUnderWay'
  BY DEF SetEnv, End, Inv, TypeOK, UnitsUnderWay
<1>4. TypeOK'
  BY <1>1, <1>2, <1>3 DEF SetEnv, Inv, TypeOK
<1> QED
  BY <1>3, <1>4 DEF Inv, SetEnv, VolumesOwned, Spared

LEMMA StepInv ==
  ASSUME Inv, NEW j \in jobs, Step(j)
  PROVE  Inv' /\ Spared
<1>1. mixed' \in BOOLEAN /\ UNCHANGED <<running, lost, half, cut, used, faults>>
  BY DEF Step, Inv, TypeOK
<1>2. CASE j.unit = "write" /\ WriteImages(j)
  BY <1>1, <1>2, MakeRoomInv, CreateVolumeInv, UpdateVolumeInv DEF WriteImages
<1>3. CASE j.unit = "remove" /\ RemoveVolumes(j)
  BY <1>1, <1>3, RemoveVolumesInv
<1>4. CASE j.unit = "vars" /\ PointUboot(j)
  BY <1>1, <1>4, PointUbootInv
<1>5. CASE SetEnv(j)
  BY <1>1, <1>5, SetEnvInv
<1> QED
  BY <1>2, <1>3, <1>4, <1>5 DEF Step

(* A unit that fails may start the removal of what it wrote.                *)
LEMMA FailsInv ==
  ASSUME Inv, NEW j \in jobs, Fails(j)
  PROVE  Inv' /\ Spared
<1> DEFINE removal == Unit("remove", j.of, NoPrio)
<1>1. removal \in StartedUnits
  BY DEF Inv, TypeOK, Units, StartedUnits, UnitOf, Unit, Values
<1>2. jobs' \subseteq jobs \/ jobs' \subseteq Started(removal)
  BY DEF Fails
<1> HIDE DEF removal
<1>3. jobs' \subseteq Units /\ UnitsUnderWay'
  BY <1>1, <1>2, StartedIn DEF Fails, Inv, TypeOK, UnitsUnderWay
<1>4. ended' \subseteq [unit : {"write", "vars"}, of : Versions, done : BOOLEAN]
  BY JobRemovedIn DEF Fails, Inv, TypeOK
<1>5. cut' \in BOOLEAN /\ faults' \in 0..MaxFaults
  BY FlashAssumption DEF Fails, Inv, TypeOK
<1>6. TypeOK'
  BY <1>3, <1>4, <1>5 DEF Fails, flash, Inv, TypeOK
<1> QED
  BY <1>3, <1>6 DEF Inv, Fails, flash, VolumesOwned, Spared

----------------------------------------------------------------------------
(* The updater.                                                             *)

(* The next effect of a handler.                                            *)
LEMMA CarryOutInv ==
  ASSUME Inv, CarryOut
  PROVE  Inv' /\ Spared
<1> DEFINE effect == Head(todo)
<1>1. effect \in Effects /\ todo' \in Seq(Effects)
  BY DEF CarryOut, Inv
<1>2. effect.unit.of \in Versions /\ effect.unit.value \in Values
  BY <1>1 DEF Effects, StartedUnits, UnitOf
<1>3. effect.do # "forget" => effect.unit \in StartedUnits
  BY <1>1 DEF Effects
<1>4. /\ saved' \in [Versions -> Priorities \cup {NoPrio}]
      /\ before' \in [Versions -> Priorities \cup {NoPrio}]
  BY <1>2 DEF CarryOut, Inv, TypeOK, Values
<1>5. jobs' = IF effect.do = "forget" THEN jobs ELSE Started(effect.unit)
  BY DEF CarryOut
<1> HIDE DEF effect
<1>6. jobs' \subseteq Units /\ UnitsUnderWay'
  BY <1>3, <1>5, StartedIn DEF CarryOut, Inv, TypeOK, UnitsUnderWay
<1>7. mixed' \in BOOLEAN
  BY DEF CarryOut, Inv, TypeOK
<1>8. TypeOK'
  BY <1>4, <1>6, <1>7 DEF CarryOut, Inv, TypeOK
<1> QED
  BY <1>1, <1>6, <1>8 DEF Inv, CarryOut, VolumesOwned, Spared

(* What erase has to do.                                                    *)
LEMMA EraseEffects ==
  ASSUME Inv, NEW v \in Versions, NEW prio, NEW reset \in ResetUbootEnvVars(prio)
  PROVE  /\ reset \in Seq(Effects) /\ EraseFrom(v) \in Seq(Effects)
         /\ Without(v) \in [Versions -> Priorities \cup {NoPrio}]
<1>1. \A w \in Versions, name \in {"write", "remove", "vars", "clear"} :
        Start(Unit(name, w, NoPrio)) \in Effects
  BY DEF Effects, StartedUnits, UnitOf, Start, Unit, Values
<1>2. Forget(v) \in Effects
  BY DEF Effects, UnitOf, Forget, Unit, Values
<1>3. reset \in Seq(Effects)
  <2>1. CASE Lowest(prio) = {}
    BY <2>1 DEF ResetUbootEnvVars
  <2>2. CASE Lowest(prio) # {}
    <3>1. PICK w \in Lowest(prio) : reset = <<Start(Unit("vars", w, NoPrio))>>
      BY <2>2 DEF ResetUbootEnvVars
    <3>2. Start(Unit("vars", w, NoPrio)) \in Effects
      BY <1>1, LowestIn
    <3> QED
      BY <3>1, <3>2
  <2> QED
    BY <2>1, <2>2
<1>4. EraseFrom(v) \in Seq(Effects)
  BY <1>1, <1>2 DEF EraseFrom
<1> QED
  BY <1>3, <1>4 DEF Without, Inv, TypeOK

(* A priority is given, and those in its way are moved up.                  *)
LEMMA AssignPriorityIn ==
  ASSUME Inv, NEW v \in Versions, NEW value \in Priorities, AssignPriority(v, value)
  PROVE  /\ shown' \in [Versions -> Priorities \cup {NoPrio}]
         /\ todo' \in Seq(Effects)
         /\ before' \in [Versions -> Priorities \cup {NoPrio}]
<1> DEFINE run == RunOf(v, value)
<1>1. PICK low \in LowestAfter(v, value), pick \in [run -> Versions \ {v}] :
        /\ \A k \in run : shown[pick[k]] = k
        /\ shown' = [w \in Versions |->
                       IF w = v THEN value
                       ELSE IF \E k \in run : pick[k] = w THEN Bumped(shown[w])
                       ELSE shown[w]]
        /\ Handler(<<Save(v, value)>> \o Bumps(value, run, pick)
                     \o <<Start(Unit("vars", low, NoPrio))>>)
  BY DEF AssignPriority
<1>2. run \subseteq Priorities
  BY DEF RunOf
<1>3. shown' \in [Versions -> Priorities \cup {NoPrio}]
  <2>1. \A w \in Versions : (\E k \in run : pick[k] = w) => shown[w] \in Priorities
    BY <1>1, <1>2
  <2> HIDE DEF run
  <2> QED
    BY <1>1, <2>1, BumpedIn DEF Inv, TypeOK
<1>4. low \in Versions
  BY LowestIn DEF LowestAfter
<1>5. <<Save(v, value)>> \in Seq(Effects)
  BY DEF Save, Unit, Effects, StartedUnits, UnitOf, Values
<1>6. <<Start(Unit("vars", low, NoPrio))>> \in Seq(Effects)
  BY <1>4 DEF Start, Unit, Effects, StartedUnits, UnitOf, Values
<1>7. Bumps(value, run, pick) \in Seq(Effects)
  <2>1. /\ Cardinality(run) \in Nat
        /\ \A i \in 1..Cardinality(run) : value + i - 1 \in run
    BY RunIsInterval
  <2>2. \A k \in run : Save(pick[k], Bumped(k)) \in Effects
    <3> TAKE k \in run
    <3>1. pick[k] \in Versions /\ Bumped(k) \in Priorities
      BY <1>1, <1>2, BumpedIn
    <3> QED
      BY <3>1 DEF Save, Unit, Effects, StartedUnits, UnitOf, Values
  <2> HIDE DEF run
  <2>3. Bumps(value, run, pick) \in [1..Cardinality(run) -> Effects]
    BY <2>1, <2>2 DEF Bumps
  <2> QED
    BY <2>1, <2>3
<1>8. todo' \in Seq(Effects)
  <2> DEFINE first == <<Save(v, value)>>
             bumps == Bumps(value, run, pick)
             last == <<Start(Unit("vars", low, NoPrio))>>
  <2>1. todo' = first \o bumps \o last
    BY <1>1 DEF Handler
  <2>2. first \in Seq(Effects) /\ bumps \in Seq(Effects) /\ last \in Seq(Effects)
    BY <1>5, <1>6, <1>7
  <2> HIDE DEF first, bumps, last
  <2> QED
    BY <2>1, <2>2
<1> QED
  BY <1>1, <1>3, <1>8 DEF Handler, Inv, TypeOK

LEMMA UploadInv ==
  ASSUME Inv, NEW v \in Versions, Upload(v)
  PROVE  Inv' /\ Spared
<1>1. <<Start(Unit("write", v, NoPrio))>> \in Seq(Effects)
  BY DEF Start, Unit, Effects, StartedUnits, UnitOf, Values
<1>2. CASE FreeSpace = {} /\ UNCHANGED <<shown, located, ended, exposed>>
           /\ act' = [act EXCEPT ![v] = "writing"]
           /\ Handler(<<Start(Unit("write", v, NoPrio))>>)
  <2>1. TypeOK'
    BY <1>2 DEF Upload, Handler, flash, Inv, TypeOK
  <2> QED
    BY <1>1, <1>2, <2>1 DEF Upload, Handler, flash, Inv, VolumesOwned, UnitsUnderWay,
                            Spared
<1>3. ASSUME NEW x \in FreeSpace, NEW reset \in ResetUbootEnvVars(Without(x)),
             Handler(reset \o EraseFrom(x) \o <<Start(Unit("write", v, NoPrio))>>),
             act' = [act EXCEPT ![x] = "absent", ![v] = "writing"],
             shown' = Without(x), Erased(x)
      PROVE  Inv' /\ Spared
  <2>1. x \in Versions
    BY DEF FreeSpace
  <2>2. /\ reset \in Seq(Effects) /\ EraseFrom(x) \in Seq(Effects)
        /\ shown' \in [Versions -> Priorities \cup {NoPrio}]
    BY <1>3, <2>1, EraseEffects
  <2> DEFINE last == <<Start(Unit("write", v, NoPrio))>>
  <2>3. reset \o EraseFrom(x) \o last \in Seq(Effects)
    <3>1. last \in Seq(Effects)
      BY <1>1
    <3> HIDE DEF last
    <3> QED
      BY <2>2, <3>1
  <2>4. TypeOK'
    BY <1>3, <2>2 DEF Upload, Handler, Erased, flash, Inv, TypeOK
  <2> QED
    BY <1>3, <2>3, <2>4 DEF Upload, Handler, flash, Inv, VolumesOwned, UnitsUnderWay,
                            Spared
<1> QED
  BY <1>2, <1>3 DEF Upload

LEMMA DeleteInv ==
  ASSUME Inv, NEW v \in Versions, Delete(v)
  PROVE  Inv' /\ Spared
<1>1. PICK reset \in ResetUbootEnvVars(Without(v)) : Handler(reset \o EraseFrom(v))
  BY DEF Delete
<1>2. /\ reset \in Seq(Effects) /\ EraseFrom(v) \in Seq(Effects)
      /\ shown' \in [Versions -> Priorities \cup {NoPrio}]
  BY EraseEffects DEF Delete
<1>3. todo' \in Seq(Effects)
  BY <1>1, <1>2 DEF Handler
<1>4. TypeOK'
  BY <1>1, <1>2 DEF Delete, Handler, Erased, flash, Inv, TypeOK
<1> QED
  BY <1>3, <1>4 DEF Delete, flash, Inv, VolumesOwned, UnitsUnderWay, Spared

LEMMA SetPriorityInv ==
  ASSUME Inv, NEW v \in Versions, NEW value \in Wanted, SetPriority(v, value)
  PROVE  Inv' /\ Spared
<1>1. value \in Priorities
  BY FlashAssumption DEF Priorities
<1>2. /\ shown' \in [Versions -> Priorities \cup {NoPrio}]
      /\ todo' \in Seq(Effects)
      /\ before' \in [Versions -> Priorities \cup {NoPrio}]
  BY <1>1, AssignPriorityIn DEF SetPriority
<1>3. TypeOK'
  BY <1>2 DEF SetPriority, flash, Inv, TypeOK
<1> QED
  BY <1>2, <1>3 DEF SetPriority, flash, Inv, VolumesOwned, UnitsUnderWay, Spared

LEMMA FactoryResetInv ==
  ASSUME Inv, FactoryReset
  PROVE  Inv' /\ Spared
<1>1. TypeOK'
  BY DEF FactoryReset, updater, Inv, TypeOK
<1> QED
  BY <1>1 DEF FactoryReset, updater, Inv, VolumesOwned, UnitsUnderWay, Spared

LEMMA UnitEndedInv ==
  ASSUME Inv, NEW signal \in ended, UnitEnded(signal)
  PROVE  Inv' /\ Spared
<1>1. signal.of \in Versions /\ 0 \in Priorities
  BY FlashAssumption DEF Inv, TypeOK, Priorities
<1>2. /\ shown' \in [Versions -> Priorities \cup {NoPrio}]
      /\ todo' \in Seq(Effects)
      /\ before' \in [Versions -> Priorities \cup {NoPrio}]
  <2>1. CASE AssignPriority(signal.of, 0)
    BY <1>1, <2>1, AssignPriorityIn
  <2>2. CASE UNCHANGED <<shown, todo, before>>
    BY <2>2 DEF Inv, TypeOK
  <2> QED
    BY <2>1, <2>2 DEF UnitEnded
<1>3. act' \in [Versions -> {"absent", "writing", "finishing", "active", "failed"}]
  BY <1>1 DEF UnitEnded, Inv, TypeOK
<1>4. TypeOK'
  BY <1>2, <1>3 DEF UnitEnded, flash, Inv, TypeOK
<1> QED
  BY <1>2, <1>4 DEF UnitEnded, flash, Inv, VolumesOwned, UnitsUnderWay, Spared

----------------------------------------------------------------------------
(* The power is lost and comes back.                                        *)

(* The versions that are found have each their priority saved.              *)
LEMMA FoundInOrder ==
  ASSUME NEW x, IsFiniteSet(x), NEW prio, NEW s \in Found(x, prio)
  PROVE  \E order \in Orders(x) :
           s = [i \in 1..Cardinality(x) |-> Save(order[i], prio[order[i]])]
BY DEF Found

LEMMA FoundIn ==
  ASSUME NEW x, IsFiniteSet(x), NEW prio, NEW s \in Found(x, prio)
  PROVE  s \in Seq({Save(v, prio[v]) : v \in x}) /\ Len(s) = Cardinality(x)
<1> DEFINE n == Cardinality(x)
<1>1. n \in Nat
  BY FS_CardinalityType
<1>2. PICK order \in Orders(x) : s = [i \in 1..n |-> Save(order[i], prio[order[i]])]
  BY FoundInOrder
<1>3. \A i \in 1..n : order[i] \in x
  BY DEF Orders
<1> HIDE DEF n
<1>4. s \in Seq({Save(v, prio[v]) : v \in x}) /\ Len(s) = n
  BY <1>1, <1>2, <1>3
<1> QED
  BY <1>4 DEF n

LEMMA FoundOnce ==
  ASSUME NEW x, IsFiniteSet(x), NEW prio, NEW s \in Found(x, prio)
  PROVE  \A i, k \in 1..Len(s) : s[i].unit.of = s[k].unit.of => i = k
<1> DEFINE n == Cardinality(x)
<1>1. n \in Nat
  BY FS_CardinalityType
<1>2. PICK order \in Orders(x) : s = [i \in 1..n |-> Save(order[i], prio[order[i]])]
  BY FoundInOrder
<1>3. \A i, k \in 1..n : order[i] = order[k] => i = k
  BY DEF Orders
<1> HIDE DEF n
<1>4. Len(s) = n /\ \A i \in 1..n : s[i].unit.of = order[i]
  BY <1>1, <1>2 DEF Save, Unit
<1> QED
  BY <1>3, <1>4

(* The environment is set only to a version that has been found, and only   *)
(* when a volume is damaged.                                                *)
LEMMA EraseDamagedIn ==
  ASSUME NEW x, NEW prio, NEW s \in EraseDamaged(x, prio)
  PROVE  /\ s \in Seq({Start(Unit("vars", v, NoPrio)) : v \in x}) /\ Len(s) <= 1
         /\ Damaged = {} => s = <<>>
<1> DEFINE some == [v \in Versions |-> IF v \in x THEN prio[v] ELSE NoPrio]
<1>1. CASE s = <<>>
  BY <1>1
<1>2. CASE s # <<>>
  <2>1. Damaged # {} /\ s \in ResetUbootEnvVars(some)
    BY <1>2 DEF EraseDamaged
  <2>2. PICK v \in Lowest(some) : s = <<Start(Unit("vars", v, NoPrio))>>
    BY <1>2, <2>1 DEF ResetUbootEnvVars
  <2>3. v \in x
    BY <2>2 DEF Lowest
  <2> QED
    BY <2>1, <2>2, <2>3
<1> QED
  BY <1>1, <1>2

LEMMA InTurnIn ==
  ASSUME NEW x, NEW y, NEW s \in InTurn(x, y)
  PROVE  \E first \in x, second \in y : s = first \o second
BY DEF InTurn

(* A pass meets some of the new directories before the damaged one.         *)
PartsOf(s, x, known, new, prio) ==
  \E first \in Found(x, prio), rest \in Found(new \ x, prio),
     reset \in EraseDamaged(known \cup x, prio) : s = first \o reset \o rest

LEMMA ProcessParts ==
  ASSUME NEW known, NEW new, NEW prio, NEW s \in ProcessBMCImage(known, new, prio)
  PROVE  \E x \in SUBSET new : PartsOf(s, x, known, new, prio)
<1>1. PICK x \in SUBSET new :
        s \in InTurn(InTurn(Found(x, prio), EraseDamaged(known \cup x, prio)),
                     Found(new \ x, prio))
  BY DEF ProcessBMCImage
<1>2. PICK front \in InTurn(Found(x, prio), EraseDamaged(known \cup x, prio)),
           rest \in Found(new \ x, prio) : s = front \o rest
  BY <1>1, InTurnIn
<1>3. PICK first \in Found(x, prio), reset \in EraseDamaged(known \cup x, prio) :
        front = first \o reset
  BY <1>2, InTurnIn
<1> QED
  BY <1>2, <1>3 DEF PartsOf

LEMMA ProcessIn ==
  ASSUME NEW known, NEW new, IsFiniteSet(new), NEW prio,
         NEW s \in ProcessBMCImage(known, new, prio)
  PROVE  s \in Seq({Save(v, prio[v]) : v \in new}
                      \cup {Start(Unit("vars", v, NoPrio)) : v \in known \cup new})
<1> DEFINE All == {Save(v, prio[v]) : v \in new}
                    \cup {Start(Unit("vars", v, NoPrio)) : v \in known \cup new}
<1>1. PICK x \in SUBSET new : PartsOf(s, x, known, new, prio)
  BY ProcessParts
<1>9. PICK first \in Found(x, prio), rest \in Found(new \ x, prio),
           reset \in EraseDamaged(known \cup x, prio) : s = first \o reset \o rest
  BY <1>1 DEF PartsOf
<1>2. IsFiniteSet(x) /\ IsFiniteSet(new \ x)
  BY FS_Subset
<1>3. first \in Seq({Save(v, prio[v]) : v \in x})
  BY <1>2, FoundIn
<1>4. rest \in Seq({Save(v, prio[v]) : v \in new \ x})
  BY <1>2, FoundIn
<1>5. reset \in Seq({Start(Unit("vars", v, NoPrio)) : v \in known \cup x})
  BY EraseDamagedIn
<1>6. /\ {Save(v, prio[v]) : v \in x} \subseteq All
      /\ {Save(v, prio[v]) : v \in new \ x} \subseteq All
      /\ {Start(Unit("vars", v, NoPrio)) : v \in known \cup x} \subseteq All
  OBVIOUS
<1> HIDE DEF All
<1>7. first \in Seq(All) /\ reset \in Seq(All) /\ rest \in Seq(All)
  BY <1>3, <1>4, <1>5, <1>6
<1>8. first \o reset \o rest \in Seq(All)
  BY <1>7
<1> QED
  BY <1>8, <1>9 DEF All

LEMMA MountedFinite == IsFiniteSet(Mounted)
<1> DEFINE slots == {t \in SlotsOf("rofs") : Damaged = {} \/ t < First(Damaged)}
           f == [s \in slots |-> vol[s].of]
<1>1. IsFiniteSet(Slots)
  <2>1. 1 \in Int /\ NumSlots \in Int
    BY FlashAssumption
  <2> QED
    BY <2>1, FS_Interval DEF Slots
<1>2. IsFiniteSet(slots)
  <2>1. slots \subseteq Slots
    BY DEF SlotsOf
  <2> HIDE DEF slots
  <2> QED
    BY <1>1, <2>1, FS_Subset
<1>3. Mounted = {vol[s].of : s \in slots}
  BY DEF Mounted
<1> HIDE DEF slots
<1>4. f \in Surjection(slots, Mounted)
  BY <1>3 DEF Surjection
<1> QED
  BY <1>2, <1>4, FS_Surjection

(* The updater starts anew: it saves the priorities of the versions it      *)
(* finds and points U-Boot at one of them.                                  *)
LEMMA RestartEffects ==
  ASSUME Inv, Restart
  PROVE  /\ jobs' = {} /\ ended' = {} /\ (~Bootable => todo' = <<>>)
         /\ todo' \in Seq({Save(v, shown'[v]) : v \in Mounted \cup {Booted}}
                            \cup {Start(Unit("vars", v, NoPrio)) : v \in Mounted \cup {Booted}})
<1> DEFINE All == {Save(v, shown'[v]) : v \in Mounted \cup {Booted}}
                    \cup {Start(Unit("vars", v, NoPrio)) : v \in Mounted \cup {Booted}}
<1>1. /\ jobs' = {} /\ ended' = {}
      /\ IF Bootable THEN todo' \in StartUp(shown') ELSE todo' = <<>>
  BY DEF Restart
<1>2. IsFiniteSet(Mounted) /\ IsFiniteSet({Booted})
  BY MountedFinite, FS_Singleton
<1>3. ASSUME NEW known, NEW new, known \cup new \subseteq Mounted \cup {Booted}, IsFiniteSet(new),
             NEW s \in ProcessBMCImage(known, new, shown')
      PROVE  s \in Seq(All)
  <2> DEFINE Part == {Save(v, shown'[v]) : v \in new}
                       \cup {Start(Unit("vars", v, NoPrio)) : v \in known \cup new}
  <2>1. Part \subseteq All
    BY <1>3
  <2>2. s \in Seq(Part)
    BY <1>3, ProcessIn
  <2> HIDE DEF Part, All
  <2> QED
    BY <2>1, <2>2
<1> HIDE DEF All
<1>4. CASE Bootable /\ Booted \in Mounted
  <2>1. todo' \in ProcessBMCImage({}, Mounted, shown')
    BY <1>1, <1>4 DEF StartUp
  <2> QED
    BY <2>1, <1>1, <1>2, <1>3, <1>4 DEF All
<1>5. CASE Bootable /\ Booted \notin Mounted
  <2>1. PICK first \in ProcessBMCImage({}, Mounted, shown'),
             second \in ProcessBMCImage(Mounted, {Booted}, shown') : todo' = first \o second
    BY <1>1, <1>5, InTurnIn DEF StartUp
  <2>2. first \in Seq(All) /\ second \in Seq(All)
    BY <1>2, <1>3
  <2>3. first \o second \in Seq(All)
    BY <2>2
  <2> QED
    BY <2>1, <2>3, <1>1, <1>5 DEF All
<1>6. CASE ~Bootable
  BY <1>1, <1>6 DEF All
<1> QED
  BY <1>4, <1>5, <1>6

LEMMA RestartInv ==
  ASSUME Inv, Restart
  PROVE  Inv'
<1>1. Mounted \subseteq Versions
  BY DEF Mounted, SlotsOf, Inv, VolumesOwned
<1>2. running' \in Versions \cup {Nobody}
  BY DEF Restart, Booted, Inv, TypeOK
<1>3. saved' \in [Versions -> Priorities \cup {NoPrio}]
  BY DEF Restart, Inv, TypeOK
<1>4. shown' \in [Versions -> Priorities \cup {NoPrio}]
  <2>1. 0 \in Priorities /\ PrioLimit - 1 \in Priorities
    BY FlashAssumption DEF Priorities
  <2>2. \A v \in Versions : Restored(v) \in Priorities
    BY <1>3, <2>1 DEF Restored, Inv, TypeOK
  <2> QED
    BY <2>2 DEF Restart
<1>5. jobs' = {} /\ todo' \in Seq(Effects)
  <2> DEFINE All == {Save(v, shown'[v]) : v \in Mounted \cup {Booted}}
                      \cup {Start(Unit("vars", v, NoPrio)) : v \in Mounted \cup {Booted}}
  <2>1. CASE ~Bootable
    BY <2>1, RestartEffects
  <2>2. CASE Bootable
    <3>1. Mounted \cup {Booted} \subseteq Versions
      BY <2>2, <1>1, <1>2, FlashAssumption DEF Bootable, Booted, SlotsOf, Inv, TypeOK, VolumesOwned
    <3>2. \A v \in Versions : /\ Save(v, shown'[v]) \in Effects
                              /\ Start(Unit("vars", v, NoPrio)) \in Effects
      BY <1>4 DEF Save, Start, Unit, Effects, StartedUnits, UnitOf, Values
    <3>3. All \subseteq Effects
      BY <3>1, <3>2
    <3>4. todo' \in Seq(All)
      BY RestartEffects
    <3> HIDE DEF All
    <3> QED
      BY <3>3, <3>4, RestartEffects
  <2> QED
    BY <2>1, <2>2
<1>6. /\ rwreset' \in BOOLEAN /\ lost' \in BOOLEAN /\ exposed' \in BOOLEAN
      /\ cut' \in BOOLEAN /\ mixed' \in BOOLEAN /\ faults' \in 0..MaxFaults
  <2>1. /\ rwreset' \in BOOLEAN /\ lost' \in BOOLEAN /\ exposed' \in BOOLEAN
        /\ cut' \in BOOLEAN /\ mixed' \in BOOLEAN
    BY DEF Restart
  <2>2. faults' \in 0..MaxFaults
    BY FlashAssumption DEF Restart, Inv, TypeOK
  <2> QED
    BY <2>1, <2>2
<1>7. /\ act' \in [Versions -> {"absent", "writing", "finishing", "active", "failed"}]
      /\ located' \subseteq Versions /\ half' \subseteq Versions
  BY <1>1 DEF Restart
<1>8. TypeOK'
  BY <1>2, <1>3, <1>4, <1>5, <1>6, <1>7 DEF Restart, Inv, TypeOK
<1>9. UnitsUnderWay'
  BY <1>5 DEF UnitsUnderWay
<1> QED
  BY <1>5, <1>8, <1>9 DEF Restart, Inv, VolumesOwned

----------------------------------------------------------------------------
(* The theorems.                                                            *)

LEMMA InitInv == Init => Inv
<1> SUFFICES ASSUME Init PROVE Inv
  OBVIOUS
<1>1. 1 \in Slots /\ 2 \in Slots /\ 0 \in Priorities /\ 0 \in 0..MaxFaults
  BY FlashAssumption DEF Slots, Priorities
<1>2. PICK v \in Versions :
        /\ vol = [s \in Slots |-> CASE s = 1 -> Volume("rofs", v, TRUE)
                                    [] s = 2 -> Volume("kernel", v, TRUE)
                                    [] OTHER -> Free]
        /\ env = [kernelname |-> v, ubiblock |-> 1, root |-> 1]
        /\ saved = [w \in Versions |-> NoPrio] /\ setting = saved
        /\ rwreset = FALSE /\ running = v /\ lost = FALSE
        /\ act = [w \in Versions |-> IF w = v THEN "active" ELSE "absent"]
        /\ shown = [w \in Versions |-> IF w = v THEN 0 ELSE NoPrio] /\ before = shown
        /\ located = {v} /\ todo = <<Save(v, 0)>> /\ jobs = {} /\ ended = {}
        /\ exposed = FALSE /\ half = {} /\ cut = FALSE /\ mixed = FALSE
        /\ used = {v} /\ faults = 0
  BY DEF Init
<1>3. /\ vol \in [Slots -> [kind : {"free", "rofs", "kernel"},
                            of : Versions \cup {Nobody}, whole : BOOLEAN]]
      /\ VolumesOwned
  BY <1>2 DEF VolumesOwned, Volume, Free
<1>4. TypeOK
  BY <1>1, <1>2, <1>3 DEF TypeOK
<1>5. todo \in Seq(Effects)
  <2>1. Save(v, 0) \in Effects
    BY <1>1 DEF Save, Unit, Effects, StartedUnits, UnitOf, Values
  <2> QED
    BY <2>1, <1>2
<1> QED
  BY <1>2, <1>3, <1>4, <1>5 DEF Inv, UnitsUnderWay

LEMMA NextInv ==
  ASSUME Inv, Next
  PROVE  Inv' /\ (~Restart => Spared)
<1>1. CASE \E j \in jobs : Step(j) \/ Fails(j)
  BY <1>1, StepInv, FailsInv
<1>2. CASE CarryOut
  BY <1>2, CarryOutInv
<1>3. ASSUME NEW v \in Versions,
             Upload(v) \/ Delete(v) \/ \E value \in Wanted : SetPriority(v, value)
      PROVE  Inv' /\ Spared
  BY <1>3, UploadInv, DeleteInv, SetPriorityInv
<1>4. CASE FactoryReset
  BY <1>4, FactoryResetInv
<1>5. CASE \E signal \in ended : UnitEnded(signal)
  BY <1>5, UnitEndedInv
<1>6. CASE Restart
  BY <1>6, RestartInv
<1> QED
  BY <1>1, <1>2, <1>3, <1>4, <1>5, <1>6 DEF Next

LEMMA StutterInv ==
  ASSUME Inv, UNCHANGED vars
  PROVE  Inv'
BY DEF Inv, TypeOK, VolumesOwned, UnitsUnderWay, vars, flash, updater

LEMMA Invariant == Spec => []Inv
<1>1. Inv /\ [Next]_vars => Inv'
  BY NextInv, StutterInv
<1> QED
  BY InitInv, <1>1, PTL DEF Spec

(* Every variable of the model stays in its type: the environment always    *)
(* names a slot, and every unit has a next command.                         *)
THEOREM TypeCorrect == Spec => []TypeOK
<1>1. Inv => TypeOK
  BY DEF Inv
<1> QED
  BY Invariant, <1>1, PTL

(* Whatever is written, removed or fails, and however the calls of the      *)
(* clients overlap, the volumes from which the BMC runs are not damaged     *)
(* (ubi_remove_volumes and ubi_remove of obmc-flash-bmc).                   *)
THEOREM RunningKept == Spec => RunningVolumesKept
<1> DEFINE Kept == running' = running => \A kind \in {"rofs", "kernel"} :
                     Whole(kind, running) => Whole(kind, running)'
<1>1. Inv /\ Next => Kept
  <2> SUFFICES ASSUME Inv, Next, running' = running, NEW kind \in {"rofs", "kernel"},
                      Whole(kind, running)
               PROVE  Whole(kind, running)'
    OBVIOUS
  <2>1. CASE Restart
    BY <2>1 DEF Restart, Whole, Find, SlotsOf
  <2>2. CASE ~Restart
    <3>1. Spared
      BY <2>2, NextInv
    <3> QED
      BY <3>1 DEF Spared, Whole, Find, SlotsOf
  <2> QED
    BY <2>1, <2>2
<1>2. UNCHANGED vars => Kept
  BY DEF vars, flash, Whole, Find, SlotsOf
<1>3. Inv /\ [Next]_vars => [Kept]_vars
  BY <1>1, <1>2
<1> QED
  BY Invariant, <1>3, PTL DEF Spec, RunningVolumesKept

----------------------------------------------------------------------------
(***************************************************************************)
(* What U-Boot finds, with the default layout: two images, two volumes of  *)
(* a kind, and clients that wait for the units of the last call.  The      *)
(* number of versions, slots, priorities, failed units and power losses is *)
(* any.                                                                    *)
(*                                                                         *)
(* BootKept: the environment names volumes that are there and whole.  The  *)
(* script does not look at the environment when it makes room, so the      *)
(* reason lies in the order of events.  When a version is uploaded,        *)
(* freeSpace leaves at most one other, the running one (Orderly); a rofs   *)
(* that is neither's can only be the one the environment names if the      *)
(* updater erased that version (exposed) or never knew of it (half)        *)
(* (Sound); and there are two at most (Counted).  Without the bound of two *)
(* that argument fails, see README.                                        *)
(*                                                                         *)
(* ActivatedIsNext: the version that has become Active with nothing under  *)
(* way is the one named.  One version at a time goes from write to vars,   *)
(* and vars writes the environment last (Settled).                         *)
(***************************************************************************)

(* The layout as it is built by default, with clients that wait.            *)
DefaultLayout == Quiet /\ MaxAllowed = 2 /\ KeepMax = 2

(* The units that run and those that the handler has still to start.        *)
UnitsIn(effects) == {effects[i].unit : i \in 1..Len(effects)}
Flight == jobs \cup UnitsIn(todo)

Under(name, v) == \E u \in Flight : u.unit = name /\ u.of = v

Signal(name, v, done) == [unit |-> name, of |-> v, done |-> done]

(* The version is not being written or removed, and nothing will remove it  *)
(* before the updater has erased it.                                        *)
Live(v) ==
  /\ running # Nobody => v \in Known
  /\ ~Under("write", v) /\ ~Under("remove", v)

(* The environment may be pointed at the version.                           *)
Target(v) ==
  shown[v] # NoPrio \/ Under("vars", v) \/ Signal("write", v, TRUE) \in ended

(* While a version is written the updater knows of it and the running one.  *)
Alone(v) ==
  /\ Known \subseteq {running, v} /\ v \in used \ {running}
  /\ ~Under("remove", v) /\ shown[v] = NoPrio

Stopped ==
  /\ running = Nobody => jobs = {} /\ todo = <<>> /\ ended = {}
  /\ \A g \in ended : g.of \in Known

AtWork ==
  \A v \in Versions :
    /\ act[v] = "writing" => \/ Under("write", v)
                             \/ \E done \in BOOLEAN : Signal("write", v, done) \in ended
    /\ act[v] = "finishing" => \/ Under("vars", v)
                               \/ \E done \in BOOLEAN : Signal("vars", v, done) \in ended

TwoKnown ==
  /\ Known \subseteq used
  /\ running # Nobody => running \in Known
  /\ \A v, w \in Known \ {running} : v = w

OneWriter ==
  /\ \A j, k \in jobs : j.unit = "write" /\ k.unit = "write" => j = k
  /\ \A i \in 1..Len(todo) :
       todo[i].unit.unit = "write" => i = Len(todo) /\ \A j \in jobs : j.unit # "write"
  /\ \A v \in Versions : Under("write", v) => Alone(v)

TargetsLive == \A v \in Versions : Target(v) => Live(v)

Orderly == Stopped /\ AtWork /\ TwoKnown /\ OneWriter /\ TargetsLive

----------------------------------------------------------------------------
(* Every unit under way is a unit, of a version.                            *)
LEMMA FlightUnits ==
  ASSUME Inv
  PROVE  /\ \A u \in Flight : u.of \in Versions
         /\ \A u \in UnitsIn(todo) : u.pc = 1
<1>1. \A e \in Effects : e.unit.of \in Versions /\ e.unit.pc = 1
  BY DEF Effects, StartedUnits, UnitOf
<1>2. \A i \in 1..Len(todo) : todo[i] \in Effects
  BY DEF Inv
<1> QED
  BY <1>1, <1>2 DEF Flight, UnitsIn, Inv, TypeOK, Units

(* A sequence between two elements.                                         *)
LEMMA Sandwich ==
  ASSUME NEW S, NEW a \in S, NEW mid \in Seq(S), NEW z \in S
  PROVE  LET all == <<a>> \o mid \o <<z>>
         IN /\ Len(all) = Len(mid) + 2 /\ all[1] = a /\ all[Len(mid) + 2] = z
            /\ \A i \in 2..Len(mid) + 1 : i - 1 \in 1..Len(mid) /\ all[i] = mid[i - 1]
<1> DEFINE front == <<a>> \o mid
<1>1. /\ front \in Seq(S) /\ Len(front) = Len(mid) + 1 /\ front[1] = a
      /\ \A i \in 2..Len(mid) + 1 : front[i] = mid[i - 1]
  <2>1. <<a>> \in Seq(S) /\ Len(<<a>>) = 1 /\ <<a>>[1] = a
    OBVIOUS
  <2>2. \A i \in 2..Len(mid) + 1 : front[i] = mid[i - 1]
    OBVIOUS
  <2> QED
    BY <2>1, <2>2
<1> HIDE DEF front
<1>2. /\ Len(front \o <<z>>) = Len(mid) + 2
      /\ \A i \in 1..Len(mid) + 1 : (front \o <<z>>)[i] = front[i]
      /\ (front \o <<z>>)[Len(mid) + 2] = z
  BY <1>1
<1>3. \A i \in 2..Len(mid) + 1 : i - 1 \in 1..Len(mid) /\ i \in 1..Len(mid) + 1
  OBVIOUS
<1>4. <<a>> \o mid \o <<z>> = front \o <<z>>
  BY DEF front
<1> QED
  BY <1>1, <1>2, <1>3, <1>4

(* What a handler has to do, one part after the other.                      *)
LEMMA UnitsInParts ==
  ASSUME NEW S, NEW s \in Seq(S), NEW t \in Seq(S)
  PROVE  UnitsIn(s \o t) = UnitsIn(s) \cup UnitsIn(t)
<1>1. /\ s \o t \in Seq(S) /\ Len(s \o t) = Len(s) + Len(t)
      /\ \A i \in 1..Len(s) : (s \o t)[i] = s[i]
      /\ \A i \in 1..Len(t) : (s \o t)[Len(s) + i] = t[i]
  OBVIOUS
<1>2. \A i \in 1..Len(s \o t) :
        i \in 1..Len(s) \/ (i - Len(s) \in 1..Len(t) /\ i = Len(s) + (i - Len(s)))
  BY <1>1
<1>3. ASSUME NEW i \in 1..Len(s \o t)
      PROVE  (s \o t)[i].unit \in UnitsIn(s) \cup UnitsIn(t)
  <2>1. CASE i \in 1..Len(s)
    BY <2>1, <1>1 DEF UnitsIn
  <2>2. CASE i \notin 1..Len(s)
    <3> DEFINE k == i - Len(s)
    <3>1. k \in 1..Len(t) /\ i = Len(s) + k
      BY <2>2, <1>2
    <3>2. (s \o t)[i] = t[k]
      BY <3>1, <1>1
    <3> HIDE DEF k
    <3> QED
      BY <3>1, <3>2 DEF UnitsIn
  <2> QED
    BY <2>1, <2>2
<1>4. ASSUME NEW i \in 1..Len(s)
      PROVE  s[i].unit \in UnitsIn(s \o t)
  BY <1>1 DEF UnitsIn
<1>5. ASSUME NEW i \in 1..Len(t)
      PROVE  t[i].unit \in UnitsIn(s \o t)
  <2>1. Len(s) + i \in 1..Len(s \o t)
    BY <1>1
  <2> QED
    BY <2>1, <1>1 DEF UnitsIn
<1>6. UnitsIn(s \o t) \subseteq UnitsIn(s) \cup UnitsIn(t)
  BY <1>3 DEF UnitsIn
<1>7. UnitsIn(s) \subseteq UnitsIn(s \o t) /\ UnitsIn(t) \subseteq UnitsIn(s \o t)
  BY <1>4, <1>5 DEF UnitsIn
<1> QED
  BY <1>6, <1>7

LEMMA UnitsInOne ==
  ASSUME NEW e
  PROVE  UnitsIn(<<e>>) = {e.unit} /\ UnitsIn(<<>>) = {}
BY DEF UnitsIn

----------------------------------------------------------------------------
(* The order of events.                                                     *)

(* No version becomes one that is written or removed.                       *)
LiveStays == \A v \in Versions : Live(v) => Live(v)'

(* Nothing new may be made the next boot.                                   *)
TargetsStay == \A v \in Versions : Target(v)' => Target(v)

(* No unit writes that did not, but one of a version that is new.           *)
WritersKnown ==
  \A u \in Flight' : u.unit = "write" => u \in Flight \/ (u.pc = 1 /\ u.of \notin used)

(* A unit goes on with its next command.                                    *)
LEMMA AdvanceOrderly ==
  ASSUME Inv, Orderly, NEW j \in jobs, NEW next,
         next.unit = j.unit, next.of = j.of, jobs' = (jobs \ {j}) \cup {next},
         UNCHANGED <<act, shown, running, used, todo, ended>>
  PROVE  Orderly' /\ LiveStays /\ TargetsStay
<1>1. \A name, v : Under(name, v)' <=> Under(name, v)
  BY DEF Under, Flight
<1>2. Known' = Known
  BY DEF Known
<1>3. LiveStays /\ TargetsStay /\ TargetsLive'
  BY <1>1, <1>2 DEF LiveStays, TargetsStay, Live, Target, Orderly, TargetsLive
<1>4. OneWriter'
  <2>1. \A v \in Versions : Alone(v)' <=> Alone(v)
    BY <1>1, <1>2 DEF Alone
  <2>2. \A v \in Versions : Under("write", v)' => Alone(v)'
    BY <1>1, <2>1 DEF Orderly, OneWriter
  <2> QED
    BY <2>2 DEF Orderly, OneWriter
<1>5. AtWork'
  BY <1>1 DEF Orderly, AtWork
<1>6. TwoKnown' /\ Stopped'
  BY <1>2 DEF Orderly, TwoKnown, Stopped
<1> QED
  BY <1>3, <1>4, <1>5, <1>6 DEF Orderly

(* A unit ends or fails; the removal of what it wrote may follow.           *)
LEMMA EndOrderly ==
  ASSUME Inv, Orderly, NEW j \in jobs, NEW done \in BOOLEAN,
         jobs \ {j} \subseteq jobs',
         \A u \in jobs' : \/ u \in jobs \ {j}
                          \/ /\ j.unit = "write" /\ ~done
                             /\ u.unit = "remove" /\ u.of = j.of,
         ended' = JobRemoved(j, done),
         UNCHANGED <<act, shown, running, used, todo>>
  PROVE  /\ Orderly' /\ LiveStays
         /\ \A v \in Versions :
              Target(v)' => Target(v) \/ (j.unit = "write" /\ done /\ v = j.of)
<1>0. j.of \in Versions /\ Under(j.unit, j.of) /\ running # Nobody
  BY DEF Inv, TypeOK, Units, Under, Flight, Orderly, Stopped
<1>1. \A name, v : Under(name, v)' => \/ Under(name, v)
                                      \/ /\ j.unit = "write" /\ ~done
                                         /\ name = "remove" /\ v = j.of
  BY DEF Under, Flight
<1>2. \A name, v : Under(name, v) => Under(name, v)' \/ (name = j.unit /\ v = j.of)
  BY DEF Under, Flight
<1>3. Known' = Known
  BY DEF Known
<1>4. j.unit = "write" => /\ Alone(j.of) /\ \A v \in Versions : ~Under("write", v)'
  <2> SUFFICES ASSUME j.unit = "write"
               PROVE  Alone(j.of) /\ \A v \in Versions : ~Under("write", v)'
    OBVIOUS
  <2>1. Alone(j.of)
    BY <1>0 DEF Orderly, OneWriter
  <2>2. \A u \in jobs' : u.unit # "write"
    BY DEF Orderly, OneWriter
  <2>3. \A u \in UnitsIn(todo) : u.unit # "write"
    BY DEF Orderly, OneWriter, UnitsIn
  <2> QED
    BY <2>1, <2>2, <2>3 DEF Under, Flight
<1>5. ended \subseteq ended' /\ \A g \in ended' : g \in ended \/ g = Signal(j.unit, j.of, done)
  BY DEF JobRemoved, Signal
<1>6. Signal(j.unit, j.of, done) \in ended' \/ ~Waits(Signal(j.unit, j.of, done))
  BY DEF JobRemoved, Signal
<1>7. LiveStays
  BY <1>0, <1>1, <1>3 DEF LiveStays, Live
<1>8. ASSUME NEW v \in Versions, Target(v)', ~Target(v)
      PROVE  v = j.of /\ j.unit = "write" /\ done /\ act[v] = "writing"
  <2>1. Signal("write", v, TRUE) \in ended' \ ended
    BY <1>8, <1>1 DEF Target
  <2>2. Signal("write", v, TRUE) = Signal(j.unit, j.of, done)
    BY <2>1, <1>5
  <2>3. v = j.of /\ j.unit = "write" /\ done
    BY <2>2 DEF Signal
  <2>4. act[v] = "writing"
    BY <2>1, <2>2 DEF JobRemoved, Waits, Signal
  <2> QED
    BY <2>3, <2>4
<1>13. TargetsLive'
  <2> SUFFICES ASSUME NEW v \in Versions, Target(v)'
               PROVE  Live(v)'
    BY DEF TargetsLive
  <2>1. CASE Target(v)
    BY <2>1, <1>7 DEF Orderly, TargetsLive, LiveStays
  <2>2. CASE ~Target(v)
    <3>1. v = j.of /\ j.unit = "write" /\ done /\ act[v] = "writing"
      BY <2>2, <1>8
    <3>2. v \in Known'
      BY <3>1, <1>3 DEF Known
    <3>3. ~Under("remove", v)'
      BY <3>1, <1>1, <1>4 DEF Alone
    <3> QED
      BY <3>1, <3>2, <3>3, <1>4 DEF Live
  <2> QED
    BY <2>1, <2>2
<1>9. OneWriter'
  <2>1. CASE j.unit = "write"
    <3>1. \A u \in jobs' : u.unit # "write"
      BY <2>1 DEF Orderly, OneWriter
    <3>2. \A i \in 1..Len(todo) : todo[i].unit.unit # "write"
      BY <2>1 DEF Orderly, OneWriter
    <3> QED
      BY <2>1, <3>1, <3>2, <1>4 DEF OneWriter
  <2>2. CASE j.unit # "write"
    <3>1. \A v \in Versions : Under("write", v)' => Alone(v)'
      BY <2>2, <1>1, <1>3 DEF Orderly, OneWriter, Alone
    <3>2. jobs' \subseteq jobs
      BY <2>2
    <3> QED
      BY <3>1, <3>2 DEF Orderly, OneWriter
  <2> QED
    BY <2>1, <2>2
<1>10. AtWork'
  <2> SUFFICES ASSUME NEW v \in Versions
               PROVE  /\ act[v] = "writing" =>
                           \/ Under("write", v)'
                           \/ \E d \in BOOLEAN : Signal("write", v, d) \in ended'
                      /\ act[v] = "finishing" =>
                           \/ Under("vars", v)'
                           \/ \E d \in BOOLEAN : Signal("vars", v, d) \in ended'
    BY DEF AtWork
  <2>1. \A name \in {"write", "vars"} :
          Under(name, v) /\ act[v] = (IF name = "write" THEN "writing" ELSE "finishing")
            => Under(name, v)' \/ Signal(name, v, done) \in ended'
    BY <1>2, <1>6 DEF Waits, Signal
  <2> QED
    BY <2>1, <1>5 DEF Orderly, AtWork
<1>11. TwoKnown'
  BY <1>3 DEF Orderly, TwoKnown
<1>12. Stopped'
  <2>1. \A g \in ended' : g.of \in Known
    BY <1>0 DEF JobRemoved, Waits, Known, Orderly, Stopped
  <2> QED
    BY <2>1, <1>0, <1>3 DEF Stopped
<1> QED
  BY <1>7, <1>8, <1>9, <1>10, <1>11, <1>12, <1>13 DEF Orderly

(* A unit that is to be started runs, or ran already.                       *)
LEMMA CarryOutDoes ==
  ASSUME Inv, CarryOut
  PROVE  /\ todo[1] \in Effects /\ todo[1].unit.pc = 1
         /\ Len(todo) \in Nat \ {0} /\ Len(todo') = Len(todo) - 1
         /\ \A i \in 1..Len(todo') : todo'[i] = todo[i + 1] /\ i + 1 \in 1..Len(todo)
         /\ UnitsIn(todo) = {todo[1].unit} \cup UnitsIn(todo')
         /\ jobs \subseteq jobs' /\ jobs' \subseteq jobs \cup {todo[1].unit}
         /\ todo[1].unit.unit # "none"
              => \E u \in jobs' : u.unit = todo[1].unit.unit /\ u.of = todo[1].unit.of
         /\ todo[1].unit.unit = "none" => jobs' = jobs
<1> DEFINE first == todo[1]
<1>1. /\ todo # <<>> /\ todo \in Seq(Effects) /\ first \in Effects /\ todo' = Tail(todo)
      /\ jobs' = IF first.do = "forget" THEN jobs ELSE Started(first.unit)
      /\ UNCHANGED <<act, shown, running, used, ended>>
  BY DEF CarryOut, Inv
<1>2. first.do = "forget" <=> first.unit.unit = "none"
  BY <1>1 DEF Effects, StartedUnits, UnitOf
<1>3. /\ Len(todo) \in Nat \ {0} /\ Len(todo') = Len(todo) - 1
      /\ \A i \in 1..Len(todo') : todo'[i] = todo[i + 1] /\ i + 1 \in 1..Len(todo)
      /\ \A i \in 1..Len(todo) : i = 1 \/ (i - 1 \in 1..Len(todo') /\ todo[i] = todo'[i - 1])
  BY <1>1
<1>4. UnitsIn(todo) = {first.unit} \cup UnitsIn(todo')
  <2>1. \A i \in 1..Len(todo) : todo[i].unit \in {first.unit} \cup UnitsIn(todo')
    BY <1>3 DEF UnitsIn
  <2>2. UnitsIn(todo') \subseteq UnitsIn(todo)
    BY <1>3 DEF UnitsIn
  <2>3. first.unit \in UnitsIn(todo)
    BY <1>3 DEF UnitsIn
  <2> QED
    BY <2>1, <2>2, <2>3 DEF UnitsIn
<1>5. /\ jobs \subseteq jobs' /\ jobs' \subseteq jobs \cup {first.unit}
      /\ first.unit.unit # "none"
           => \E u \in jobs' : u.unit = first.unit.unit /\ u.of = first.unit.of
      /\ first.unit.unit = "none" => jobs' = jobs
  BY <1>1, <1>2 DEF Started
<1>6. first.unit.pc = 1
  BY <1>1 DEF Effects, StartedUnits, UnitOf
<1> QED
  BY <1>1, <1>3, <1>4, <1>5, <1>6

LEMMA CarryOutOrderly ==
  ASSUME Inv, Orderly, CarryOut
  PROVE  /\ Orderly' /\ LiveStays /\ TargetsStay /\ WritersKnown
         /\ \A j \in jobs' : j \in jobs \/ j.pc = 1
<1> DEFINE first == todo[1]
<1>1. todo # <<>> /\ UNCHANGED <<act, shown, running, used, ended>>
  BY DEF CarryOut
<1>3. /\ Len(todo) \in Nat \ {0} /\ Len(todo') = Len(todo) - 1
      /\ \A i \in 1..Len(todo') : todo'[i] = todo[i + 1] /\ i + 1 \in 1..Len(todo)
  BY CarryOutDoes
<1>4. UnitsIn(todo) = {first.unit} \cup UnitsIn(todo')
  BY CarryOutDoes
<1>5. /\ jobs \subseteq jobs' /\ jobs' \subseteq jobs \cup {first.unit}
      /\ first.unit.unit # "none"
           => \E u \in jobs' : u.unit = first.unit.unit /\ u.of = first.unit.of
      /\ first.unit.unit = "none" => jobs' = jobs
  BY CarryOutDoes
<1>15. first.unit.pc = 1
  BY CarryOutDoes
<1> HIDE DEF first
<1>6. \A name, v : Under(name, v)' => Under(name, v)
  BY <1>4, <1>5 DEF Under, Flight
<1>7. \A name, v : Under(name, v) /\ name # "none" => Under(name, v)'
  BY <1>4, <1>5 DEF Under, Flight
<1>8. Known' = Known
  BY <1>1 DEF Known
<1>9. LiveStays
  BY <1>1, <1>6, <1>8 DEF LiveStays, Live
<1>10. TargetsStay /\ TargetsLive'
  BY <1>1, <1>6, <1>9 DEF TargetsStay, TargetsLive, Target, LiveStays, Orderly
<1>11. OneWriter'
  <2>1. \A v \in Versions : Under("write", v)' => Alone(v)'
    BY <1>1, <1>6, <1>8 DEF Orderly, OneWriter, Alone
  <2>2. CASE first.unit.unit = "write"
    <3>1. Len(todo) = 1 /\ \A j \in jobs : j.unit # "write"
      BY <2>2, <1>3 DEF first, Orderly, OneWriter
    <3>2. \A j, k \in jobs' : j.unit = "write" /\ k.unit = "write" => j = k
      BY <3>1, <1>5
    <3> QED
      BY <2>1, <3>1, <3>2, <1>3 DEF OneWriter
  <2>3. CASE first.unit.unit # "write"
    <3>1. \A j \in jobs' : j.unit = "write" => j \in jobs
      BY <2>3, <1>5
    <3>2. \A i \in 1..Len(todo') : todo'[i].unit.unit = "write"
                                     => i = Len(todo') /\ \A j \in jobs' : j.unit # "write"
      BY <3>1, <1>3 DEF Orderly, OneWriter
    <3> QED
      BY <2>1, <3>1, <3>2 DEF Orderly, OneWriter
  <2> QED
    BY <2>2, <2>3
<1>12. AtWork'
  BY <1>1, <1>7 DEF Orderly, AtWork
<1>13. TwoKnown' /\ Stopped'
  BY <1>1, <1>8 DEF Orderly, TwoKnown, Stopped
<1>14. WritersKnown
  BY <1>4, <1>5 DEF WritersKnown, Flight
<1> QED
  BY <1>5, <1>9, <1>10, <1>11, <1>12, <1>13, <1>14, <1>15 DEF Orderly

(* A priority that is given is saved and the boot variables are set last,   *)
(* to a version that has a priority.                                        *)
LEMMA AssignPriorityDoes ==
  ASSUME Inv, NEW v \in Versions, NEW value \in Priorities, AssignPriority(v, value)
  PROVE  /\ todo = <<>> /\ todo' \in Seq(Effects)
         /\ \A w \in Versions : shown'[w] # NoPrio <=> shown[w] # NoPrio \/ w = v
         /\ \E low \in Versions :
              /\ shown'[low] # NoPrio /\ (value = 0 => low = v)
              /\ todo'[Len(todo')].unit = Unit("vars", low, NoPrio)
              /\ Len(todo') \in Nat \ {0}
              /\ \A i \in 1..Len(todo') : i # Len(todo') => todo'[i].unit.unit = "setenv"
<1> DEFINE run == RunOf(v, value)
<1>1. PICK low \in LowestAfter(v, value), pick \in [run -> Versions \ {v}] :
        /\ \A k \in run : shown[pick[k]] = k
        /\ shown' = [w \in Versions |->
                       IF w = v THEN value
                       ELSE IF \E k \in run : pick[k] = w THEN Bumped(shown[w])
                       ELSE shown[w]]
        /\ Handler(<<Save(v, value)>> \o Bumps(value, run, pick)
                     \o <<Start(Unit("vars", low, NoPrio))>>)
  BY DEF AssignPriority
<1>2. \A p \in Priorities : p # NoPrio /\ 0 <= p
  BY FlashAssumption DEF Priorities, NoPrio
<1>3. \A w \in Versions : shown'[w] # NoPrio <=> shown[w] # NoPrio \/ w = v
  <2>1. \A w \in Versions : (\E k \in run : pick[k] = w)
                              => shown[w] \in Priorities /\ Bumped(shown[w]) \in Priorities
    <3>1. \A k \in run : k \in Priorities
      BY DEF RunOf
    <3> HIDE DEF run
    <3> QED
      BY <1>1, <3>1, BumpedIn
  <2> HIDE DEF run
  <2> QED
    BY <1>1, <1>2, <2>1
<1>4. low \in Versions /\ shown'[low] # NoPrio
  <2>1. CASE low = v
    BY <2>1, <1>3
  <2>2. CASE low # v
    <3>1. low \in Lowest(Without(v))
      BY <2>2 DEF LowestAfter
    <3>2. low \in Versions /\ Without(v)[low] # NoPrio
      BY <3>1 DEF Lowest
    <3>3. Without(v)[low] = shown[low]
      BY <3>2, <2>2 DEF Without, Inv, TypeOK
    <3> QED
      BY <3>2, <3>3, <1>3
  <2> QED
    BY <2>1, <2>2
<1>5. ASSUME value = 0
      PROVE  low = v
  <2>1. \A w \in Versions : shown[w] = NoPrio \/ shown[w] \in Priorities
    BY DEF Inv, TypeOK
  <2>2. \A w \in Versions \ {v} : shown[w] = NoPrio \/ value <= shown[w]
    BY <2>1, <1>2, <1>5
  <2> QED
    BY <2>2 DEF LowestAfter
<1> DEFINE first == <<Save(v, value)>>
           bumps == Bumps(value, run, pick)
           last == <<Start(Unit("vars", low, NoPrio))>>
<1>6. /\ Len(bumps) \in Nat /\ bumps = [i \in 1..Len(bumps) |-> bumps[i]]
      /\ \A i \in 1..Len(bumps) : bumps[i].unit.unit = "setenv"
  <2>1. Cardinality(run) \in Nat
    BY RunIsInterval
  <2> QED
    BY <2>1 DEF Bumps, Save, Unit
<1>7. first[1].unit.unit = "setenv" /\ last[1].unit = Unit("vars", low, NoPrio)
  BY DEF Save, Unit, Start
<1>8. todo = <<>> /\ todo' = first \o bumps \o last
  BY <1>1 DEF Handler
<1>9. todo' \in Seq(Effects)
  BY AssignPriorityIn
<1>10. /\ Len(todo') = Len(bumps) + 2
       /\ todo'[1] = first[1] /\ todo'[Len(bumps) + 2] = last[1]
       /\ \A i \in 2..Len(bumps) + 1 : todo'[i] = bumps[i - 1]
  <2> DEFINE S == {first[1], last[1]} \cup {bumps[i] : i \in 1..Len(bumps)}
  <2>1. bumps \in Seq(S) /\ first[1] \in S /\ last[1] \in S
    BY <1>6
  <2>2. first = <<first[1]>> /\ last = <<last[1]>>
    OBVIOUS
  <2> HIDE DEF first, bumps, last, S
  <2>3. todo' = <<first[1]>> \o bumps \o <<last[1]>>
    BY <2>2, <1>8
  <2> QED
    BY <2>1, <2>3, Sandwich
<1>11. \A i \in 1..Len(todo') : i # Len(todo') => todo'[i].unit.unit = "setenv"
  <2> HIDE DEF first, bumps, last
  <2> TAKE i \in 1..Len(todo')
  <2>1. i = 1 \/ i = Len(todo') \/ (i \in 2..Len(bumps) + 1 /\ i - 1 \in 1..Len(bumps))
    BY <1>6, <1>10
  <2> QED
    BY <2>1, <1>6, <1>7, <1>10
<1>12. todo'[Len(todo')].unit = Unit("vars", low, NoPrio) /\ Len(todo') \in Nat \ {0}
  <2> HIDE DEF first, bumps, last
  <2> QED
    BY <1>6, <1>7, <1>10
<1> HIDE DEF first, bumps, last, run
<1> QED
  BY <1>3, <1>4, <1>5, <1>8, <1>9, <1>11, <1>12

(* What is to be done after a priority is given touches no volume.          *)
LEMMA AssignOrderly ==
  ASSUME Inv, Orderly, NEW v \in Versions, NEW value \in Priorities,
         AssignPriority(v, value), Target(v), running # Nobody,
         UNCHANGED <<jobs, running, used>>, Known' = Known, ended' \subseteq ended
  PROVE  /\ Stopped' /\ TwoKnown' /\ OneWriter' /\ TargetsLive' /\ LiveStays
         /\ TargetsStay /\ WritersKnown
         /\ \A name, w : Under(name, w) => Under(name, w)'
         /\ value = 0 => Under("vars", v)'
<1>1. PICK low \in Versions :
        /\ shown'[low] # NoPrio /\ (value = 0 => low = v)
        /\ todo'[Len(todo')].unit = Unit("vars", low, NoPrio)
        /\ Len(todo') \in Nat \ {0}
        /\ \A i \in 1..Len(todo') : i # Len(todo') => todo'[i].unit.unit = "setenv"
  BY AssignPriorityDoes
<1>2. todo = <<>> /\ \A w \in Versions : shown'[w] # NoPrio <=> shown[w] # NoPrio \/ w = v
  BY AssignPriorityDoes
<1>3. Unit("vars", low, NoPrio).unit = "vars" /\ Unit("vars", low, NoPrio).of = low
  BY DEF Unit
<1>4. /\ \A u \in UnitsIn(todo') : u.unit = "setenv" \/ (u.unit = "vars" /\ u.of = low)
      /\ UnitsIn(todo) = {}
      /\ Unit("vars", low, NoPrio) \in UnitsIn(todo')
  BY <1>1, <1>2, <1>3 DEF UnitsIn
<1>5. /\ \A name, w : Under(name, w) => Under(name, w)'
      /\ \A name, w : Under(name, w)' /\ name \notin {"setenv", "vars"} => Under(name, w)
      /\ \A w : Under("vars", w)' => Under("vars", w) \/ w = low
      /\ Under("vars", low)'
  BY <1>3, <1>4 DEF Under, Flight
<1>6. LiveStays
  BY <1>5 DEF LiveStays, Live
<1>7. \A w \in Versions : Target(w)' => Target(w)
  BY <1>1, <1>2, <1>5 DEF Target
<1>8. TargetsLive'
  BY <1>6, <1>7 DEF TargetsLive, LiveStays, Orderly
<1>9. OneWriter'
  <2>1. \A w \in Versions : Under("write", w)' => Alone(w)'
    <3> SUFFICES ASSUME NEW w \in Versions, Under("write", w)'
                 PROVE  Alone(w)'
      OBVIOUS
    <3>1. Under("write", w) /\ Alone(w)
      BY <1>5 DEF Orderly, OneWriter
    <3>2. w # v
      BY <3>1 DEF Orderly, TargetsLive, Live
    <3> QED
      BY <3>1, <3>2, <1>2, <1>5 DEF Alone
  <2>2. \A i \in 1..Len(todo') : todo'[i].unit.unit # "write"
    BY <1>1, <1>3
  <2> QED
    BY <2>1, <2>2 DEF Orderly, OneWriter
<1>10. TwoKnown' /\ Stopped'
  BY DEF Orderly, TwoKnown, Stopped
<1>11. WritersKnown
  BY <1>4 DEF WritersKnown, Flight
<1> QED
  BY <1>1, <1>5, <1>6, <1>7, <1>8, <1>9, <1>10, <1>11 DEF TargetsStay

(* When a client may call nothing is under way.                             *)
LEMMA CalledIdle ==
  ASSUME DefaultLayout, Inv, Orderly, Called
  PROVE  /\ running # Nobody /\ todo = <<>> /\ jobs = {} /\ ended = {}
         /\ \A name, v : ~Under(name, v)
         /\ \A v \in Versions : act[v] \in {"absent", "active", "failed"}
<1>1. running # Nobody /\ todo = <<>> /\ jobs = {} /\ ended = {}
  BY DEF Called, DefaultLayout
<1>2. \A name, v : ~Under(name, v)
  BY <1>1 DEF Under, Flight, UnitsIn
<1>3. \A v \in Versions : act[v] \in {"absent", "active", "failed"}
  BY <1>1, <1>2 DEF Orderly, AtWork, Inv, TypeOK
<1> QED
  BY <1>1, <1>2, <1>3

LEMMA SetPriorityOrderly ==
  ASSUME DefaultLayout, Inv, Orderly, NEW v \in Versions, NEW value \in Wanted,
         SetPriority(v, value)
  PROVE  Orderly' /\ LiveStays /\ TargetsStay /\ WritersKnown
<1>1. value \in Priorities
  BY FlashAssumption DEF Priorities
<1>2. /\ AssignPriority(v, value) /\ Target(v) /\ running # Nobody /\ Known' = Known
      /\ UNCHANGED <<act, jobs, running, used, ended>>
  BY CalledIdle DEF SetPriority, Target, Known
<1>3. /\ Stopped' /\ TwoKnown' /\ OneWriter' /\ TargetsLive' /\ LiveStays
      /\ TargetsStay /\ WritersKnown
      /\ \A name, w : Under(name, w) => Under(name, w)'
  BY <1>1, <1>2, AssignOrderly
<1>4. AtWork'
  BY <1>2, <1>3 DEF Orderly, AtWork
<1> QED
  BY <1>3, <1>4 DEF Orderly

LEMMA UnitEndedOrderly ==
  ASSUME Inv, Orderly, NEW signal \in ended, UnitEnded(signal)
  PROVE  Orderly' /\ LiveStays /\ TargetsStay /\ WritersKnown
<1> DEFINE v == signal.of
<1>1. /\ v \in Versions /\ 0 \in Priorities /\ v \in Known /\ running # Nobody
      /\ signal \in [unit : {"write", "vars"}, of : Versions, done : BOOLEAN]
  BY FlashAssumption DEF Inv, TypeOK, Priorities, Orderly, Stopped
<1>2. signal = Signal(signal.unit, v, signal.done)
  BY <1>1 DEF Signal
<1>3. PICK next \in {"failed", "finishing", "active"} : act' = [act EXCEPT ![v] = next]
  BY DEF UnitEnded
<1>4. Known' = Known
  BY <1>1, <1>3 DEF Known, Inv, TypeOK
<1>5. /\ todo = <<>> /\ ended' = ended \ {signal}
      /\ UNCHANGED <<jobs, running, used>>
  BY DEF UnitEnded
<1>6. /\ Stopped' /\ TwoKnown' /\ OneWriter' /\ TargetsLive' /\ LiveStays
      /\ TargetsStay /\ WritersKnown
      /\ \A name, w : Under(name, w) => Under(name, w)'
      /\ act'[v] = "finishing" => Under("vars", v)'
  <2>1. CASE signal.done /\ signal.unit = "write"
    <3>1. AssignPriority(v, 0) /\ Target(v)
      BY <2>1, <1>2 DEF UnitEnded, Target
    <3> QED
      BY <3>1, <1>1, <1>4, <1>5, AssignOrderly
  <2>2. CASE ~(signal.done /\ signal.unit = "write")
    <3>1. UNCHANGED <<shown, todo>> /\ act'[v] # "finishing"
      BY <2>2, <1>1 DEF UnitEnded, Inv, TypeOK
    <3>2. \A name, w : Under(name, w)' <=> Under(name, w)
      BY <3>1, <1>5 DEF Under, Flight
    <3>3. LiveStays
      BY <3>2, <1>4, <1>5 DEF LiveStays, Live
    <3>4. TargetsStay /\ TargetsLive'
      BY <3>1, <3>2, <3>3, <1>5 DEF Orderly, TargetsStay, TargetsLive, Target, LiveStays
    <3>5. OneWriter'
      <4>1. \A w : Alone(w)' <=> Alone(w)
        BY <3>1, <3>2, <1>4, <1>5 DEF Alone
      <4> QED
        BY <3>1, <3>2, <4>1, <1>5 DEF Orderly, OneWriter
    <3>6. TwoKnown' /\ Stopped'
      BY <3>1, <1>4, <1>5 DEF Orderly, TwoKnown, Stopped
    <3>7. WritersKnown
      BY <3>1, <1>5 DEF WritersKnown, Flight
    <3> QED
      BY <3>1, <3>2, <3>3, <3>4, <3>5, <3>6, <3>7
  <2> QED
    BY <2>1, <2>2
<1>7. AtWork'
  <2> SUFFICES ASSUME NEW w \in Versions
               PROVE  /\ act'[w] = "writing" =>
                           \/ Under("write", w)'
                           \/ \E done \in BOOLEAN : Signal("write", w, done) \in ended'
                      /\ act'[w] = "finishing" =>
                           \/ Under("vars", w)'
                           \/ \E done \in BOOLEAN : Signal("vars", w, done) \in ended'
    BY DEF AtWork
  <2>1. CASE w = v
    <3>1. act'[w] = next
      BY <2>1, <1>1, <1>3 DEF Inv, TypeOK
    <3> QED
      BY <2>1, <3>1, <1>6
  <2>2. CASE w # v
    <3>1. act'[w] = act[w]
      BY <2>2, <1>3 DEF Inv, TypeOK
    <3>2. \A name, done : Signal(name, w, done) # signal
      BY <2>2, <1>2 DEF Signal
    <3> QED
      BY <3>1, <3>2, <1>5, <1>6 DEF Orderly, AtWork
  <2> QED
    BY <2>1, <2>2
<1> QED
  BY <1>6, <1>7 DEF Orderly

(* What erase has to do about version x.                                    *)
LEMMA EraseDoes ==
  ASSUME Inv, NEW x \in Versions, NEW reset \in ResetUbootEnvVars(Without(x))
  PROVE  /\ reset \o EraseFrom(x) \in Seq(Effects)
         /\ \A u \in UnitsIn(reset \o EraseFrom(x)) :
              \/ u.unit \in {"none", "clear"}
              \/ u.unit = "remove" /\ u.of = x
              \/ u.unit = "vars" /\ u.of \in Versions \ {x} /\ shown[u.of] # NoPrio
<1> DEFINE erase == EraseFrom(x)
<1>1. reset \in Seq(Effects) /\ erase \in Seq(Effects)
  BY EraseEffects
<1>2. \A u \in UnitsIn(reset) :
        u.unit = "vars" /\ u.of \in Versions \ {x} /\ shown[u.of] # NoPrio
  <2>1. CASE Lowest(Without(x)) = {}
    BY <2>1, UnitsInOne DEF ResetUbootEnvVars
  <2>2. CASE Lowest(Without(x)) # {}
    <3>1. PICK w \in Lowest(Without(x)) : reset = <<Start(Unit("vars", w, NoPrio))>>
      BY <2>2 DEF ResetUbootEnvVars
    <3>2. w \in Versions /\ Without(x)[w] # NoPrio
      BY DEF Lowest
    <3>3. w # x /\ shown[w] # NoPrio
      BY <3>2 DEF Without, Inv, TypeOK
    <3>4. UnitsIn(reset) = {Unit("vars", w, NoPrio)}
      BY <3>1, UnitsInOne DEF Start
    <3> QED
      BY <3>2, <3>3, <3>4 DEF Unit
  <2> QED
    BY <2>1, <2>2
<1>3. \A u \in UnitsIn(erase) : u.unit \in {"none", "clear"} \/ (u.unit = "remove" /\ u.of = x)
  BY DEF UnitsIn, EraseFrom, Start, Forget, Unit
<1>4. UnitsIn(reset \o erase) = UnitsIn(reset) \cup UnitsIn(erase)
  <2> HIDE DEF erase
  <2> QED
    BY <1>1, UnitsInParts
<1>5. reset \o erase \in Seq(Effects)
  BY <1>1
<1> HIDE DEF erase
<1> QED
  BY <1>2, <1>3, <1>4, <1>5 DEF erase

(* After an erase the rest is as live as before.                            *)
LiveButFor(gone) == \A v \in Versions \ gone : Live(v) => Live(v)'

LEMMA DeleteOrderly ==
  ASSUME DefaultLayout, Inv, Orderly, NEW x \in Versions, Delete(x)
  PROVE  Orderly' /\ LiveButFor({x}) /\ TargetsStay /\ WritersKnown
<1>1. /\ running # Nobody /\ todo = <<>> /\ jobs = {} /\ ended = {}
      /\ \A name, v : ~Under(name, v)
      /\ \A v \in Versions : act[v] \in {"absent", "active", "failed"}
  BY CalledIdle DEF Delete
<1>2. /\ x \in Known \ {running}
      /\ act' = [act EXCEPT ![x] = "absent"] /\ shown' = Without(x)
      /\ jobs' = {} /\ ended' = {} /\ UNCHANGED <<running, used>>
  BY <1>1 DEF Delete, Erased
<1>3. PICK reset \in ResetUbootEnvVars(Without(x)) : todo' = reset \o EraseFrom(x)
  BY DEF Delete, Handler
<1>4. \A u \in UnitsIn(todo') :
        \/ u.unit \in {"none", "clear"}
        \/ u.unit = "remove" /\ u.of = x
        \/ u.unit = "vars" /\ u.of \in Versions \ {x} /\ shown[u.of] # NoPrio
  BY <1>3, EraseDoes
<1>5. Known' = Known \ {x}
  BY <1>2 DEF Known, Inv, TypeOK
<1>6. /\ \A v : ~Under("write", v)'
      /\ \A v : Under("remove", v)' => v = x
      /\ \A v : Under("vars", v)' => v # x /\ shown[v] # NoPrio
  BY <1>2, <1>4 DEF Under, Flight
<1>7. LiveButFor({x})
  BY <1>2, <1>5, <1>6 DEF LiveButFor, Live
<1>8. TargetsStay /\ TargetsLive'
  <2>1. \A v \in Versions : Target(v)' => v # x /\ Target(v)
    BY <1>2, <1>6 DEF Target, Without, Inv, TypeOK
  <2> QED
    BY <2>1, <1>7 DEF TargetsStay, TargetsLive, LiveButFor, Orderly
<1>9. OneWriter'
  <2>1. \A i \in 1..Len(todo') : todo'[i].unit.unit # "write"
    BY <1>4 DEF UnitsIn
  <2> QED
    BY <2>1, <1>2, <1>6 DEF OneWriter
<1>10. AtWork'
  BY <1>1, <1>2 DEF AtWork, Inv, TypeOK
<1>11. TwoKnown' /\ Stopped'
  BY <1>1, <1>2, <1>5 DEF Orderly, TwoKnown, Stopped
<1>12. WritersKnown
  BY <1>2, <1>4 DEF WritersKnown, Flight
<1> QED
  BY <1>7, <1>8, <1>9, <1>10, <1>11, <1>12 DEF Orderly

(* freeSpace leaves nothing but the running version.                        *)
LEMMA FreeSpaceLeavesRunning ==
  ASSUME DefaultLayout, Inv, Orderly, Called
  PROVE  /\ FreeSpace = {} => Known = {running}
         /\ \A x \in FreeSpace : x \in Versions /\ Known = {running, x} /\ x # running
<1> DEFINE installed == {v \in Versions : act[v] \in {"active", "failed"}}
           queue == installed \ {running}
<1>1. installed = Known /\ running \in Known /\ \A v, w \in queue : v = w
  <2>1. installed = Known
    BY CalledIdle DEF Known
  <2> QED
    BY <2>1, CalledIdle DEF Orderly, TwoKnown
<1>2. FreeSpace = IF Cardinality(installed) < MaxAllowed THEN {}
                  ELSE {v \in queue : \A w \in queue : SortKey(w) <= SortKey(v)}
  BY DEF FreeSpace
<1>3. \A v \in Versions : SortKey(v) <= SortKey(v)
  BY FlashAssumption DEF SortKey, Inv, TypeOK, Priorities, NoPrio
<1>4. queue \subseteq Versions
  OBVIOUS
<1>5. ASSUME NEW x \in queue
      PROVE  Cardinality(installed) = 2
  <2>1. installed = {running, x} /\ running # x
    BY <1>1
  <2>2. IsFiniteSet({x}) /\ Cardinality({x}) = 1
    BY FS_Singleton
  <2>3. Cardinality({x} \cup {running}) = Cardinality({x}) + 1
    BY <2>1, <2>2, FS_AddElement
  <2>4. installed = {x} \cup {running}
    BY <2>1
  <2> QED
    BY <2>2, <2>3, <2>4
<1> HIDE DEF installed
<1>6. ASSUME FreeSpace = {}
      PROVE  Known = {running}
  <2>1. ASSUME NEW x \in queue
        PROVE  FALSE
    <3>1. \A w \in queue : w = x
      BY <1>1
    <3>2. x \in FreeSpace
      BY <3>1, <1>2, <1>3, <1>4, <1>5 DEF DefaultLayout
    <3> QED
      BY <3>2, <1>6
  <2> QED
    BY <2>1, <1>1
<1>7. \A x \in FreeSpace : x \in queue
  BY <1>2
<1> QED
  BY <1>1, <1>4, <1>6, <1>7

LEMMA UploadOrderly ==
  ASSUME DefaultLayout, Inv, Orderly, NEW v \in Versions, Upload(v)
  PROVE  /\ Orderly' /\ TargetsStay /\ WritersKnown
         /\ \/ LiveStays /\ UNCHANGED exposed
            \/ \E x \in Versions : LiveButFor({x}) /\ exposed' = (exposed \/ x \in NamedByEnv)
<1>1. /\ running # Nobody /\ todo = <<>> /\ jobs = {} /\ ended = {}
      /\ \A name, w : ~Under(name, w)
      /\ \A w \in Versions : act[w] \in {"absent", "active", "failed"}
  BY CalledIdle DEF Upload
<1>2. /\ v \in Versions /\ v \notin used /\ used' = used \cup {v}
      /\ UNCHANGED <<jobs, running>> /\ Called
  BY DEF Upload
<1>3. v # running /\ v \notin Known /\ ~Live(v) /\ shown[v] = NoPrio
  BY <1>1, <1>2 DEF Orderly, TwoKnown, TargetsLive, Target, Live
<1> DEFINE write == Start(Unit("write", v, NoPrio))
<1>4. write \in Effects /\ write.unit = Unit("write", v, NoPrio)
  BY DEF Start, Unit, Effects, StartedUnits, UnitOf, Values
<1>5. PICK gone \in SUBSET Versions, front \in Seq(Effects) :
        /\ Known = {running} \cup gone /\ running \notin gone
        /\ act' = [w \in Versions |-> IF w = v THEN "writing"
                                      ELSE IF w \in gone THEN "absent" ELSE act[w]]
        /\ \A w \in Versions : shown'[w] # NoPrio <=> w \notin gone /\ shown[w] # NoPrio
        /\ todo' = front \o <<write>>
        /\ \A u \in UnitsIn(front) :
             \/ u.unit \in {"none", "clear"}
             \/ u.unit = "remove" /\ u.of \in gone
             \/ u.unit = "vars" /\ u.of \in Versions \ gone /\ shown[u.of] # NoPrio
        /\ ended' \subseteq ended
        /\ \/ gone = {} /\ UNCHANGED exposed
           \/ \E x \in Versions : gone = {x} /\ exposed' = (exposed \/ x \in NamedByEnv)
  <2>1. CASE /\ FreeSpace = {} /\ act' = [act EXCEPT ![v] = "writing"]
             /\ Handler(<<write>>) /\ UNCHANGED <<shown, located, ended, exposed>>
    <3>1. Known = {running}
      BY <2>1, <1>2, FreeSpaceLeavesRunning
    <3>2. /\ <<>> \in Seq(Effects) /\ UnitsIn(<<>>) = {}
          /\ todo' = <<>> \o <<write>>
      <4>1. <<write>> \in Seq(Effects)
        BY <1>4
      <4>2. <<>> \o <<write>> = <<write>>
        OBVIOUS
      <4> QED
        BY <2>1, <4>2, UnitsInOne DEF Handler
    <3>3. act' = [w \in Versions |-> IF w = v THEN "writing"
                                     ELSE IF w \in {} THEN "absent" ELSE act[w]]
      BY <2>1 DEF Inv, TypeOK
    <3>4. /\ {} \in SUBSET Versions /\ Known = {running} \cup {} /\ running \notin {}
          /\ \A w \in Versions : shown'[w] # NoPrio <=> w \notin {} /\ shown[w] # NoPrio
      BY <2>1, <3>1
    <3> HIDE DEF write
    <3> QED
      BY <2>1, <3>2, <3>3, <3>4
  <2>2. ASSUME NEW x \in FreeSpace, NEW reset \in ResetUbootEnvVars(Without(x)),
               Handler(reset \o EraseFrom(x) \o <<write>>),
               act' = [act EXCEPT ![x] = "absent", ![v] = "writing"],
               shown' = Without(x), Erased(x)
        PROVE  \E g \in SUBSET Versions, f \in Seq(Effects) :
                 /\ Known = {running} \cup g /\ running \notin g
                 /\ act' = [w \in Versions |-> IF w = v THEN "writing"
                                               ELSE IF w \in g THEN "absent" ELSE act[w]]
                 /\ \A w \in Versions : shown'[w] # NoPrio <=> w \notin g /\ shown[w] # NoPrio
                 /\ todo' = f \o <<write>>
                 /\ \A u \in UnitsIn(f) :
                      \/ u.unit \in {"none", "clear"}
                      \/ u.unit = "remove" /\ u.of \in g
                      \/ u.unit = "vars" /\ u.of \in Versions \ g /\ shown[u.of] # NoPrio
                 /\ ended' \subseteq ended
                 /\ \/ g = {} /\ UNCHANGED exposed
                    \/ \E y \in Versions : g = {y} /\ exposed' = (exposed \/ y \in NamedByEnv)
    <3>1. x \in Versions /\ Known = {running, x} /\ x # running
      BY <1>2, FreeSpaceLeavesRunning
    <3> DEFINE f == reset \o EraseFrom(x)
    <3>2. /\ f \in Seq(Effects)
          /\ \A u \in UnitsIn(f) :
               \/ u.unit \in {"none", "clear"}
               \/ u.unit = "remove" /\ u.of = x
               \/ u.unit = "vars" /\ u.of \in Versions \ {x} /\ shown[u.of] # NoPrio
      BY <3>1, EraseDoes
    <3>3. todo' = f \o <<write>>
      BY <2>2 DEF Handler
    <3>4. act' = [w \in Versions |-> IF w = v THEN "writing"
                                     ELSE IF w \in {x} THEN "absent" ELSE act[w]]
      BY <2>2 DEF Inv, TypeOK
    <3>5. \A w \in Versions : shown'[w] # NoPrio <=> w \notin {x} /\ shown[w] # NoPrio
      BY <2>2 DEF Without, Inv, TypeOK
    <3>6. ended' \subseteq ended /\ exposed' = (exposed \/ x \in NamedByEnv)
      BY <2>2 DEF Erased
    <3>7. {x} \in SUBSET Versions /\ Known = {running} \cup {x} /\ running \notin {x}
      BY <3>1
    <3>8. \A u \in UnitsIn(f) :
            \/ u.unit \in {"none", "clear"}
            \/ u.unit = "remove" /\ u.of \in {x}
            \/ u.unit = "vars" /\ u.of \in Versions \ {x} /\ shown[u.of] # NoPrio
      BY <3>2
    <3> HIDE DEF f, write
    <3> QED
      BY <3>1, <3>2, <3>3, <3>4, <3>5, <3>6, <3>7, <3>8
  <2> HIDE DEF write
  <2> QED
    BY <2>1, <2>2 DEF Upload, write
<1>6. UnitsIn(todo') = UnitsIn(front) \cup {Unit("write", v, NoPrio)}
  <2> HIDE DEF write
  <2>1. <<write>> \in Seq(Effects) /\ front \in Seq(Effects)
    BY <1>4, <1>5
  <2> DEFINE last == <<write>>
  <2>2. UnitsIn(front \o last) = UnitsIn(front) \cup UnitsIn(last)
    <3>1. last \in Seq(Effects)
      BY <2>1
    <3> HIDE DEF last
    <3> QED
      BY <2>1, <3>1, UnitsInParts
  <2> QED
    BY <2>2, <1>4, <1>5, UnitsInOne
<1>7. Known' = {running, v}
  BY <1>3, <1>5 DEF Known, Inv, TypeOK
<1>8. /\ \A w : Under("write", w)' <=> w = v
      /\ \A w : Under("remove", w)' => w \in gone
      /\ \A w : Under("vars", w)' => w \notin gone /\ shown[w] # NoPrio
  <2>1. Unit("write", v, NoPrio).unit = "write" /\ Unit("write", v, NoPrio).of = v
    BY DEF Unit
  <2> QED
    BY <2>1, <1>1, <1>2, <1>5, <1>6 DEF Under, Flight
<1>9. \A w \in Versions \ gone : Live(w) => Live(w)'
  BY <1>1, <1>2, <1>3, <1>5, <1>7, <1>8 DEF Live
<1>10. TargetsStay /\ TargetsLive'
  <2>1. \A w \in Versions : Target(w)' => w \notin gone /\ Target(w)
    BY <1>1, <1>5, <1>8 DEF Target
  <2> QED
    BY <2>1, <1>9 DEF TargetsStay, TargetsLive, Orderly
<1>11. OneWriter'
  <2>1. Alone(v)'
    <3>1. v \notin gone
      BY <1>3, <1>5
    <3> QED
      BY <3>1, <1>2, <1>3, <1>5, <1>7, <1>8 DEF Alone
  <2>2. \A i \in 1..Len(todo') : todo'[i].unit.unit = "write" => i = Len(todo')
    <3>1. /\ Len(todo') = Len(front) + 1
          /\ \A i \in 1..Len(front) : todo'[i] = front[i]
      <4> HIDE DEF write
      <4> QED
        BY <1>5
    <3>2. \A i \in 1..Len(front) : front[i].unit.unit # "write"
      BY <1>5 DEF UnitsIn
    <3> QED
      BY <3>1, <3>2
  <2> QED
    BY <2>1, <2>2, <1>1, <1>2, <1>8 DEF OneWriter
<1>12. AtWork'
  BY <1>1, <1>5, <1>8 DEF AtWork
<1>13. TwoKnown' /\ Stopped'
  BY <1>1, <1>2, <1>5, <1>7 DEF Orderly, TwoKnown, Stopped
<1>14. Orderly'
  BY <1>10, <1>11, <1>12, <1>13 DEF Orderly
<1>15. WritersKnown
  <2>1. Unit("write", v, NoPrio).pc = 1 /\ Unit("write", v, NoPrio).of = v
    BY DEF Unit
  <2> QED
    BY <2>1, <1>1, <1>2, <1>5, <1>6 DEF WritersKnown, Flight
<1> QED
  BY <1>5, <1>9, <1>10, <1>14, <1>15 DEF LiveStays, LiveButFor

----------------------------------------------------------------------------
(* The volumes.                                                             *)

(* A version has one rofs at most, and there are two with KeepMax volumes   *)
(* kept; a version that is about to get one has none.                       *)
RofsOnce == \A s, t \in SlotsOf("rofs") : vol[s].of = vol[t].of => s = t
TwoRofs == \A s, t, u \in SlotsOf("rofs") : s = t \/ s = u \/ t = u
OneRofs == \A s, t \in SlotsOf("rofs") : s = t

Room ==
  \A u \in Flight :
    /\ u.unit = "write" /\ u.pc \in {1, 2} => Find("rofs", u.of) = {}
    /\ u.unit = "write" /\ u.pc = 2 => OneRofs

Counted ==
  /\ \A s \in Slots : vol[s].kind # "free" => vol[s].of \in used
  /\ RofsOnce /\ TwoRofs /\ Room

(* No volume appears.                                                       *)
NoneMade ==
  \A s \in Slots :
    vol'[s].kind # "free" => vol'[s].kind = vol[s].kind /\ vol'[s].of = vol[s].of

LEMMA CountedShrinks ==
  ASSUME Counted, NoneMade, used \subseteq used',
         \A u \in Flight' :
           /\ u.unit = "write" /\ u.pc \in {1, 2} => Find("rofs", u.of) = {}
           /\ u.unit = "write" /\ u.pc = 2 => OneRofs'
  PROVE  Counted'
<1>1. /\ SlotsOf("rofs")' \subseteq SlotsOf("rofs")
      /\ \A s \in SlotsOf("rofs")' : vol'[s].of = vol[s].of
      /\ \A v : Find("rofs", v)' \subseteq Find("rofs", v)
  BY DEF NoneMade, SlotsOf, Find
<1>2. RofsOnce' /\ TwoRofs'
  BY <1>1 DEF Counted, RofsOnce, TwoRofs
<1>3. Room'
  BY <1>1 DEF Room
<1>4. \A s \in Slots : vol'[s].kind # "free" => vol'[s].of \in used'
  BY DEF Counted, NoneMade
<1> QED
  BY <1>2, <1>3, <1>4 DEF Counted

(* No volume of a live version appears, disappears or changes.              *)
Steady ==
  \A s \in Slots :
    \/ vol[s].kind # "free" /\ Live(vol[s].of)
    \/ vol'[s].kind # "free" /\ Live(vol'[s].of)
    => vol'[s] = vol[s]

(* What has a kernel as well as a rofs, or is known to have none.           *)
Installed(v) == Whole("rofs", v) => Whole("kernel", v) \/ v \in half

KernelKept ==
  /\ Live(env.kernelname) /\ Installed(env.kernelname) /\ Whole("rofs", env.kernelname)

SlotKept(s) == vol[s].kind = "rofs" /\ vol[s].whole /\ Live(vol[s].of)

EnvKept ==
  /\ ~exposed => KernelKept /\ SlotKept(env.ubiblock) /\ SlotKept(env.root)
  /\ \A j \in jobs :
       /\ j.unit = "vars" /\ j.pc # 1
            => KernelKept /\ vol[j.slot] = Volume("rofs", j.of, TRUE)
       /\ j.unit = "vars" /\ j.pc = 3 => SlotKept(env.ubiblock)

TargetsInstalled == \A v \in Versions : Target(v) => Installed(v)

Sound == EnvKept /\ TargetsInstalled

LEMMA SteadyWhole ==
  ASSUME Steady, NEW v, Live(v), NEW kind \in {"rofs", "kernel"}
  PROVE  Whole(kind, v)' <=> Whole(kind, v)
<1>1. \A s \in Slots : /\ s \in Find(kind, v) => vol'[s] = vol[s]
                       /\ s \in Find(kind, v)' => vol'[s] = vol[s]
  BY DEF Steady, Find, SlotsOf
<1> QED
  BY <1>1 DEF Whole, Find, SlotsOf

(* What the environment names is kept as long as live versions are.         *)
LEMMA SoundKept ==
  ASSUME Inv, Orderly, Sound, Steady, NEW gone,
         \A v \in Versions \ gone : Live(v) => Live(v)',
         UNCHANGED <<env, half>>,
         ~exposed' => ~exposed /\ gone \cap NamedByEnv = {},
         \A j \in jobs' : j.unit = "vars" /\ j.pc # 1 => j \in jobs /\ gone = {},
         \A v \in Versions : Target(v)' => Target(v) \/ Whole("kernel", v)'
  PROVE  Sound'
<1>1. env.kernelname \in Versions /\ env.ubiblock \in Slots /\ env.root \in Slots
  BY DEF Inv, TypeOK
<1>2. ASSUME KernelKept, env.kernelname \notin gone
      PROVE  KernelKept'
  <2>1. Live(env.kernelname)'
    BY <1>1, <1>2 DEF KernelKept
  <2>2. \A kind \in {"rofs", "kernel"} :
          Whole(kind, env.kernelname)' <=> Whole(kind, env.kernelname)
    BY <1>2, SteadyWhole DEF KernelKept
  <2> QED
    BY <1>2, <2>1, <2>2 DEF KernelKept, Installed
<1>3. ASSUME NEW s \in Slots, SlotKept(s), vol[s].of \notin gone
      PROVE  SlotKept(s)' /\ vol'[s] = vol[s]
  <2>1. vol'[s] = vol[s] /\ vol[s].of \in Versions
    BY <1>3 DEF SlotKept, Steady, Inv, VolumesOwned
  <2>2. Live(vol[s].of)'
    BY <1>3, <2>1 DEF SlotKept
  <2> QED
    BY <1>3, <2>1, <2>2 DEF SlotKept
<1>4. EnvKept'
  <2>1. ASSUME ~exposed'
        PROVE  KernelKept' /\ SlotKept(env.ubiblock)' /\ SlotKept(env.root)'
    <3>1. /\ KernelKept /\ SlotKept(env.ubiblock) /\ SlotKept(env.root)
          /\ env.kernelname \notin gone
          /\ vol[env.ubiblock].of \notin gone /\ vol[env.root].of \notin gone
      BY <2>1 DEF Sound, EnvKept, NamedByEnv
    <3> QED
      BY <3>1, <1>1, <1>2, <1>3
  <2>2. ASSUME NEW j \in jobs', j.unit = "vars", j.pc # 1
        PROVE  /\ KernelKept' /\ vol'[j.slot] = Volume("rofs", j.of, TRUE)
               /\ j.pc = 3 => SlotKept(env.ubiblock)'
    <3>1. j \in jobs /\ gone = {}
      BY <2>2
    <3>2. /\ KernelKept /\ vol[j.slot] = Volume("rofs", j.of, TRUE)
          /\ j.pc = 3 => SlotKept(env.ubiblock)
      BY <2>2, <3>1 DEF Sound, EnvKept
    <3>3. j.of \in Versions /\ j.slot \in Slots /\ Under("vars", j.of)
      BY <2>2, <3>1 DEF Inv, TypeOK, Units, UnitsUnderWay, Under, Flight
    <3>4. Live(j.of)
      BY <3>3 DEF Orderly, TargetsLive, Target
    <3>5. vol[j.slot].kind = "rofs" /\ vol[j.slot].of = j.of /\ vol[j.slot].whole
      BY <3>2 DEF Volume
    <3>6. SlotKept(j.slot)
      BY <3>4, <3>5 DEF SlotKept
    <3> QED
      BY <1>1, <1>2, <1>3, <3>1, <3>2, <3>3, <3>6
  <2>3. ASSUME NEW j \in jobs', j.unit = "vars", j.pc = 3
        PROVE  SlotKept(env.ubiblock)'
    <3>1. j.pc # 1
      BY <2>3
    <3> QED
      BY <2>2, <2>3, <3>1
  <2> QED
    BY <2>1, <2>2, <2>3 DEF EnvKept
<1>5. TargetsInstalled'
  <2>1. ASSUME NEW v \in Versions, Target(v)
        PROVE  Installed(v)'
    <3>1. Live(v) /\ Installed(v)
      BY <2>1 DEF Orderly, TargetsLive, Sound, TargetsInstalled
    <3>2. \A kind \in {"rofs", "kernel"} : Whole(kind, v)' <=> Whole(kind, v)
      BY <3>1, SteadyWhole
    <3> QED
      BY <3>1, <3>2 DEF Installed
  <2> QED
    BY <2>1 DEF TargetsInstalled, Installed
<1> QED
  BY <1>4, <1>5 DEF Sound

(* What keeps the boot volumes.                                             *)
Boot == Orderly /\ Counted /\ Sound

(* Nothing else is written while a version is.                              *)
LEMMA OnlyWriter ==
  ASSUME Inv, Orderly, NEW j \in jobs, j.unit = "write"
  PROVE  /\ \A u \in Flight : u.unit = "write" => u = j /\ u \notin UnitsIn(todo)
         /\ j.of \in Versions /\ Alone(j.of) /\ ~Live(j.of) /\ running # Nobody
         /\ \A v \in Versions : Live(v) => v = running
<1>1. j.of \in Versions /\ Under("write", j.of)
  BY DEF Inv, TypeOK, Units, Under, Flight
<1>2. \A u \in UnitsIn(todo) : u.unit # "write"
  BY DEF UnitsIn, Orderly, OneWriter
<1>3. \A u \in jobs : u.unit = "write" => u = j
  BY DEF Orderly, OneWriter
<1>4. running # Nobody
  BY DEF Orderly, Stopped
<1>5. Alone(j.of) /\ ~Live(j.of)
  BY <1>1 DEF Orderly, OneWriter, Live
<1>6. \A v \in Versions : Live(v) => v = running
  BY <1>4, <1>5 DEF Alone, Live
<1> QED
  BY <1>1, <1>2, <1>3, <1>4, <1>5, <1>6 DEF Flight

(* The victim is neither the version that is written nor the running one,   *)
(* and there is one rofs at most when that of the new version is made.      *)
LEMMA MakeRoomBoot ==
  ASSUME DefaultLayout, Inv, Boot, NEW j \in jobs, j.unit = "write",
         NEW kind \in {"rofs", "kernel"}, j.pc = IF kind = "rofs" THEN 1 ELSE 4,
         MakeRoom(j, kind), UNCHANGED <<running, half, used>>
  PROVE  Boot'
<1> DEFINE gone == Victim(kind, j.of)
           next == [j EXCEPT !.pc = j.pc + 1]
<1>0. /\ \A u \in Flight : u.unit = "write" => u = j /\ u \notin UnitsIn(todo)
      /\ j.of \in Versions /\ ~Live(j.of) /\ running # Nobody
      /\ \A v \in Versions : Live(v) => v = running
  BY OnlyWriter DEF Boot
<1>1. j \in Units /\ next.unit = "write" /\ next.of = j.of /\ next.pc = j.pc + 1
  BY DEF Inv, TypeOK, Units
<1>2. /\ jobs' = (jobs \ {j}) \cup {next}
      /\ vol' = [s \in Slots |-> IF s \in VolumesOf(gone) THEN Free ELSE vol[s]]
      /\ UNCHANGED <<env, act, shown, todo, ended, exposed>>
  BY DEF MakeRoom, Proceed, Removed, updater
<1> HIDE DEF next
<1>3. Orderly' /\ LiveStays /\ TargetsStay
  BY <1>1, <1>2, AdvanceOrderly DEF Boot
<1>4. /\ gone \subseteq Versions \ {running, j.of}
      /\ kind = "rofs" /\ Cardinality(SlotsOf("rofs")) >= 2 /\ Removable("rofs", j.of) # {}
           => \E s \in SlotsOf("rofs") : gone = {vol[s].of}
  <2>1. CASE Removable(kind, j.of) = {}
    BY <2>1 DEF Victim
  <2>2. CASE Removable(kind, j.of) # {}
    <3>1. First(Removable(kind, j.of)) \in Removable(kind, j.of)
      BY <2>2, FirstIn DEF Removable, SlotsOf
    <3> QED
      BY <3>1 DEF Victim, Removable, SlotsOf, Inv, VolumesOwned, DefaultLayout
  <2> QED
    BY <2>1, <2>2
<1>5. \A s \in Slots : s \in VolumesOf(gone) <=>
                         vol[s].kind \in {"rofs", "kernel"} /\ vol[s].of \in gone
  <2> TAKE s \in Slots
  <2>1. s \in VolumesOf(gone) <=> \E k \in {"rofs", "kernel"}, v \in gone : s \in Find(k, v)
    BY DEF VolumesOf
  <2> HIDE DEF gone
  <2> QED
    BY <2>1 DEF Find, SlotsOf
<1> HIDE DEF gone
<1>6. \A s \in Slots : vol'[s] = IF vol[s].kind \in {"rofs", "kernel"} /\ vol[s].of \in gone
                                 THEN Free ELSE vol[s]
  BY <1>2, <1>5
<1>7. NoneMade
  BY <1>6 DEF NoneMade, Free, Volume
<1>8. kind = "rofs" => OneRofs'
  <2> SUFFICES ASSUME kind = "rofs", NEW s \in SlotsOf("rofs")', NEW t \in SlotsOf("rofs")'
               PROVE  s = t
    BY DEF OneRofs
  <2>1. /\ s \in SlotsOf("rofs") /\ t \in SlotsOf("rofs")
        /\ vol[s].of \notin gone /\ vol[t].of \notin gone
    BY <1>6 DEF SlotsOf, Free, Volume
  <2>2. CASE Cardinality(SlotsOf("rofs")) >= 2 /\ Removable("rofs", j.of) # {}
    <3>1. PICK r \in SlotsOf("rofs") : gone = {vol[r].of}
      BY <2>2, <1>4
    <3>2. r = s \/ r = t \/ s = t
      BY <2>1 DEF Boot, Counted, TwoRofs
    <3> QED
      BY <2>1, <3>1, <3>2
  <2>3. CASE Removable("rofs", j.of) = {}
    <3>1. Find("rofs", j.of) = {}
      BY DEF Boot, Counted, Room, Flight
    <3>2. vol[s].of = running /\ vol[t].of = running
      BY <2>1, <2>3, <3>1 DEF Removable, Find
    <3> QED
      BY <2>1, <3>2 DEF Boot, Counted, RofsOnce
  <2>4. CASE ~(Cardinality(SlotsOf("rofs")) >= 2)
    <3> SUFFICES ASSUME s # t
                 PROVE  FALSE
      OBVIOUS
    <3>1. IsFiniteSet(SlotsOf("rofs")) /\ Cardinality(SlotsOf("rofs")) \in Nat
      <4>1. IsFiniteSet(Slots) /\ SlotsOf("rofs") \subseteq Slots
        <5>1. NumSlots \in Int /\ 1 \in Int
          BY FlashAssumption
        <5> QED
          BY <5>1, FS_Interval DEF Slots, SlotsOf
      <4> QED
        BY <4>1, FS_Subset, FS_CardinalityType
    <3>2. IsFiniteSet({s}) /\ Cardinality({s}) = 1
      BY FS_Singleton
    <3>3. Cardinality({s} \cup {t}) = 2
      <4>1. t \notin {s}
        OBVIOUS
      <4>2. Cardinality({s} \cup {t}) = Cardinality({s}) + 1
        BY <3>2, <4>1, FS_AddElement
      <4> QED
        BY <3>2, <4>2
    <3>4. Cardinality({s} \cup {t}) <= Cardinality(SlotsOf("rofs"))
      BY <2>1, <3>1, FS_Subset
    <3> QED
      BY <2>4, <3>1, <3>3, <3>4
  <2> QED
    BY <2>2, <2>3, <2>4
<1>9. Counted'
  <2>1. \A u \in Flight' : u.unit = "write" => u = next
    BY <1>0, <1>2 DEF Flight
  <2>2. next.pc \in {1, 2} => kind = "rofs" /\ Find("rofs", next.of) = {}
    BY <1>1 DEF Boot, Counted, Room, Flight
  <2> QED
    BY <2>1, <2>2, <1>7, <1>8, CountedShrinks DEF Boot
<1>10. Steady
  <2>1. \A v \in gone : ~Live(v)
    BY <1>0, <1>4
  <2> QED
    BY <2>1, <1>6 DEF Steady, Free, Volume
<1>11. Sound'
  <2>1. \A k \in jobs' : k.unit = "vars" => k \in jobs
    BY <1>1, <1>2
  <2> QED
    BY <2>1, <1>2, <1>3, <1>10, SoundKept DEF Boot, LiveStays, TargetsStay
<1> QED
  BY <1>3, <1>9, <1>11 DEF Boot

(* A volume is made in a free slot, and is not whole.                       *)
LEMMA CreateVolumeBoot ==
  ASSUME Inv, Boot, NEW j \in jobs, j.unit = "write",
         NEW kind \in {"rofs", "kernel"}, j.pc = IF kind = "rofs" THEN 2 ELSE 5,
         CreateVolume(j, kind), UNCHANGED <<running, half, used>>
  PROVE  Boot'
<1> DEFINE next == [j EXCEPT !.pc = j.pc + 1]
           s0 == First({s \in Slots : vol[s] = Free})
<1>0. /\ \A u \in Flight : u.unit = "write" => u = j /\ u \notin UnitsIn(todo)
      /\ j.of \in Versions /\ ~Live(j.of) /\ Alone(j.of)
  BY OnlyWriter DEF Boot
<1>1. j \in Units /\ next.unit = "write" /\ next.of = j.of /\ next.pc = j.pc + 1
  BY DEF Inv, TypeOK, Units
<1>2. /\ jobs' = (jobs \ {j}) \cup {next}
      /\ vol' = [vol EXCEPT ![s0] = Volume(kind, j.of, FALSE)]
      /\ UNCHANGED <<env, act, shown, todo, ended, exposed>>
  BY DEF CreateVolume, Proceed, Made
<1> HIDE DEF next
<1>3. s0 \in Slots /\ vol[s0] = Free
  BY FirstIn DEF CreateVolume
<1> HIDE DEF s0
<1>4. Orderly' /\ LiveStays /\ TargetsStay
  BY <1>1, <1>2, AdvanceOrderly DEF Boot
<1>5. \A s \in Slots : vol'[s] = IF s = s0 THEN Volume(kind, j.of, FALSE) ELSE vol[s]
  BY <1>2, <1>3 DEF Inv, TypeOK
<1>6. Counted'
  <2>1. \A u \in Flight' : u.unit = "write" => u = next
    BY <1>0, <1>2 DEF Flight
  <2>2. Room'
    BY <2>1, <1>1 DEF Room
  <2>3. \A s \in Slots : vol'[s].kind # "free" => vol'[s].of \in used
    BY <1>0, <1>5 DEF Boot, Counted, Volume, Alone
  <2>4. CASE kind = "kernel"
    <3>1. /\ SlotsOf("rofs")' = SlotsOf("rofs")
          /\ \A s \in SlotsOf("rofs") : vol'[s].of = vol[s].of
      BY <2>4, <1>3, <1>5 DEF SlotsOf, Free, Volume
    <3>2. RofsOnce' /\ TwoRofs'
      BY <3>1 DEF Boot, Counted, RofsOnce, TwoRofs
    <3> QED
      BY <2>2, <2>3, <3>2 DEF Counted
  <2>5. CASE kind = "rofs"
    <3>1. Find("rofs", j.of) = {} /\ OneRofs
      BY <2>5 DEF Boot, Counted, Room, Flight
    <3>2. \A s \in SlotsOf("rofs")' :
            \/ s = s0 /\ vol'[s].of = j.of
            \/ s \in SlotsOf("rofs") /\ vol'[s].of = vol[s].of /\ vol[s].of # j.of
      BY <3>1, <1>5 DEF SlotsOf, Find, Volume
    <3>3. RofsOnce' /\ TwoRofs'
      BY <3>1, <3>2 DEF OneRofs, RofsOnce, TwoRofs
    <3> QED
      BY <2>2, <2>3, <3>3 DEF Counted
  <2> QED
    BY <2>4, <2>5
<1>7. Steady
  BY <1>0, <1>3, <1>5 DEF Steady, Free, Volume
<1>8. Sound'
  <2>1. \A k \in jobs' : k.unit = "vars" => k \in jobs
    BY <1>1, <1>2
  <2> QED
    BY <2>1, <1>2, <1>4, <1>7, SoundKept DEF Boot, LiveStays, TargetsStay
<1> QED
  BY <1>4, <1>6, <1>8 DEF Boot

(* A version whose kernel is filled has both volumes.                       *)
LEMMA UpdateVolumeBoot ==
  ASSUME Inv, Boot, NEW j \in jobs, j.unit = "write",
         NEW kind \in {"rofs", "kernel"}, j.pc = IF kind = "rofs" THEN 3 ELSE 6,
         UpdateVolume(j, kind), UNCHANGED <<running, half, used>>
  PROVE  Boot'
<1> DEFINE next == [j EXCEPT !.pc = j.pc + 1]
<1>0. /\ \A u \in Flight : u.unit = "write" => u = j /\ u \notin UnitsIn(todo)
      /\ j.of \in Versions /\ ~Live(j.of)
  BY OnlyWriter DEF Boot
<1>1. j \in Units /\ next.unit = "write" /\ next.of = j.of /\ next.pc = j.pc + 1
  BY DEF Inv, TypeOK, Units
<1>2. /\ Find(kind, j.of) # {}
      /\ vol' = [s \in Slots |-> IF s \in Find(kind, j.of)
                                 THEN [vol[s] EXCEPT !.whole = TRUE] ELSE vol[s]]
      /\ kind = "kernel" => jobs' = jobs \ {j} /\ ended' = JobRemoved(j, TRUE)
      /\ kind = "rofs" => jobs' = (jobs \ {j}) \cup {next} /\ UNCHANGED ended
      /\ UNCHANGED <<env, act, shown, todo, exposed>>
  BY DEF UpdateVolume, Proceed, Filled, End
<1> HIDE DEF next
<1>3. /\ Orderly' /\ LiveStays
      /\ \A v \in Versions : Target(v)' => Target(v) \/ (kind = "kernel" /\ v = j.of)
  <2>1. CASE kind = "rofs"
    BY <2>1, <1>1, <1>2, AdvanceOrderly DEF Boot, TargetsStay
  <2>2. CASE kind = "kernel"
    <3>1. /\ jobs \ {j} \subseteq jobs' /\ \A u \in jobs' : u \in jobs \ {j}
          /\ ended' = JobRemoved(j, TRUE) /\ TRUE \in BOOLEAN
          /\ UNCHANGED <<act, shown, running, used, todo>>
      BY <2>2, <1>2
    <3> QED
      BY <2>2, <3>1, EndOrderly DEF Boot
  <2> QED
    BY <2>1, <2>2
<1>4. \A s \in Slots :
        /\ vol'[s].kind = vol[s].kind /\ vol'[s].of = vol[s].of
        /\ s \notin Find(kind, j.of) => vol'[s] = vol[s]
        /\ s \in Find(kind, j.of) => vol'[s].whole
  BY <1>2 DEF Inv, TypeOK
<1>5. Counted'
  <2>1. \A u \in Flight' : u.unit = "write" => u = next
    BY <1>0, <1>2 DEF Flight
  <2>2. NoneMade
    BY <1>4 DEF NoneMade
  <2>3. next.pc \notin {1, 2}
    BY <1>1
  <2> QED
    BY <2>1, <2>2, <2>3, CountedShrinks DEF Boot
<1>6. Steady
  BY <1>0, <1>4 DEF Steady, Find
<1>7. kind = "kernel" => Whole("kernel", j.of)'
  BY <1>2, <1>4 DEF Whole, Find, SlotsOf
<1>8. Sound'
  <2>1. \A k \in jobs' : k.unit = "vars" => k \in jobs
    BY <1>1, <1>2
  <2> QED
    BY <2>1, <1>2, <1>3, <1>6, <1>7, SoundKept DEF Boot, LiveStays
<1> QED
  BY <1>3, <1>5, <1>8 DEF Boot

(* A version that is removed is not live, so that U-Boot does not mind.     *)
LEMMA RemoveVolumesBoot ==
  ASSUME Inv, Boot, NEW j \in jobs, j.unit = "remove",
         RemoveVolumes(j), UNCHANGED <<running, half, used>>
  PROVE  Boot'
<1> DEFINE next == [j EXCEPT !.pc = j.pc + 1]
           gone == Find(IF j.pc = 1 THEN "rofs" ELSE "kernel", j.of)
<1>0. j.of \in Versions /\ ~Live(j.of)
  BY DEF Inv, TypeOK, Units, Live, Under, Flight
<1>1. next.unit = "remove" /\ next.of = j.of
  BY DEF Inv, TypeOK, Units
<1>2. /\ vol' = [s \in Slots |-> IF s \in gone THEN Free ELSE vol[s]]
      /\ \/ jobs' = (jobs \ {j}) \cup {next} /\ UNCHANGED ended
         \/ jobs' = jobs \ {j} /\ ended' = JobRemoved(j, TRUE)
      /\ UNCHANGED <<env, act, shown, todo, exposed>>
  BY DEF RemoveVolumes, Removed, Proceed, End
<1> HIDE DEF next
<1>3. \A s \in Slots : /\ s \in gone => vol[s].of = j.of /\ vol'[s] = Free
                       /\ s \notin gone => vol'[s] = vol[s]
  BY <1>2 DEF Find
<1> HIDE DEF gone
<1>4. /\ Orderly' /\ LiveStays /\ TargetsStay
  <2>1. CASE jobs' = (jobs \ {j}) \cup {next} /\ UNCHANGED ended
    BY <2>1, <1>1, <1>2, AdvanceOrderly DEF Boot
  <2>2. CASE jobs' = jobs \ {j} /\ ended' = JobRemoved(j, TRUE)
    <3>1. /\ jobs \ {j} \subseteq jobs' /\ \A u \in jobs' : u \in jobs \ {j}
          /\ ended' = JobRemoved(j, TRUE) /\ TRUE \in BOOLEAN
          /\ UNCHANGED <<act, shown, running, used, todo>>
      BY <2>2, <1>2
    <3> QED
      BY <3>1, EndOrderly DEF Boot, TargetsStay
  <2> QED
    BY <2>1, <2>2, <1>2
<1>5. NoneMade
  BY <1>3 DEF NoneMade, Free, Volume
<1>6. Counted'
  <2>1. \A u \in Flight' : u.unit = "write" => u \in Flight
    BY <1>1, <1>2 DEF Flight
  <2>2. OneRofs => OneRofs'
    BY <1>5 DEF OneRofs, NoneMade, SlotsOf
  <2> QED
    BY <2>1, <2>2, <1>5, CountedShrinks DEF Boot, Counted, Room
<1>7. Steady
  BY <1>0, <1>3 DEF Steady, Free, Volume
<1>8. Sound'
  <2>1. \A k \in jobs' : k.unit = "vars" => k \in jobs
    BY <1>1, <1>2
  <2> QED
    BY <2>1, <1>2, <1>4, <1>7, SoundKept DEF Boot, LiveStays, TargetsStay
<1> QED
  BY <1>4, <1>6, <1>8 DEF Boot

(* A step that touches neither the volumes nor the environment.             *)
LEMMA BootStays ==
  ASSUME Inv, Boot, UNCHANGED <<vol, env, half>>, used \subseteq used',
         Orderly', TargetsStay, WritersKnown,
         NEW gone, \A v \in Versions \ gone : Live(v) => Live(v)',
         ~exposed' => ~exposed /\ gone \cap NamedByEnv = {},
         \A j \in jobs' : j.unit = "vars" /\ j.pc # 1 => j \in jobs /\ gone = {}
  PROVE  Boot'
<1>1. NoneMade /\ Steady
  BY DEF NoneMade, Steady
<1>2. Counted'
  <2>1. OneRofs => OneRofs'
    BY DEF OneRofs, SlotsOf
  <2>2. \A v : v \notin used => Find("rofs", v) = {}
    BY DEF Boot, Counted, Find, SlotsOf
  <2> QED
    BY <2>1, <2>2, <1>1, CountedShrinks DEF Boot, Counted, Room, WritersKnown
<1>3. Sound'
  BY <1>1, SoundKept DEF Boot, TargetsStay
<1> QED
  BY <1>2, <1>3 DEF Boot

(* A step of the updater that erases nothing.                               *)
LEMMA BootUntouched ==
  ASSUME Inv, Boot, UNCHANGED <<vol, env, half, exposed>>, used \subseteq used',
         Orderly', LiveStays, TargetsStay, WritersKnown,
         \A j \in jobs' : j \in jobs \/ j.pc = 1 \/ j.unit # "vars"
  PROVE  Boot'
<1>1. /\ \A v \in Versions \ {} : Live(v) => Live(v)'
      /\ ~exposed' => ~exposed /\ {} \cap NamedByEnv = {}
      /\ \A j \in jobs' : j.unit = "vars" /\ j.pc # 1 => j \in jobs /\ {} = {}
  BY DEF LiveStays
<1> QED
  BY <1>1, BootStays

LEMMA SetEnvBoot ==
  ASSUME Inv, Boot, NEW j \in jobs, j.unit \in {"setenv", "clear"},
         SetEnv(j), UNCHANGED <<running, half, used>>
  PROVE  Boot'
<1>1. /\ jobs \ {j} \subseteq jobs' /\ \A u \in jobs' : u \in jobs \ {j}
      /\ ended' = JobRemoved(j, TRUE) /\ TRUE \in BOOLEAN
      /\ UNCHANGED <<vol, env, act, shown, running, used, todo, exposed>>
  BY DEF SetEnv, End
<1>2. Orderly' /\ LiveStays /\ TargetsStay
  BY <1>1, EndOrderly DEF Boot, TargetsStay
<1>3. WritersKnown
  BY <1>1 DEF WritersKnown, Flight
<1> QED
  BY <1>1, <1>2, <1>3, BootUntouched

LEMMA FailsBoot ==
  ASSUME Inv, Boot, NEW j \in jobs, Fails(j)
  PROVE  Boot'
<1>1. Unit("remove", j.of, NoPrio).unit = "remove" /\ Unit("remove", j.of, NoPrio).of = j.of
  BY DEF Unit
<1>2. /\ jobs \ {j} \subseteq jobs'
      /\ \A u \in jobs' : \/ u \in jobs \ {j}
                          \/ j.unit = "write" /\ u.unit = "remove" /\ u.of = j.of
  BY <1>1 DEF Fails, Started
<1>3. /\ ended' = JobRemoved(j, FALSE) /\ FALSE \in BOOLEAN
      /\ UNCHANGED <<vol, env, act, shown, running, used, todo, exposed, half>>
  BY DEF Fails, flash
<1>4. Orderly' /\ LiveStays /\ TargetsStay
  BY <1>2, <1>3, EndOrderly DEF Boot, TargetsStay
<1>5. WritersKnown
  BY <1>2, <1>3 DEF WritersKnown, Flight
<1> QED
  BY <1>2, <1>3, <1>4, <1>5, BootUntouched

LEMMA CarryOutBoot ==
  ASSUME Inv, Boot, CarryOut
  PROVE  Boot'
<1>1. UNCHANGED <<vol, env, half, exposed, used>>
  BY DEF CarryOut
<1>2. /\ Orderly' /\ LiveStays /\ TargetsStay /\ WritersKnown
      /\ \A j \in jobs' : j \in jobs \/ j.pc = 1
  BY CarryOutOrderly DEF Boot
<1> QED
  BY <1>1, <1>2, BootUntouched

LEMMA SetPriorityBoot ==
  ASSUME DefaultLayout, Inv, Boot, NEW v \in Versions, NEW value \in Wanted,
         SetPriority(v, value)
  PROVE  Boot'
<1>1. UNCHANGED <<vol, env, half, exposed, used, jobs>>
  BY DEF SetPriority, flash
<1>2. Orderly' /\ LiveStays /\ TargetsStay /\ WritersKnown
  BY SetPriorityOrderly DEF Boot
<1> QED
  BY <1>1, <1>2, BootUntouched

LEMMA UnitEndedBoot ==
  ASSUME Inv, Boot, NEW signal \in ended, UnitEnded(signal)
  PROVE  Boot'
<1>1. UNCHANGED <<vol, env, half, exposed, used, jobs>>
  BY DEF UnitEnded, flash
<1>2. Orderly' /\ LiveStays /\ TargetsStay /\ WritersKnown
  BY UnitEndedOrderly DEF Boot
<1> QED
  BY <1>1, <1>2, BootUntouched

(* Nothing is under way when a client calls, so that only what the          *)
(* environment names can be missed after an erase.                          *)
LEMMA EraseBoot ==
  ASSUME Inv, Boot, NEW x \in Versions,
         UNCHANGED <<vol, env, half>>, used \subseteq used',
         Orderly', LiveButFor({x}), TargetsStay, WritersKnown,
         exposed' = (exposed \/ x \in NamedByEnv), jobs' = {}
  PROVE  Boot'
<1> DEFINE gone == {x}
<1>1. \A v \in Versions \ gone : Live(v) => Live(v)'
  BY DEF LiveButFor
<1>2. ~exposed' => ~exposed /\ gone \cap NamedByEnv = {}
  OBVIOUS
<1>3. \A j \in jobs' : j.unit = "vars" /\ j.pc # 1 => j \in jobs /\ gone = {}
  OBVIOUS
<1> HIDE DEF gone
<1> QED
  BY <1>1, <1>2, <1>3, BootStays

LEMMA DeleteBoot ==
  ASSUME DefaultLayout, Inv, Boot, NEW x \in Versions, Delete(x)
  PROVE  Boot'
<1>1. /\ UNCHANGED <<vol, env, half, used, jobs>> /\ exposed' = (exposed \/ x \in NamedByEnv)
  BY DEF Delete, Erased, flash
<1>2. Orderly' /\ LiveButFor({x}) /\ TargetsStay /\ WritersKnown
  BY DeleteOrderly DEF Boot
<1>3. jobs' = {}
  BY <1>1, CalledIdle DEF Delete, Boot
<1> QED
  BY <1>1, <1>2, <1>3, EraseBoot

LEMMA UploadBoot ==
  ASSUME DefaultLayout, Inv, Boot, NEW v \in Versions, Upload(v)
  PROVE  Boot'
<1>1. UNCHANGED <<vol, env, half, jobs>> /\ used \subseteq used'
  BY DEF Upload, flash
<1>2. /\ Orderly' /\ TargetsStay /\ WritersKnown
      /\ \/ LiveStays /\ UNCHANGED exposed
         \/ \E x \in Versions : LiveButFor({x}) /\ exposed' = (exposed \/ x \in NamedByEnv)
  BY UploadOrderly DEF Boot
<1>3. jobs' = {}
  BY <1>1, CalledIdle DEF Upload, Boot
<1>4. CASE LiveStays /\ UNCHANGED exposed
  BY <1>1, <1>2, <1>3, <1>4, BootUntouched
<1>5. ASSUME NEW x \in Versions, LiveButFor({x}), exposed' = (exposed \/ x \in NamedByEnv)
      PROVE  Boot'
  BY <1>1, <1>2, <1>3, <1>5, EraseBoot
<1> QED
  BY <1>2, <1>4, <1>5

PointsTo(j, slot, next) ==
  /\ vol[slot] = Volume("rofs", j.of, TRUE) /\ (j.pc # 1 => slot = j.slot)
  /\ next.unit = "vars" /\ next.of = j.of /\ next.pc = j.pc + 1 /\ next.slot = slot
  /\ env'.kernelname = IF j.pc = 1 THEN j.of ELSE env.kernelname
  /\ env'.ubiblock = IF j.pc = 2 THEN slot ELSE env.ubiblock
  /\ env'.root = IF j.pc = 3 THEN slot ELSE env.root
  /\ j.pc = 3 => jobs' = jobs \ {j} /\ ended' = JobRemoved(j, TRUE)
  /\ j.pc # 3 => jobs' = (jobs \ {j}) \cup {next} /\ ended' = ended
  /\ exposed' = (exposed /\ j.pc < 3)
  /\ UNCHANGED <<vol, act, shown, todo>>

(* The volume of the version that is pointed at was found, and is whole.    *)
LEMMA PointUbootDoes ==
  ASSUME Inv, Boot, NEW j \in jobs, j.unit = "vars", PointUboot(j)
  PROVE  \E slot \in Slots : \E next : PointsTo(j, slot, next)
<1> DEFINE slot == IF j.pc = 1 THEN First(Find("rofs", j.of)) ELSE j.slot
           next == [j EXCEPT !.pc = j.pc + 1, !.slot = slot]
<1>1. j \in Units /\ j.pc \in 1..3 /\ j.of \in Versions
  BY DEF Inv, TypeOK, UnitsUnderWay, Units
<1>3. slot \in Slots /\ vol[slot] = Volume("rofs", j.of, TRUE)
  <2>1. CASE j.pc = 1
    <3>1. PICK s \in Find("rofs", j.of) : vol[s].whole
      BY <2>1 DEF PointUboot, Whole
    <3>2. First(Find("rofs", j.of)) \in Find("rofs", j.of)
      BY <3>1, FirstIn DEF Find, SlotsOf
    <3>3. slot = s
      BY <2>1, <3>1, <3>2 DEF Boot, Counted, RofsOnce, Find
    <3>4. s \in Slots /\ vol[s].kind = "rofs" /\ vol[s].of = j.of /\ vol[s].whole = TRUE
      BY <3>1 DEF Find, SlotsOf, Inv, TypeOK
    <3> HIDE DEF slot
    <3> QED
      BY <3>3, <3>4 DEF Volume, Inv, TypeOK
  <2>2. CASE j.pc # 1
    BY <2>2, <1>1 DEF Inv, UnitsUnderWay, Boot, Sound, EnvKept
  <2> QED
    BY <2>1, <2>2
<1>4. /\ env' = CASE j.pc = 1 -> [env EXCEPT !.kernelname = j.of]
                  [] j.pc = 2 -> [env EXCEPT !.ubiblock = slot]
                  [] j.pc = 3 -> [env EXCEPT !.root = slot]
      /\ j.pc = 3 => jobs' = jobs \ {j} /\ ended' = JobRemoved(j, TRUE)
      /\ j.pc # 3 => jobs' = (jobs \ {j}) \cup {next} /\ ended' = ended
      /\ exposed' = (exposed /\ j.pc < 3)
      /\ UNCHANGED <<vol, act, shown, todo>>
  BY DEF PointUboot, UpdateEnvVars, UpdateEnv, End
<1>5. next.unit = "vars" /\ next.of = j.of /\ next.pc = j.pc + 1 /\ next.slot = slot
  <2> DEFINE one == [j EXCEPT !.pc = j.pc + 1]
  <2>1. one.unit = "vars" /\ one.of = j.of /\ one.pc = j.pc + 1 /\ DOMAIN one = DOMAIN j
    BY <1>1 DEF Units
  <2>2. next = [one EXCEPT !.slot = slot] /\ "slot" \in DOMAIN one
    BY <1>1 DEF Units
  <2> HIDE DEF one, next, slot
  <2> QED
    BY <2>1, <2>2
<1>6. j.pc # 1 => slot = j.slot
  OBVIOUS
<1> HIDE DEF next, slot
<1>7. /\ env'.kernelname = IF j.pc = 1 THEN j.of ELSE env.kernelname
      /\ env'.ubiblock = IF j.pc = 2 THEN slot ELSE env.ubiblock
      /\ env'.root = IF j.pc = 3 THEN slot ELSE env.root
  BY <1>1, <1>4 DEF Inv, TypeOK
<1> QED
  BY <1>3, <1>4, <1>5, <1>6, <1>7 DEF PointsTo

(* The environment is pointed at a version that has all its volumes, one    *)
(* variable after the other.                                                *)
LEMMA PointUbootBoot ==
  ASSUME Inv, Boot, NEW j \in jobs, j.unit = "vars",
         PointUboot(j), UNCHANGED <<running, half, used>>
  PROVE  Boot'
<1>1. j \in Units /\ j.pc \in 1..3 /\ j.of \in Versions
  BY DEF Inv, TypeOK, UnitsUnderWay, Units
<1>2. Live(j.of) /\ Installed(j.of)
  <2>1. Target(j.of)
    BY DEF Target, Under, Flight
  <2> QED
    BY <2>1, <1>1 DEF Boot, Orderly, TargetsLive, Sound, TargetsInstalled
<1>A. PICK slot \in Slots : \E next : PointsTo(j, slot, next)
  BY PointUbootDoes
<1>0. PICK next : PointsTo(j, slot, next)
  BY <1>A
<1>3. vol[slot] = Volume("rofs", j.of, TRUE) /\ (j.pc # 1 => slot = j.slot)
  BY <1>0 DEF PointsTo
<1>4. /\ j.pc = 3 => jobs' = jobs \ {j} /\ ended' = JobRemoved(j, TRUE)
      /\ j.pc # 3 => jobs' = (jobs \ {j}) \cup {next} /\ ended' = ended
      /\ exposed' = (exposed /\ j.pc < 3)
      /\ UNCHANGED <<vol, act, shown, todo>>
  BY <1>0 DEF PointsTo
<1>5. next.unit = "vars" /\ next.of = j.of /\ next.pc = j.pc + 1 /\ next.slot = slot
  BY <1>0 DEF PointsTo
<1>6. Orderly' /\ LiveStays /\ TargetsStay
  <2>1. CASE j.pc # 3
    BY <2>1, <1>4, <1>5, AdvanceOrderly DEF Boot
  <2>2. CASE j.pc = 3
    <3>1. /\ jobs \ {j} \subseteq jobs' /\ \A u \in jobs' : u \in jobs \ {j}
          /\ ended' = JobRemoved(j, TRUE) /\ TRUE \in BOOLEAN
          /\ UNCHANGED <<act, shown, running, used, todo>>
      BY <2>2, <1>4
    <3> QED
      BY <3>1, EndOrderly DEF Boot, TargetsStay
  <2> QED
    BY <2>1, <2>2
<1>7. Counted'
  <2>1. \A u \in Flight' : u.unit = "write" => u \in Flight
    BY <1>4, <1>5 DEF Flight
  <2>2. NoneMade /\ (OneRofs => OneRofs')
    BY <1>4 DEF NoneMade, OneRofs, SlotsOf
  <2> QED
    BY <2>1, <2>2, CountedShrinks DEF Boot, Counted, Room
<1>8. \A s \in Slots : SlotKept(s) => SlotKept(s)'
  <2>1. \A s \in Slots : vol[s].kind = "rofs" => vol[s].of \in Versions
    BY DEF Inv, VolumesOwned
  <2> QED
    BY <2>1, <1>4, <1>6 DEF SlotKept, LiveStays
<1>9. SlotKept(slot)
  <2>1. vol[slot].kind = "rofs" /\ vol[slot].of = j.of /\ vol[slot].whole
    BY <1>3 DEF Volume
  <2> QED
    BY <2>1, <1>2 DEF SlotKept
<1>10. \A v : /\ Installed(v)' <=> Installed(v)
              /\ \A kind : Whole(kind, v)' <=> Whole(kind, v)
  BY <1>4 DEF Installed, Whole, Find, SlotsOf
<1>11. env.kernelname \in Versions /\ env.ubiblock \in Slots /\ env.root \in Slots
  BY DEF Inv, TypeOK
<1>12. KernelKept'
  <2>1. env'.kernelname \in Versions /\ Live(env'.kernelname)
        /\ Installed(env'.kernelname) /\ Whole("rofs", env'.kernelname)
    <3>1. CASE j.pc = 1
      <4>1. env'.kernelname = j.of
        BY <3>1, <1>0 DEF PointsTo
      <4>2. Whole("rofs", j.of)
        BY <3>1 DEF PointUboot
      <4> QED
        BY <4>1, <4>2, <1>1, <1>2
    <3>2. CASE j.pc # 1
      <4>1. env'.kernelname = env.kernelname
        BY <3>2, <1>0 DEF PointsTo
      <4>2. KernelKept
        BY <3>2 DEF Boot, Sound, EnvKept
      <4> QED
        BY <4>1, <4>2, <1>11 DEF KernelKept
    <3> QED
      BY <3>1, <3>2
  <2> QED
    BY <2>1, <1>6, <1>10 DEF KernelKept, LiveStays
<1>13. /\ env'.ubiblock = IF j.pc = 2 THEN slot ELSE env.ubiblock
       /\ env'.root = IF j.pc = 3 THEN slot ELSE env.root
  BY <1>0 DEF PointsTo
<1>14. j.pc = 3 => SlotKept(env.ubiblock)
  BY DEF Boot, Sound, EnvKept
<1>15. ~exposed' => SlotKept(env.ubiblock)' /\ SlotKept(env.root)'
  <2>1. CASE j.pc = 3
    BY <2>1, <1>3, <1>8, <1>9, <1>11, <1>13, <1>14
  <2>2. CASE j.pc # 3
    <3>1. exposed' = exposed
      BY <2>2, <1>1, <1>4 DEF Inv, TypeOK
    <3>2. ~exposed => SlotKept(env.ubiblock) /\ SlotKept(env.root)
      BY DEF Boot, Sound, EnvKept
    <3> QED
      BY <2>2, <3>1, <3>2, <1>3, <1>8, <1>9, <1>11, <1>13
  <2> QED
    BY <2>1, <2>2
<1>16. ASSUME NEW k \in jobs', k.unit = "vars", k.pc # 1
       PROVE  vol'[k.slot] = Volume("rofs", k.of, TRUE)
  <2>1. CASE k \in jobs
    BY <2>1, <1>4, <1>16 DEF Boot, Sound, EnvKept
  <2>2. CASE k \notin jobs
    BY <2>2, <1>3, <1>4, <1>5
  <2> QED
    BY <2>1, <2>2
<1>17. ASSUME NEW k \in jobs', k.unit = "vars", k.pc = 3
       PROVE  SlotKept(env.ubiblock)'
  <2>1. CASE j.pc = 2
    BY <2>1, <1>3, <1>8, <1>9, <1>13
  <2>2. CASE j.pc # 2
    <3>1. k \in jobs
      <4>1. j.pc + 1 # 3
        BY <2>2, <1>1
      <4>2. k \in jobs \/ k = next
        BY <1>4
      <4> QED
        BY <4>1, <4>2, <1>5, <1>17
    <3>2. SlotKept(env.ubiblock)
      BY <3>1, <1>17 DEF Boot, Sound, EnvKept
    <3> QED
      BY <2>2, <3>2, <1>8, <1>11, <1>13
  <2> QED
    BY <2>1, <2>2
<1>18. TargetsInstalled'
  BY <1>6, <1>10 DEF Boot, Sound, TargetsInstalled, TargetsStay
<1>19. EnvKept'
  BY <1>12, <1>15, <1>16, <1>17 DEF EnvKept
<1> QED
  BY <1>6, <1>7, <1>18, <1>19 DEF Boot, Sound

(* A step that changes nothing of all this.                                 *)
LEMMA BootUnmoved ==
  ASSUME Inv, Boot,
         UNCHANGED <<vol, env, running, act, shown, todo, jobs, ended, used, exposed, half>>
  PROVE  Boot'
<1>1. Known' = Known /\ Flight' = Flight
  BY DEF Known, Flight
<1>2. \A name, v : Under(name, v)' <=> Under(name, v)
  BY <1>1 DEF Under
<1>3. LiveStays /\ TargetsStay /\ TargetsLive'
  BY <1>1, <1>2 DEF LiveStays, TargetsStay, Live, Target, Boot, Orderly, TargetsLive
<1>4. OneWriter'
  <2>1. \A v : Alone(v)' <=> Alone(v)
    BY <1>1, <1>2 DEF Alone
  <2> QED
    BY <2>1, <1>2 DEF Boot, Orderly, OneWriter
<1>5. Stopped' /\ AtWork' /\ TwoKnown'
  BY <1>1, <1>2 DEF Boot, Orderly, Stopped, AtWork, TwoKnown
<1>6. Orderly'
  BY <1>3, <1>4, <1>5 DEF Orderly
<1>7. WritersKnown
  BY <1>1 DEF WritersKnown
<1> QED
  BY <1>3, <1>6, <1>7, BootUntouched

LEMMA StepBoot ==
  ASSUME DefaultLayout, Inv, Boot, NEW j \in jobs, Step(j)
  PROVE  Boot'
<1>1. UNCHANGED <<running, half, used>>
  BY DEF Step
<1>2. CASE j.unit = "write" /\ WriteImages(j)
  BY <1>1, <1>2, MakeRoomBoot, CreateVolumeBoot, UpdateVolumeBoot DEF WriteImages
<1>3. CASE j.unit = "remove" /\ RemoveVolumes(j)
  BY <1>1, <1>3, RemoveVolumesBoot
<1>4. CASE j.unit = "vars" /\ PointUboot(j)
  BY <1>1, <1>4, PointUbootBoot
<1>5. CASE j.unit \in {"setenv", "clear"} /\ SetEnv(j)
  BY <1>1, <1>5, SetEnvBoot
<1> QED
  BY <1>2, <1>3, <1>4, <1>5 DEF Step

(* What a restart leaves under way is of the versions that are found.       *)
LEMMA RestartUnits ==
  ASSUME Inv, Restart
  PROVE  /\ Flight' = UnitsIn(todo')
         /\ \A u \in Flight' : Bootable /\ u.of \in Mounted \cup {Booted}
                               /\ u.unit \in {"setenv", "vars"}
<1> DEFINE All == {Save(v, shown'[v]) : v \in Mounted \cup {Booted}}
                    \cup {Start(Unit("vars", v, NoPrio)) : v \in Mounted \cup {Booted}}
<1>1. jobs' = {} /\ todo' \in Seq(All) /\ (~Bootable => todo' = <<>>)
  BY RestartEffects
<1>2. Flight' = UnitsIn(todo')
  BY <1>1 DEF Flight
<1>3. \A e \in All : e.unit.of \in Mounted \cup {Booted} /\ e.unit.unit \in {"setenv", "vars"}
  BY DEF Save, Start, Unit
<1> HIDE DEF All
<1>4. \A i \in 1..Len(todo') : todo'[i] \in All
  BY <1>1
<1> QED
  BY <1>1, <1>2, <1>3, <1>4 DEF UnitsIn

(* There are two images of the read-only file system at most, so that the   *)
(* versions that are found after a restart are the running one and one      *)
(* other; if both images are whole all versions are found.                  *)
LEMMA RestartBoot ==
  ASSUME Inv, Boot, Restart
  PROVE  Boot'
<1> DEFINE rofs == SlotsOf("rofs")
<1>1. /\ running' = Booted /\ jobs' = {} /\ ended' = {}
      /\ act' = [v \in Versions |-> IF Bootable /\ v \in Mounted \cup {Booted}
                                    THEN "active" ELSE "absent"]
      /\ located' = {v \in Versions : act'[v] # "absent"}
      /\ \A v \in Versions : act'[v] = "absent" => shown'[v] = NoPrio
      /\ half' = {v \in Versions : Whole("rofs", v) /\ ~Whole("kernel", v)}
      /\ exposed' = (exposed /\ ~(Bootable /\ NamedByEnv \subseteq located'))
      /\ UNCHANGED <<vol, env, used>>
  BY DEF Restart
<1>2. /\ env.kernelname \in Versions /\ env.ubiblock \in Slots /\ env.root \in Slots
      /\ \A s \in rofs : s \in Slots /\ vol[s].kind = "rofs"
                         /\ vol[s].of \in Versions /\ vol[s].of \in used
  BY DEF Inv, TypeOK, SlotsOf, VolumesOwned, Boot, Counted
<1>3. Bootable => /\ env.root \in rofs /\ vol[env.root].whole /\ env.ubiblock = env.root
                  /\ Booted = vol[env.root].of /\ Booted \in Versions /\ Booted # Nobody
                  /\ Whole("kernel", env.kernelname)
  BY <1>2, FlashAssumption DEF Bootable, Booted, SlotsOf
<1>4. ~Bootable => Booted = Nobody
  BY DEF Booted
<1>5. /\ Mounted \subseteq {vol[s].of : s \in rofs}
      /\ (\A s \in rofs : vol[s].whole) => Mounted = {vol[s].of : s \in rofs}
      /\ \A v \in Mounted : \E s \in rofs : vol[s].of = v /\ vol[s].whole
  <2>1. Mounted \subseteq {vol[s].of : s \in rofs}
    BY DEF Mounted
  <2>2. ASSUME \A s \in rofs : vol[s].whole
        PROVE  Mounted = {vol[s].of : s \in rofs}
    <3>1. Damaged = {}
      BY <2>2 DEF Damaged
    <3> QED
      BY <3>1 DEF Mounted
  <2>3. ASSUME NEW v \in Mounted
        PROVE  \E s \in rofs : vol[s].of = v /\ vol[s].whole
    <3>1. PICK s \in rofs : vol[s].of = v /\ (Damaged = {} \/ s < First(Damaged))
      BY DEF Mounted
    <3>2. ASSUME s \in Damaged
          PROVE  FALSE
      <4>1. First(Damaged) \in Slots /\ First(Damaged) <= s
        BY <3>2, <1>2, FirstIn DEF Damaged, SlotsOf
      <4> QED
        BY <3>1, <3>2, <4>1, <1>2, FlashAssumption DEF Slots
    <3> QED
      BY <3>1, <3>2 DEF Damaged
  <2> QED
    BY <2>1, <2>2, <2>3
<1>6. Known' = IF Bootable THEN Mounted \cup {Booted} ELSE {}
  <2>1. Mounted \subseteq Versions
    BY <1>2, <1>5
  <2> QED
    BY <2>1, <1>1, <1>3 DEF Known
<1>7. /\ \A u \in Flight' : /\ Bootable /\ u.of \in Mounted \cup {Booted}
                            /\ u.unit \in {"setenv", "vars"}
      /\ Flight' = UnitsIn(todo') /\ (~Bootable => todo' = <<>>)
  BY RestartUnits, RestartEffects
<1>8. \A v : ~Under("write", v)' /\ ~Under("remove", v)'
  BY <1>7 DEF Under
<1> HIDE DEF rofs
<1>9. Stopped'
  BY <1>1, <1>3, <1>4, <1>7 DEF Stopped
<1>10. AtWork'
  BY <1>1 DEF AtWork
<1>11. TwoKnown'
  <2>1. Known' \subseteq used'
    BY <1>1, <1>2, <1>3, <1>5, <1>6
  <2>2. running' # Nobody => running' \in Known'
    BY <1>1, <1>4, <1>6
  <2>3. ASSUME NEW v \in Known' \ {running'}, NEW w \in Known' \ {running'}
        PROVE  v = w
    <3>1. Bootable /\ v \in Mounted /\ w \in Mounted /\ v # Booted /\ w # Booted
      BY <2>3, <1>1, <1>6
    <3>2. PICK s \in rofs, t \in rofs : vol[s].of = v /\ vol[t].of = w
      BY <3>1, <1>5
    <3>3. s = t \/ s = env.root \/ t = env.root
      BY <3>1, <3>2, <1>3 DEF Boot, Counted, TwoRofs, rofs
    <3> QED
      BY <3>1, <3>2, <3>3, <1>3
  <2> QED
    BY <2>1, <2>2, <2>3 DEF TwoKnown
<1>12. OneWriter'
  <2>1. \A i \in 1..Len(todo') : todo'[i].unit.unit # "write"
    BY <1>7 DEF UnitsIn
  <2> QED
    BY <2>1, <1>1, <1>8 DEF OneWriter
<1>13. TargetsLive'
  <2> SUFFICES ASSUME NEW v \in Versions, Target(v)'
               PROVE  v \in Known'
    BY <1>8 DEF TargetsLive, Live
  <2>1. shown'[v] # NoPrio => v \in Known'
    BY <1>1 DEF Known
  <2>2. Under("vars", v)' => v \in Known'
    BY <1>6, <1>7 DEF Under
  <2> QED
    BY <2>1, <2>2, <1>1 DEF Target
<1>14. Counted'
  <2>1. NoneMade
    BY <1>1 DEF NoneMade
  <2> QED
    BY <2>1, <1>1, <1>7, CountedShrinks DEF Boot
<1>15. TargetsInstalled' /\ Installed(env.kernelname)'
  <2>1. \A v \in Versions : Installed(v)'
    BY <1>1 DEF Installed, Whole, Find, SlotsOf
  <2> QED
    BY <2>1, <1>1, <1>2 DEF TargetsInstalled
<1>16. \A v : Live(v)' <=> (Bootable => v \in Known')
  BY <1>1, <1>3, <1>4, <1>8 DEF Live
<1>17. ASSUME ~exposed'
       PROVE  /\ Whole("rofs", env.kernelname)
              /\ Bootable => env.kernelname \in Known'
              /\ \A s \in {env.ubiblock, env.root} :
                   /\ vol[s].kind = "rofs" /\ vol[s].whole
                   /\ Bootable => vol[s].of \in Known'
  <2>1. CASE ~exposed
    <3>1. /\ Whole("rofs", env.kernelname)
          /\ \A s \in {env.ubiblock, env.root} : vol[s].kind = "rofs" /\ vol[s].whole
      BY <2>1 DEF Boot, Sound, EnvKept, KernelKept, SlotKept
    <3>2. Bootable => env.kernelname \in Known'
      <4> SUFFICES ASSUME Bootable
                   PROVE  env.kernelname \in Known'
        OBVIOUS
      <4>1. PICK s \in rofs : vol[s].whole /\ vol[s].of = env.kernelname
        BY <3>1 DEF Whole, Find, rofs
      <4>2. CASE s = env.root
        BY <4>1, <4>2, <1>3, <1>6
      <4>3. CASE s # env.root
        <5>1. \A t \in rofs : t = s \/ t = env.root
          BY <4>3, <1>3 DEF Boot, Counted, TwoRofs, rofs
        <5>2. \A t \in rofs : vol[t].whole
          BY <5>1, <4>1, <1>3
        <5> QED
          BY <4>1, <5>2, <1>5, <1>6
      <4> QED
        BY <4>2, <4>3
    <3>3. Bootable => vol[env.root].of \in Known' /\ vol[env.ubiblock].of \in Known'
      BY <1>3, <1>6
    <3> QED
      BY <3>1, <3>2, <3>3
  <2>2. CASE exposed
    <3>1. Bootable /\ NamedByEnv \subseteq Known'
      BY <2>2, <1>17, <1>1 DEF Known
    <3>2. env.kernelname \in Known' /\ vol[env.root].of \in Known'
      BY <3>1 DEF NamedByEnv
    <3>3. \E s \in rofs : vol[s].of = env.kernelname /\ vol[s].whole
      BY <3>1, <3>2, <1>3, <1>5, <1>6
    <3>4. Whole("rofs", env.kernelname)
      BY <3>3 DEF Whole, Find, rofs
    <3> QED
      BY <3>1, <3>2, <3>4, <1>2, <1>3
  <2> QED
    BY <2>1, <2>2
<1>18. EnvKept'
  <2>1. Whole("rofs", env.kernelname)' <=> Whole("rofs", env.kernelname)
    BY <1>1 DEF Whole, Find, SlotsOf
  <2>2. ~exposed' => KernelKept'
    BY <2>1, <1>1, <1>15, <1>16, <1>17 DEF KernelKept
  <2>3. ~exposed' => SlotKept(env.ubiblock)' /\ SlotKept(env.root)'
    BY <1>1, <1>16, <1>17 DEF SlotKept
  <2> QED
    BY <2>2, <2>3, <1>1 DEF EnvKept
<1> QED
  BY <1>9, <1>10, <1>11, <1>12, <1>13, <1>14, <1>15, <1>18 DEF Boot, Orderly, Sound

(* The BMC is delivered with one version, which it runs.                    *)
LEMMA InitBoot == Init => Boot
<1> SUFFICES ASSUME Init PROVE Boot
  OBVIOUS
<1>1. 1 \in Slots /\ 2 \in Slots /\ NoPrio # 0
  BY FlashAssumption DEF Slots, NoPrio
<1>2. PICK v \in Versions :
        /\ vol = [s \in Slots |-> CASE s = 1 -> Volume("rofs", v, TRUE)
                                    [] s = 2 -> Volume("kernel", v, TRUE)
                                    [] OTHER -> Free]
        /\ env = [kernelname |-> v, ubiblock |-> 1, root |-> 1]
        /\ running = v
        /\ act = [w \in Versions |-> IF w = v THEN "active" ELSE "absent"]
        /\ shown = [w \in Versions |-> IF w = v THEN 0 ELSE NoPrio]
        /\ todo = <<Save(v, 0)>> /\ jobs = {} /\ ended = {}
        /\ exposed = FALSE /\ half = {} /\ used = {v}
  BY DEF Init
<1>3. Known = {v} /\ Flight = {Unit("setenv", v, 0)} /\ v # Nobody
  BY <1>2, UnitsInOne, FlashAssumption DEF Known, Flight, Save
<1>4. /\ \A name, w : Under(name, w) => name = "setenv"
      /\ \A i \in 1..Len(todo) : todo[i].unit.unit = "setenv"
  BY <1>2, <1>3 DEF Under, Unit, Save
<1>5. Live(v) /\ \A w \in Versions : Target(w) => w = v
  BY <1>2, <1>3, <1>4 DEF Live, Target
<1>6. Orderly
  BY <1>2, <1>3, <1>4, <1>5
     DEF Orderly, Stopped, AtWork, TwoKnown, OneWriter, TargetsLive
<1>7. /\ vol[1].kind = "rofs" /\ vol[1].of = v /\ vol[1].whole
      /\ vol[2].kind = "kernel" /\ vol[2].of = v /\ vol[2].whole
      /\ \A s \in Slots \ {1, 2} : vol[s].kind = "free"
  BY <1>1, <1>2 DEF Volume, Free
<1>8. SlotsOf("rofs") = {1}
  BY <1>1, <1>7 DEF SlotsOf
<1>9. Counted
  <2>1. \A s \in Slots : vol[s].kind # "free" => vol[s].of \in used
    BY <1>2, <1>7
  <2>2. \A u \in Flight : u.unit # "write"
    BY <1>3 DEF Unit
  <2> QED
    BY <2>1, <2>2, <1>8 DEF Counted, RofsOnce, TwoRofs, Room
<1>10. Whole("rofs", v) /\ Whole("kernel", v)
  BY <1>1, <1>7 DEF Whole, Find, SlotsOf
<1>11. Sound
  <2>1. env.kernelname = v /\ env.ubiblock = 1 /\ env.root = 1
    BY <1>2
  <2>3. KernelKept
    BY <2>1, <1>5, <1>10 DEF KernelKept, Installed
  <2>4. SlotKept(1)
    BY <1>5, <1>7 DEF SlotKept
  <2>2. TargetsInstalled
    BY <1>5, <1>10 DEF TargetsInstalled, Installed
  <2> QED
    BY <1>2, <2>1, <2>2, <2>3, <2>4 DEF Sound, EnvKept
<1> QED
  BY <1>6, <1>9, <1>11 DEF Boot

LEMMA NextBoot ==
  ASSUME DefaultLayout, Inv, Boot, Next
  PROVE  Boot'
<1>1. CASE \E j \in jobs : Step(j) \/ Fails(j)
  BY <1>1, StepBoot, FailsBoot
<1>2. CASE CarryOut
  BY <1>2, CarryOutBoot
<1>3. ASSUME NEW v \in Versions,
             Upload(v) \/ Delete(v) \/ \E value \in Wanted : SetPriority(v, value)
      PROVE  Boot'
  BY <1>3, UploadBoot, DeleteBoot, SetPriorityBoot
<1>4. CASE FactoryReset
  BY <1>4, BootUnmoved DEF FactoryReset, updater
<1>5. CASE \E signal \in ended : UnitEnded(signal)
  BY <1>5, UnitEndedBoot
<1>6. CASE Restart
  BY <1>6, RestartBoot
<1> QED
  BY <1>1, <1>2, <1>3, <1>4, <1>5, <1>6 DEF Next

LEMMA BootInvariant ==
  ASSUME DefaultLayout
  PROVE  Spec => []Boot
<1>1. Inv /\ Boot /\ [Next]_vars => Boot'
  BY NextBoot, BootUnmoved DEF vars, flash, updater
<1> QED
  BY InitBoot, <1>1, Invariant, PTL DEF Spec

(* However many versions are uploaded one after the other, and wherever     *)
(* units fail or the power is lost, the environment names volumes that are  *)
(* there and whole: the image that is removed to make room is never the one *)
(* that U-Boot would start (item_updater.cpp freeSpace, obmc-flash-bmc      *)
(* ubi_remove_volumes), because with two versions it is that of no          *)
(* version the updater knows.                                               *)
THEOREM BootKept ==
  ASSUME DefaultLayout
  PROVE  Spec => []BootVolumesKept
<1>1. Boot => BootVolumesKept
  <2> SUFFICES ASSUME Boot, ~exposed, NamedByEnv \cap half = {}
               PROVE  /\ Whole("kernel", env.kernelname)
                      /\ \A s \in {env.ubiblock, env.root} :
                           vol[s].kind = "rofs" /\ vol[s].whole
    BY DEF BootVolumesKept
  <2>1. KernelKept /\ SlotKept(env.ubiblock) /\ SlotKept(env.root)
    BY DEF Boot, Sound, EnvKept
  <2>2. Whole("kernel", env.kernelname)
    BY <2>1 DEF KernelKept, Installed, NamedByEnv
  <2> QED
    BY <2>1, <2>2 DEF SlotKept
<1> QED
  BY <1>1, BootInvariant, PTL

----------------------------------------------------------------------------
(* The version that was activated last is booted next.                      *)

NoneFinishing == \A v \in Versions : act[v] # "finishing"

NoVars(effects) == \A u \in UnitsIn(effects) : u.unit # "vars"

(* One version at a time is written, waits for the handler of its unit or   *)
(* is pointed at.                                                           *)
OnePhase ==
  /\ \A v \in Versions : Under("write", v) => ended = {} /\ NoneFinishing
  /\ \A g \in ended : g.unit = "write" =>
       ended = {g} /\ NoneFinishing /\ ~Under("vars", g.of)

(* The environment is set once for a version that is activated.             *)
VarsLast ==
  \A v \in Versions : act[v] = "finishing" =>
    /\ \A i \in 1..Len(todo) : todo[i].unit.unit = "vars" => i = Len(todo)
    /\ (\E j \in Pointing : j.of = v) => NoVars(todo)

Unspoilt ==
  /\ half \subseteq used
  /\ \A v \in half : act[v] \notin {"writing", "finishing"}
  /\ \A g \in ended : g.of \notin half

(* The environment follows a unit that runs alone.                          *)
EnvFollows ==
  ~mixed => \A j \in Pointing : /\ j.pc # 1 => env.kernelname = j.of
                                /\ j.pc = 3 => env.ubiblock = j.slot

PointsAt(v) ==
  ~exposed /\ env.kernelname = v /\ env.ubiblock = env.root /\ vol[env.root].of = v

Arrived ==
  \A g \in ended : g.unit = "vars" /\ act[g.of] = "finishing" =>
    NoVars(todo) /\ (g.done /\ ~mixed => Pointing = {} /\ PointsAt(g.of))

Settled == OnePhase /\ VarsLast /\ Unspoilt /\ EnvFollows /\ Arrived

(* What a unit does to the queues.                                          *)
LEMMA StepGoes ==
  ASSUME Inv, Boot, NEW j \in jobs, Step(j)
  PROVE  /\ \/ /\ \E next : /\ next.unit = j.unit /\ next.of = j.of
                            /\ jobs' = (jobs \ {j}) \cup {next}
               /\ UNCHANGED ended
            \/ jobs' = jobs \ {j} /\ ended' = JobRemoved(j, TRUE)
         /\ j.unit # "vars" => UNCHANGED <<env, exposed, mixed>>
         /\ UNCHANGED <<act, todo, half, used>>
<1> DEFINE next == [j EXCEPT !.pc = j.pc + 1]
<1>1. next.unit = j.unit /\ next.of = j.of
  BY DEF Inv, TypeOK, Units
<1>2. Proceed(j) => jobs' = (jobs \ {j}) \cup {next}
  BY DEF Proceed
<1>3. UNCHANGED <<half, used>> /\ (j.unit # "vars" => mixed' = mixed)
  BY DEF Step, Inv, TypeOK
<1> HIDE DEF next
<1>4. CASE j.unit = "write" /\ WriteImages(j)
  BY <1>1, <1>2, <1>3, <1>4
     DEF WriteImages, MakeRoom, CreateVolume, UpdateVolume, End, updater
<1>5. CASE j.unit = "remove" /\ RemoveVolumes(j)
  BY <1>1, <1>2, <1>3, <1>5 DEF RemoveVolumes, End
<1>6. CASE j.unit = "vars" /\ PointUboot(j)
  <2>1. PICK slot \in Slots : \E after : PointsTo(j, slot, after)
    BY <1>6, PointUbootDoes
  <2>2. PICK after : PointsTo(j, slot, after)
    BY <2>1
  <2> QED
    BY <2>2, <1>3, <1>6 DEF PointsTo
<1>7. CASE j.unit \in {"setenv", "clear"} /\ SetEnv(j)
  BY <1>3, <1>7 DEF SetEnv, End
<1> QED
  BY <1>4, <1>5, <1>6, <1>7 DEF Step

(* A unit goes on, ends or fails.                                           *)
LEMMA AdvanceSettled ==
  ASSUME Settled, NEW j \in jobs, NEW next,
         next.unit = j.unit, next.of = j.of, jobs' = (jobs \ {j}) \cup {next},
         UNCHANGED <<act, todo, half, used, ended>>
  PROVE  OnePhase' /\ VarsLast' /\ Unspoilt'
<1>1. \A name, v : Under(name, v)' <=> Under(name, v)
  BY DEF Under, Flight
<1>2. NoneFinishing' <=> NoneFinishing
  BY DEF NoneFinishing
<1>3. OnePhase'
  BY <1>1, <1>2 DEF Settled, OnePhase
<1>4. \A v : (\E k \in Pointing' : k.of = v) <=> (\E k \in Pointing : k.of = v)
  BY DEF Pointing
<1>5. NoVars(todo)' <=> NoVars(todo)
  BY DEF NoVars
<1>6. VarsLast'
  BY <1>4, <1>5 DEF Settled, VarsLast
<1>7. Unspoilt'
  BY DEF Settled, Unspoilt
<1> QED
  BY <1>3, <1>6, <1>7

LEMMA EndSettled ==
  ASSUME Inv, Orderly, Settled, NEW j \in jobs, NEW done \in BOOLEAN,
         jobs \ {j} \subseteq jobs',
         \A u \in jobs' : \/ u \in jobs \ {j}
                          \/ /\ j.unit = "write" /\ ~done
                             /\ u.unit = "remove" /\ u.of = j.of,
         ended' = JobRemoved(j, done),
         UNCHANGED <<act, todo, half, used>>
  PROVE  /\ OnePhase' /\ VarsLast' /\ Unspoilt'
         /\ \A g \in ended' : \/ g \in ended
                              \/ g = Signal(j.unit, j.of, done) /\ Waits(g)
<1>0. j.of \in Versions /\ Under(j.unit, j.of)
  BY DEF Inv, TypeOK, Units, Under, Flight
<1>1. \A g \in ended' : g \in ended \/ (g = Signal(j.unit, j.of, done) /\ Waits(g))
  BY DEF JobRemoved, Signal
<1>2. Signal(j.unit, j.of, done).unit = j.unit /\ Signal(j.unit, j.of, done).of = j.of
  BY DEF Signal
<1>3. \A name, v : Under(name, v)' /\ name # "remove" => Under(name, v)
  BY DEF Under, Flight
<1>4. NoneFinishing' <=> NoneFinishing
  BY DEF NoneFinishing
<1>5. ASSUME NEW v \in Versions, Under("write", v)'
      PROVE  ended' = {} /\ NoneFinishing
  <2>1. j.unit # "write"
    <3> SUFFICES ASSUME j.unit = "write"
                 PROVE  FALSE
      OBVIOUS
    <3>1. PICK u \in Flight' : u.unit = "write" /\ u.of = v
      BY <1>5 DEF Under
    <3>2. \A k \in jobs' : k.unit # "write"
      BY OnlyWriter DEF Flight
    <3>3. \A k \in UnitsIn(todo) : k.unit # "write"
      BY OnlyWriter DEF Flight
    <3> QED
      BY <3>1, <3>2, <3>3 DEF Flight
  <2>2. ended = {} /\ NoneFinishing
    BY <1>3, <1>5 DEF Settled, OnePhase
  <2>3. \A g \in ended' : FALSE
    BY <2>1, <2>2, <1>0, <1>1, <1>2 DEF Waits, NoneFinishing
  <2> QED
    BY <2>2, <2>3
<1>6. ASSUME NEW g \in ended', g.unit = "write"
      PROVE  ended' = {g} /\ NoneFinishing /\ ~Under("vars", g.of)'
  <2>1. CASE g \in ended
    <3>1. ended = {g} /\ NoneFinishing /\ ~Under("vars", g.of)
      BY <2>1, <1>6 DEF Settled, OnePhase
    <3>2. j.unit # "write"
      BY <3>1, <1>0 DEF Settled, OnePhase
    <3>3. ended' = {g}
      BY <3>1, <3>2, <1>0, <1>1, <1>2 DEF Waits, NoneFinishing, JobRemoved
    <3> QED
      BY <3>1, <3>3, <1>3
  <2>2. CASE g \notin ended
    <3>1. g = Signal(j.unit, j.of, done) /\ j.unit = "write" /\ g.of = j.of
      BY <2>2, <1>1, <1>2, <1>6
    <3>2. ended = {} /\ NoneFinishing
      BY <3>1, <1>0 DEF Settled, OnePhase
    <3>3. ended' = {g}
      BY <3>1, <3>2, <1>1, <1>6
    <3>4. ~Under("vars", j.of)
      BY <3>1, <1>0 DEF Orderly, TargetsLive, Target, Live
    <3> QED
      BY <3>1, <3>2, <3>3, <3>4, <1>3
  <2> QED
    BY <2>1, <2>2
<1>7. OnePhase'
  BY <1>4, <1>5, <1>6 DEF OnePhase
<1>8. VarsLast'
  <2>1. Pointing' \subseteq Pointing
    BY DEF Pointing
  <2>2. NoVars(todo)' <=> NoVars(todo)
    BY DEF NoVars
  <2> QED
    BY <2>1, <2>2 DEF Settled, VarsLast
<1>9. Unspoilt'
  <2>1. \A g \in ended' : g.of \notin half
    BY <1>1, <1>2 DEF Settled, Unspoilt, Waits
  <2> QED
    BY <2>1 DEF Settled, Unspoilt
<1> QED
  BY <1>1, <1>7, <1>8, <1>9

(* A unit that does not set the environment.                                *)
LEMMA OthersSettled ==
  ASSUME Inv, Boot, Boot', Settled, NEW j \in jobs, j.unit # "vars", Step(j)
  PROVE  Settled'
<1>1. UNCHANGED <<act, todo, half, used, env, exposed, mixed>>
  BY StepGoes
<1>2. /\ OnePhase' /\ VarsLast' /\ Unspoilt' /\ Pointing' = Pointing
      /\ \A g \in ended' : g.unit = "vars" => g \in ended
  <2>1. ASSUME NEW next, next.unit = j.unit, next.of = j.of,
               jobs' = (jobs \ {j}) \cup {next}, UNCHANGED ended
        PROVE  /\ OnePhase' /\ VarsLast' /\ Unspoilt' /\ Pointing' = Pointing
               /\ \A g \in ended' : g.unit = "vars" => g \in ended
    <3>1. Pointing' = Pointing
      BY <2>1 DEF Pointing
    <3> QED
      BY <2>1, <3>1, <1>1, AdvanceSettled
  <2>2. CASE jobs' = jobs \ {j} /\ ended' = JobRemoved(j, TRUE)
    <3>1. /\ jobs \ {j} \subseteq jobs' /\ \A u \in jobs' : u \in jobs \ {j}
          /\ ended' = JobRemoved(j, TRUE) /\ TRUE \in BOOLEAN
      BY <2>2
    <3>2. /\ OnePhase' /\ VarsLast' /\ Unspoilt'
          /\ \A g \in ended' : \/ g \in ended
                               \/ g = Signal(j.unit, j.of, TRUE) /\ Waits(g)
      BY <3>1, <1>1, EndSettled DEF Boot
    <3>3. \A g \in ended' : g.unit = "vars" => g \in ended
      BY <3>2 DEF Signal
    <3>4. Pointing' = Pointing
      BY <2>2 DEF Pointing
    <3> QED
      BY <3>2, <3>3, <3>4
  <2> QED
    BY <2>1, <2>2, StepGoes
<1>3. ASSUME NEW v, PointsAt(v), ended # {}
      PROVE  PointsAt(v)'
  <2>1. env.root \in Slots /\ vol'[env.root].kind = "rofs"
    BY <1>1, <1>3 DEF PointsAt, Boot, Sound, EnvKept, SlotKept, Inv, TypeOK
  <2>2. CASE j.unit = "write"
    <3>1. Under("write", j.of) /\ j.of \in Versions
      BY <2>2 DEF Under, Flight, Inv, TypeOK, Units
    <3> QED
      BY <3>1, <1>3 DEF Settled, OnePhase
  <2>3. CASE j.unit = "remove" /\ RemoveVolumes(j)
    <3>1. vol'[env.root] = Free \/ vol'[env.root] = vol[env.root]
      BY <2>1, <2>3 DEF RemoveVolumes, Removed
    <3> QED
      BY <3>1, <2>1, <1>1, <1>3 DEF PointsAt, Free, Volume
  <2>4. CASE j.unit \in {"setenv", "clear"} /\ SetEnv(j)
    BY <2>4, <1>1, <1>3 DEF SetEnv, PointsAt
  <2> QED
    BY <2>2, <2>3, <2>4 DEF Step
<1>4. NoVars(todo)' <=> NoVars(todo)
  BY <1>1 DEF NoVars
<1>5. Arrived'
  BY <1>1, <1>2, <1>3, <1>4 DEF Settled, Arrived
<1>6. EnvFollows'
  BY <1>1, <1>2 DEF Settled, EnvFollows
<1> QED
  BY <1>2, <1>5, <1>6 DEF Settled

(* The unit that sets the environment, if no other one runs.                *)
LEMMA PointUbootSettled ==
  ASSUME Inv, Boot, Settled, NEW j \in jobs, j.unit = "vars", Step(j)
  PROVE  Settled'
<1>1. /\ PointUboot(j) /\ mixed' = (mixed \/ Pointing \ {j} # {})
      /\ UNCHANGED <<act, todo, half, used>>
  BY StepGoes DEF Step
<1>A. PICK slot \in Slots : \E next : PointsTo(j, slot, next)
  BY <1>1, PointUbootDoes
<1>0. PICK next : PointsTo(j, slot, next)
  BY <1>A
<1>2. /\ vol[slot] = Volume("rofs", j.of, TRUE) /\ (j.pc # 1 => slot = j.slot)
      /\ next.unit = "vars" /\ next.of = j.of /\ next.pc = j.pc + 1 /\ next.slot = slot
      /\ env'.kernelname = IF j.pc = 1 THEN j.of ELSE env.kernelname
      /\ env'.ubiblock = IF j.pc = 2 THEN slot ELSE env.ubiblock
      /\ env'.root = IF j.pc = 3 THEN slot ELSE env.root
      /\ j.pc = 3 => jobs' = jobs \ {j} /\ ended' = JobRemoved(j, TRUE)
      /\ j.pc # 3 => jobs' = (jobs \ {j}) \cup {next} /\ ended' = ended
      /\ exposed' = (exposed /\ j.pc < 3)
      /\ UNCHANGED <<vol, act, shown, todo>>
  BY <1>0 DEF PointsTo
<1>3. j.pc \in 1..3 /\ j \in Pointing /\ j.of \in Versions
  BY DEF Inv, UnitsUnderWay, Pointing, TypeOK, Units
<1>4. mixed' = FALSE => /\ mixed = FALSE /\ Pointing = {j}
                        /\ Pointing' = IF j.pc = 3 THEN {} ELSE {next}
  <2>1. mixed' = FALSE => mixed = FALSE /\ Pointing = {j}
    <3>1. mixed \in BOOLEAN
      BY DEF Inv, TypeOK
    <3> QED
      BY <3>1, <1>1, <1>3
  <2> QED
    BY <2>1, <1>2 DEF Pointing
<1>5. ~mixed => /\ j.pc # 1 => env.kernelname = j.of
                /\ j.pc = 3 => env.ubiblock = slot
  <2>1. j.pc = 3 => j.pc # 1
    OBVIOUS
  <2> QED
    BY <2>1, <1>2, <1>3 DEF Settled, EnvFollows
<1>6. EnvFollows'
  <2> SUFFICES ASSUME ~mixed', NEW k \in Pointing'
               PROVE  /\ k.pc # 1 => env'.kernelname = k.of
                      /\ k.pc = 3 => env'.ubiblock = k.slot
    BY DEF EnvFollows
  <2>1. ~mixed /\ k = next /\ j.pc # 3
    BY <1>4
  <2>2. env'.kernelname = j.of
    BY <2>1, <1>2, <1>5
  <2>3. k.pc = 3 => j.pc = 2
    BY <2>1, <1>2, <1>3
  <2> QED
    BY <2>1, <2>2, <2>3, <1>2
<1>7. NoVars(todo)' <=> NoVars(todo)
  BY <1>1 DEF NoVars
<1>8. CASE j.pc # 3
  <2>1. OnePhase' /\ VarsLast' /\ Unspoilt'
    BY <1>1, <1>2, <1>8, AdvanceSettled
  <2>2. Arrived'
    BY <1>1, <1>2, <1>3, <1>4, <1>7, <1>8 DEF Settled, Arrived
  <2> QED
    BY <2>1, <2>2, <1>6 DEF Settled
<1>9. CASE j.pc = 3
  <2>1. /\ jobs \ {j} \subseteq jobs' /\ \A u \in jobs' : u \in jobs \ {j}
        /\ ended' = JobRemoved(j, TRUE) /\ TRUE \in BOOLEAN
    BY <1>2, <1>9
  <2>2. /\ OnePhase' /\ VarsLast' /\ Unspoilt'
        /\ \A g \in ended' : \/ g \in ended
                             \/ g = Signal(j.unit, j.of, TRUE) /\ Waits(g)
    BY <2>1, <1>1, EndSettled DEF Boot
  <2>3. Arrived'
    <3> SUFFICES ASSUME NEW g \in ended', g.unit = "vars", act[g.of] = "finishing"
                 PROVE  /\ NoVars(todo)
                        /\ g.done /\ ~mixed' => Pointing' = {} /\ PointsAt(g.of)'
      BY <1>1, <1>7 DEF Arrived
    <3>1. CASE g \in ended
      BY <3>1, <1>3, <1>4 DEF Settled, Arrived
    <3>2. CASE g \notin ended
      <4>1. g.of = j.of
        BY <3>2, <2>2 DEF Signal
      <4>2. NoVars(todo)
        BY <4>1, <1>3 DEF Settled, VarsLast
      <4>3. ASSUME ~mixed'
            PROVE  Pointing' = {} /\ PointsAt(g.of)'
        <5>1. ~mixed /\ Pointing' = {}
          BY <4>3, <1>4, <1>9
        <5>2. /\ env'.kernelname = j.of /\ env'.ubiblock = slot /\ env'.root = slot
              /\ exposed' = FALSE /\ vol' = vol
          <6>1. j.pc # 1 /\ j.pc # 2 /\ ~ (j.pc < 3)
            BY <1>9
          <6>2. env.kernelname = j.of /\ env.ubiblock = slot
            BY <5>1, <6>1, <1>5, <1>9
          <6> QED
            BY <6>1, <6>2, <1>2, <1>9
        <5>3. vol[slot].of = j.of
          BY <1>2 DEF Volume
        <5> QED
          BY <5>1, <5>2, <5>3, <4>1 DEF PointsAt
      <4> QED
        BY <4>2, <4>3
    <3> QED
      BY <3>1, <3>2
  <2> QED
    BY <2>2, <2>3, <1>6 DEF Settled
<1> QED
  BY <1>8, <1>9

LEMMA FailsSettled ==
  ASSUME Inv, Boot, Settled, NEW j \in jobs, Fails(j)
  PROVE  Settled'
<1>1. Unit("remove", j.of, NoPrio).unit = "remove" /\ Unit("remove", j.of, NoPrio).of = j.of
  BY DEF Unit
<1>2. /\ jobs \ {j} \subseteq jobs'
      /\ \A u \in jobs' : \/ u \in jobs \ {j}
                          \/ j.unit = "write" /\ u.unit = "remove" /\ u.of = j.of
  BY <1>1 DEF Fails, Started
<1>3. /\ ended' = JobRemoved(j, FALSE) /\ FALSE \in BOOLEAN
      /\ UNCHANGED <<vol, env, act, todo, half, used, exposed, mixed>>
  BY DEF Fails, flash
<1>4. /\ OnePhase' /\ VarsLast' /\ Unspoilt'
      /\ \A g \in ended' : \/ g \in ended
                           \/ g = Signal(j.unit, j.of, FALSE) /\ Waits(g)
  BY <1>2, <1>3, EndSettled DEF Boot
<1>5. Pointing' \subseteq Pointing
  BY <1>2 DEF Pointing
<1>6. EnvFollows'
  BY <1>3, <1>5 DEF Settled, EnvFollows
<1>7. Arrived'
  <2> SUFFICES ASSUME NEW g \in ended', g.unit = "vars", act[g.of] = "finishing"
               PROVE  NoVars(todo) /\ (g.done /\ ~mixed => Pointing' = {} /\ PointsAt(g.of))
    BY <1>3 DEF Arrived, NoVars, PointsAt
  <2>1. CASE g \in ended
    BY <2>1, <1>5 DEF Settled, Arrived
  <2>2. CASE g \notin ended
    <3>1. g.of = j.of /\ j.unit = "vars" /\ ~g.done /\ j.of \in Versions
      BY <2>2, <1>4 DEF Signal, Inv, TypeOK, Units
    <3> QED
      BY <3>1 DEF Settled, VarsLast, Pointing
  <2> QED
    BY <2>1, <2>2
<1> QED
  BY <1>4, <1>6, <1>7 DEF Settled

LEMMA CarryOutSettled ==
  ASSUME Inv, Settled, CarryOut
  PROVE  Settled'
<1> DEFINE first == todo[1].unit
<1>1. /\ UNCHANGED <<act, ended, vol, env, half, used, exposed>>
      /\ mixed' = (mixed /\ (first.unit = "vars" => Pointing # {}))
  BY DEF CarryOut
<1>2. /\ Len(todo) \in Nat \ {0} /\ Len(todo') = Len(todo) - 1
      /\ \A i \in 1..Len(todo') : todo'[i] = todo[i + 1] /\ i + 1 \in 1..Len(todo)
      /\ UnitsIn(todo) = {first} \cup UnitsIn(todo')
      /\ jobs \subseteq jobs' /\ jobs' \subseteq jobs \cup {first} /\ first.pc = 1
  BY CarryOutDoes
<1>3. \A name, v : Under(name, v)' => Under(name, v)
  BY <1>2 DEF Under, Flight
<1>4. NoVars(todo) => NoVars(todo') /\ first.unit # "vars" /\ Pointing' = Pointing
  BY <1>2 DEF NoVars, Pointing
<1>5. first.unit = "vars" /\ Len(todo) = 1 => NoVars(todo')
  BY <1>2 DEF NoVars, UnitsIn
<1>6. todo[1].unit = first /\ 1 \in 1..Len(todo)
  BY <1>2
<1> HIDE DEF first
<1>7. OnePhase'
  <2>1. NoneFinishing' <=> NoneFinishing
    BY <1>1 DEF NoneFinishing
  <2> QED
    BY <2>1, <1>1, <1>3 DEF Settled, OnePhase
<1>8. VarsLast'
  <2> SUFFICES ASSUME NEW v \in Versions, act[v] = "finishing"
               PROVE  /\ \A i \in 1..Len(todo') : todo'[i].unit.unit = "vars" => i = Len(todo')
                      /\ (\E j \in Pointing' : j.of = v) => NoVars(todo')
    BY <1>1 DEF VarsLast, NoVars
  <2>1. \A i \in 1..Len(todo) : todo[i].unit.unit = "vars" => i = Len(todo)
    BY DEF Settled, VarsLast
  <2>2. ASSUME NEW i \in 1..Len(todo'), todo'[i].unit.unit = "vars"
        PROVE  i = Len(todo')
    <3>1. i + 1 = Len(todo)
      BY <2>1, <2>2, <1>2
    <3> QED
      BY <3>1, <1>2
  <2>3. ASSUME NEW j \in Pointing', j.of = v
        PROVE  NoVars(todo')
    <3>1. CASE j \in jobs
      BY <2>3, <3>1, <1>4 DEF Settled, VarsLast, Pointing
    <3>2. CASE j \notin jobs
      <4>1. first.unit = "vars"
        BY <3>2, <1>2 DEF Pointing
      <4> QED
        BY <4>1, <2>1, <1>5, <1>6
    <3> QED
      BY <3>1, <3>2
  <2> QED
    BY <2>2, <2>3
<1>9. Unspoilt'
  BY <1>1 DEF Settled, Unspoilt
<1>10. EnvFollows'
  <2> SUFFICES ASSUME ~mixed', NEW k \in Pointing', k.pc # 1
               PROVE  /\ env.kernelname = k.of
                      /\ k.pc = 3 => env.ubiblock = k.slot
    BY <1>1 DEF EnvFollows
  <2>1. k \in Pointing
    BY <1>2 DEF Pointing
  <2>2. ~mixed
    BY <2>1, <1>1
  <2> QED
    BY <2>1, <2>2 DEF Settled, EnvFollows
<1>11. Arrived'
  <2> SUFFICES ASSUME NEW g \in ended, g.unit = "vars", act[g.of] = "finishing"
               PROVE  NoVars(todo') /\ (g.done /\ ~mixed' => Pointing' = {} /\ PointsAt(g.of))
    BY <1>1 DEF Arrived, NoVars, PointsAt
  <2>1. NoVars(todo)
    BY DEF Settled, Arrived
  <2> QED
    BY <2>1, <1>1, <1>4 DEF Settled, Arrived
<1> QED
  BY <1>7, <1>8, <1>9, <1>10, <1>11 DEF Settled

(* A client calls when nothing is under way.                                *)
LEMMA CalledSettled ==
  ASSUME DefaultLayout, Inv, Boot, Settled, Called,
         jobs' = jobs, ended' \subseteq ended, half' = half, used \subseteq used',
         \A v \in Versions : act'[v] # "finishing" /\ (act'[v] = "writing" => v \notin half)
  PROVE  Settled'
<1>1. jobs' = {} /\ ended' = {} /\ Pointing' = {}
  BY CalledIdle DEF Boot, Pointing
<1>2. half \subseteq Versions
  BY DEF Inv, TypeOK
<1>3. NoneFinishing'
  BY DEF NoneFinishing
<1> QED
  BY <1>1, <1>2, <1>3
     DEF Settled, OnePhase, VarsLast, Unspoilt, EnvFollows, Arrived, NoneFinishing

LEMMA ClientsSettled ==
  ASSUME DefaultLayout, Inv, Boot, Settled, NEW v \in Versions,
         Upload(v) \/ Delete(v) \/ \E value \in Wanted : SetPriority(v, value)
  PROVE  Settled'
<1>1. Called
  BY DEF Upload, Delete, SetPriority
<1>2. \A w \in Versions : act[w] \in {"absent", "active", "failed"}
  BY <1>1, CalledIdle DEF Boot
<1>3. CASE Upload(v)
  <2>1. v \notin half
    BY <1>3 DEF Upload, Settled, Unspoilt
  <2>2. /\ jobs' = jobs /\ ended' \subseteq ended /\ half' = half /\ used \subseteq used'
        /\ \A w \in Versions : (w = v /\ act'[w] = "writing") \/ act'[w] \in {"absent", act[w]}
    <3>1. CASE act' = [act EXCEPT ![v] = "writing"] /\ UNCHANGED ended
      BY <3>1, <1>3 DEF Upload, flash, Inv, TypeOK
    <3>2. ASSUME NEW x, act' = [act EXCEPT ![x] = "absent", ![v] = "writing"], Erased(x)
          PROVE  /\ ended' \subseteq ended
                 /\ \A w \in Versions : (w = v /\ act'[w] = "writing")
                                        \/ act'[w] \in {"absent", act[w]}
      BY <3>2 DEF Erased, Inv, TypeOK
    <3>3. jobs' = jobs /\ half' = half /\ used \subseteq used'
      BY <1>3 DEF Upload
    <3> QED
      BY <3>1, <3>2, <3>3, <1>3 DEF Upload
  <2> QED
    BY <2>1, <2>2, <1>1, <1>2, CalledSettled
<1>4. CASE Delete(v)
  <2>1. /\ jobs' = jobs /\ ended' \subseteq ended /\ half' = half /\ used \subseteq used'
        /\ \A w \in Versions : act'[w] = "absent" \/ act'[w] = act[w]
    BY <1>4 DEF Delete, Erased, flash, Inv, TypeOK
  <2> QED
    BY <2>1, <1>1, <1>2, CalledSettled
<1>5. CASE \E value \in Wanted : SetPriority(v, value)
  <2>1. /\ jobs' = jobs /\ ended' \subseteq ended /\ half' = half /\ used \subseteq used'
        /\ act' = act
    BY <1>5 DEF SetPriority
  <2> QED
    BY <2>1, <1>1, <1>2, CalledSettled
<1> QED
  BY <1>3, <1>4, <1>5

LEMMA UnitEndedSettled ==
  ASSUME Inv, Boot, Settled, NEW signal \in ended, UnitEnded(signal)
  PROVE  Settled'
<1> DEFINE v == signal.of
<1>1. /\ v \in Versions /\ 0 \in Priorities
      /\ signal.unit \in {"write", "vars"} /\ signal.done \in BOOLEAN
  BY FlashAssumption DEF Inv, TypeOK, Priorities
<1>2. /\ todo = <<>> /\ ended' = ended \ {signal}
      /\ UNCHANGED <<vol, env, jobs, used, half, exposed, mixed>>
  BY DEF UnitEnded, flash
<1>3. PICK next \in {"failed", "finishing", "active"} :
        /\ act' = [act EXCEPT ![v] = next]
        /\ next = "finishing" => signal.done /\ signal.unit = "write" /\ AssignPriority(v, 0)
        /\ next # "finishing" => todo' = <<>>
  BY <1>2 DEF UnitEnded
<1>4. /\ act'[v] = next
      /\ \A w \in Versions : w # v => act'[w] = act[w]
  BY <1>1, <1>3 DEF Inv, TypeOK
<1>5. \A g \in ended' : g.unit # "write"
  BY <1>2 DEF Settled, OnePhase
<1>6. \A w \in Versions : ~Under("write", w)'
  <2>1. \A w \in Versions : ~Under("write", w)
    BY DEF Settled, OnePhase
  <2>2. Orderly' /\ WritersKnown
    BY UnitEndedOrderly DEF Boot
  <2> SUFFICES ASSUME NEW w \in Versions, Under("write", w)'
               PROVE  FALSE
    OBVIOUS
  <2>3. w \in used
    BY <2>2, <1>2 DEF Orderly, OneWriter, Alone
  <2>4. PICK u \in Flight' : u.unit = "write" /\ u.of = w
    BY DEF Under
  <2>5. u \in Flight
    BY <2>2, <2>3, <2>4 DEF WritersKnown
  <2> QED
    BY <2>1, <2>4, <2>5 DEF Under
<1>7. OnePhase'
  BY <1>5, <1>6 DEF OnePhase
<1>8. Unspoilt'
  <2>1. v \notin half
    BY DEF Settled, Unspoilt
  <2>2. half \subseteq Versions
    BY DEF Inv, TypeOK
  <2> QED
    BY <2>1, <2>2, <1>2, <1>4 DEF Settled, Unspoilt
<1>9. EnvFollows' /\ Pointing' = Pointing
  BY <1>2 DEF Settled, EnvFollows, Pointing
<1>10. CASE next = "finishing"
  <2>1. /\ ended = {signal} /\ NoneFinishing /\ ~Under("vars", v)
    BY <1>3, <1>10 DEF Settled, OnePhase
  <2>2. ended' = {}
    BY <2>1, <1>2
  <2>3. \A w \in Versions : act'[w] = "finishing" => w = v
    BY <2>1, <1>4 DEF NoneFinishing
  <2>4. \A j \in Pointing' : j.of # v
    BY <2>1, <1>9 DEF Pointing, Under, Flight
  <2>5. \A i \in 1..Len(todo') : todo'[i].unit.unit = "vars" => i = Len(todo')
    <3>1. AssignPriority(v, 0)
      BY <1>3, <1>10
    <3>2. \A i \in 1..Len(todo') : i # Len(todo') => todo'[i].unit.unit = "setenv"
      BY <3>1, <1>1, AssignPriorityDoes
    <3> QED
      BY <3>2
  <2>6. VarsLast'
    BY <2>3, <2>4, <2>5 DEF VarsLast
  <2> QED
    BY <2>2, <2>6, <1>7, <1>8, <1>9 DEF Settled, Arrived
<1>11. CASE next # "finishing"
  <2>1. todo' = <<>> /\ NoVars(todo')
    BY <1>3, <1>11 DEF NoVars, UnitsIn
  <2>2. VarsLast'
    BY <2>1 DEF VarsLast, NoVars
  <2>3. \A w \in Versions : act'[w] = "finishing" => act[w] = "finishing"
    BY <1>4, <1>11
  <2>4. Arrived'
    <3>1. \A g \in ended : g.of \in Versions
      BY DEF Inv, TypeOK
    <3> QED
      BY <3>1, <2>1, <2>3, <1>2, <1>9 DEF Settled, Arrived, NoVars, PointsAt
  <2> QED
    BY <2>2, <2>4, <1>7, <1>8, <1>9 DEF Settled
<1> QED
  BY <1>10, <1>11

LEMMA RestartSettled ==
  ASSUME Inv, Boot, Restart
  PROVE  Settled'
<1>1. /\ jobs' = {} /\ ended' = {} /\ used' = used
      /\ \A v \in Versions : act'[v] \in {"active", "absent"}
      /\ half' = {v \in Versions : Whole("rofs", v) /\ ~Whole("kernel", v)}
  BY DEF Restart
<1>2. \A u \in Flight' : u.unit \in {"setenv", "vars"}
  BY RestartUnits
<1>3. half' \subseteq used'
  BY <1>1 DEF Whole, Find, SlotsOf, Boot, Counted
<1>4. OnePhase'
  BY <1>1, <1>2 DEF OnePhase, Under
<1>5. EnvFollows'
  BY <1>1 DEF EnvFollows, Pointing
<1>6. half' \subseteq Versions
  BY <1>1
<1>7. Unspoilt'
  BY <1>1, <1>3, <1>6 DEF Unspoilt
<1>8. VarsLast' /\ Arrived'
  BY <1>1 DEF VarsLast, Arrived
<1> QED
  BY <1>4, <1>5, <1>7, <1>8 DEF Settled

LEMMA SettledUnmoved ==
  ASSUME Settled, UNCHANGED <<vol, env, act, todo, jobs, ended, used, exposed, half, mixed>>
  PROVE  Settled'
<1>1. /\ Pointing' = Pointing /\ Flight' = Flight
      /\ (NoneFinishing' <=> NoneFinishing) /\ (NoVars(todo)' <=> NoVars(todo))
      /\ \A v : PointsAt(v)' <=> PointsAt(v)
  BY DEF Pointing, Flight, NoneFinishing, NoVars, PointsAt
<1>2. \A name, v : Under(name, v)' <=> Under(name, v)
  BY <1>1 DEF Under
<1>3. OnePhase'
  BY <1>1, <1>2 DEF Settled, OnePhase
<1>4. VarsLast' /\ Unspoilt' /\ EnvFollows' /\ Arrived'
  BY <1>1 DEF Settled, VarsLast, Unspoilt, EnvFollows, Arrived
<1> QED
  BY <1>3, <1>4 DEF Settled

LEMMA NextSettled ==
  ASSUME DefaultLayout, Inv, Boot, Boot', Settled, Next
  PROVE  Settled'
<1>1. CASE \E j \in jobs : Step(j) \/ Fails(j)
  BY <1>1, OthersSettled, PointUbootSettled, FailsSettled
<1>2. CASE CarryOut
  BY <1>2, CarryOutSettled
<1>3. ASSUME NEW v \in Versions,
             Upload(v) \/ Delete(v) \/ \E value \in Wanted : SetPriority(v, value)
      PROVE  Settled'
  BY <1>3, ClientsSettled
<1>4. CASE FactoryReset
  BY <1>4, SettledUnmoved DEF FactoryReset, updater
<1>5. CASE \E signal \in ended : UnitEnded(signal)
  BY <1>5, UnitEndedSettled
<1>6. CASE Restart
  BY <1>6, RestartSettled
<1> QED
  BY <1>1, <1>2, <1>3, <1>4, <1>5, <1>6 DEF Next

LEMMA InitSettled == Init => Settled
<1> SUFFICES ASSUME Init PROVE Settled
  OBVIOUS
<1>1. /\ jobs = {} /\ ended = {} /\ half = {}
      /\ \A v \in Versions : act[v] \in {"active", "absent"}
      /\ \E v \in Versions : todo = <<Save(v, 0)>>
  BY DEF Init
<1>2. \A u \in Flight : u.unit = "setenv"
  BY <1>1, UnitsInOne DEF Flight, Save, Unit
<1> QED
  BY <1>1, <1>2 DEF Settled, OnePhase, VarsLast, Unspoilt, EnvFollows, Arrived, Under, Pointing

(* An activation ends as Active only when the environment names both        *)
(* volumes of its version, and they are whole (onStateChanges in            *)
(* activation.cpp after the updateubootvars unit), unless the units of two  *)
(* versions ran at the same time.                                           *)
THEOREM ActivatedIsNext ==
  ASSUME DefaultLayout
  PROVE  Spec => ActivatedBootsNext
<1> DEFINE Next1 == \A signal \in ended :
              UnitEnded(signal) /\ act[signal.of] = "finishing" /\ act'[signal.of] = "active"
              /\ ~mixed => Bootable /\ Booted = signal.of /\ env.kernelname = signal.of
<1>1. Inv /\ Boot /\ Settled => Next1
  <2> SUFFICES ASSUME Inv, Boot, Settled, NEW signal \in ended, UnitEnded(signal),
                      act[signal.of] = "finishing", act'[signal.of] = "active", ~mixed
               PROVE  Bootable /\ Booted = signal.of /\ env.kernelname = signal.of
    OBVIOUS
  <2>1. signal.of \in Versions
    BY DEF Inv, TypeOK
  <2>2. signal.unit = "vars" /\ signal.done
    BY <2>1 DEF UnitEnded, Inv, TypeOK
  <2>3. PointsAt(signal.of)
    BY <2>2 DEF Settled, Arrived
  <2>4. /\ KernelKept /\ SlotKept(env.root)
    BY <2>3 DEF PointsAt, Boot, Sound, EnvKept
  <2>5. Whole("kernel", env.kernelname)
    BY <2>3, <2>4 DEF PointsAt, KernelKept, Installed, Settled, Unspoilt
  <2>6. Bootable
    BY <2>3, <2>4, <2>5 DEF PointsAt, SlotKept, Bootable
  <2> QED
    BY <2>3, <2>6 DEF PointsAt, Booted
<1>2. Inv /\ Boot /\ Boot' /\ Settled /\ [Next]_vars => Settled'
  BY NextSettled, SettledUnmoved DEF vars, flash, updater
<1>3. Inv /\ Boot /\ Settled => [Next1]_vars
  BY <1>1
<1> QED
  BY InitSettled, <1>2, <1>3, Invariant, BootInvariant, PTL DEF Spec, ActivatedBootsNext
=============================================================================
