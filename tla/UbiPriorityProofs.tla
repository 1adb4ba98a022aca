------------------------- MODULE UbiPriorityProofs -------------------------
(***************************************************************************)
(* Proof that the priorities of UbiFlash outlive a loss of power, for the  *)
(* default layout with clients that wait, as in UbiFlashProofs.            *)
(*                                                                         *)
(* A priority is kept in three places: on D-Bus, in a file and in the      *)
(* U-Boot environment, and a version without a record is given a default   *)
(* that tells only whether it runs.  The invariant (Recorded) says which   *)
(* of them is behind, and what will bring it up to date: the file follows  *)
(* D-Bus while the handler has still to save it (Stored), the variable     *)
(* follows the file while its unit runs (Filed, Agreed), and a default     *)
(* stays what it is because U-Boot is not pointed at another version       *)
(* before the priority is saved (Unrecorded).                              *)
(***************************************************************************)
EXTENDS UbiFlashProofs

(* The running version is known by another name than its volume's, and so   *)
(* are its records.                                                         *)
Lost(v) == lost /\ v = running

Runs(name, v) == \E j \in jobs : j.unit = name /\ j.of = v

(* The handler has still to save the priority.                              *)
Saving(v) == \E i \in 1..Len(todo) : todo[i].do = "save" /\ todo[i].unit.of = v

(* What a restart would make of the records: the file, else the variable,   *)
(* else what a version without either is given.                             *)
Record(v) == IF saved[v] # NoPrio THEN saved[v] ELSE setting[v]
Default(v) == IF v = running THEN 0 ELSE PrioLimit - 1
Kept(v) == IF Record(v) # NoPrio THEN Record(v) ELSE Default(v)

Ranked ==
  /\ running # Nobody => act[running] = "active"
  /\ \A v \in Versions :
       /\ act[v] \in {"finishing", "active"} => shown[v] # NoPrio
       /\ shown[v] # NoPrio => act[v] \in {"finishing", "active", "failed"}

(* A version that waits for its last unit is on file.                       *)
Awaited ==
  \A g \in ended :
    /\ g.of # running
    /\ g.unit = "write" => act[g.of] = "writing"
    /\ g.unit = "vars" => shown[g.of] # NoPrio /\ saved[g.of] # NoPrio

(* A handler saves each priority once, before it sets the boot variables;   *)
(* it forgets the file before it clears the variable.                       *)
SavesFirst(effects) ==
  \A i \in 1..Len(effects) :
    /\ effects[i].do = "save" <=> effects[i].unit.unit = "setenv"
    /\ effects[i].do = "save" =>
         \A k \in 1..Len(effects) :
           /\ effects[k].unit.unit = "vars" => i < k
           /\ effects[k].do = "save" /\ effects[k].unit.of = effects[i].unit.of => i = k

ClearsLast(effects, forgotten) ==
  \A i \in 1..Len(effects) :
    effects[i].unit.unit = "clear" =>
      \/ effects[i].unit.of \in forgotten
      \/ \E k \in 1..Len(effects) :
           k < i /\ effects[k].unit.unit = "none" /\ effects[k].unit.of = effects[i].unit.of

Forgotten == {v \in Versions : saved[v] = NoPrio}

Queue ==
  /\ SavesFirst(todo) /\ ClearsLast(todo, Forgotten)
  /\ \A i \in 1..Len(todo) : todo[i].do = "save" =>
       todo[i].unit.value = shown[todo[i].unit.of]

(* What may be under way together.                                          *)
Alongside ==
  \A v \in Versions :
    /\ Saving(v) => ~Runs("setenv", v) /\ (act[v] = "finishing" => ~Runs("vars", v))
    /\ Under("setenv", v) => shown[v] # NoPrio /\ \A w \in Versions : act[w] # "writing"
    /\ Under("clear", v) \/ Under("none", v) => v \notin Known
    /\ Runs("clear", v) => v \in Forgotten

Fresh == \A v \in Versions : v \notin used \/ Under("write", v) => v \in Forgotten

(* The priority that is shown is recorded, or is about to be saved in place *)
(* of the one before.                                                       *)
Stored ==
  \A v \in Versions : shown[v] # NoPrio /\ ~Lost(v) =>
    /\ ~Saving(v) => Kept(v) = shown[v] /\ (act[v] # "active" => saved[v] # NoPrio)
    /\ Saving(v) /\ act[v] = "active" => Kept(v) = before[v]

(* A version without a record is the one that boots if and only if it runs  *)
(* now, until its priority is saved: so the default stays the same.         *)
Rooted(v) ==
  IF v = running THEN vol[env.root] = Volume("rofs", v, TRUE) ELSE vol[env.root].of # v

(* A unit that could change this.                                           *)
Moves(v, w) == IF v = running THEN w # v ELSE w = v

Unrecorded ==
  \A v \in Versions : act[v] = "active" /\ ~Lost(v) /\ Record(v) = NoPrio =>
    /\ Rooted(v)
    /\ \A w \in Versions : Moves(v, w) =>
         ~Runs("vars", w) /\ (Under("vars", w) => Saving(v))

(* The variable follows the file.                                           *)
Filed ==
  \A j \in jobs : j.unit = "setenv" =>
    j.value # NoPrio /\ (~Lost(j.of) => saved[j.of] = j.value)

Agreed ==
  ~cut => \A v \in Versions : Find("rofs", v) # {} /\ saved[v] # NoPrio =>
            saved[v] = setting[v] \/ (Runs("setenv", v) /\ ~Lost(v))

Recorded ==
  /\ Ranked /\ Awaited /\ Queue /\ Alongside /\ Fresh
  /\ Stored /\ Unrecorded /\ Filed /\ Agreed

----------------------------------------------------------------------------
(* The units.                                                               *)

(* A unit goes on, ends or fails: what is recorded of the versions that the *)
(* updater knows must stay.                                                 *)
LEMMA UnitRecorded ==
  ASSUME Inv, Orderly, Recorded, NEW j \in jobs, NEW done \in BOOLEAN,
         UNCHANGED <<act, shown, saved, todo, running, lost, before, used>>,
         \A u \in jobs' : \/ u \in jobs
                          \/ u.unit = "remove"
                          \/ u.unit = j.unit /\ u.of = j.of /\ j.unit \in {"write", "vars"},
         ended' = ended \/ ended' = JobRemoved(j, done),
         \A v \in Known : saved[v] # NoPrio \/ setting'[v] = setting[v],
         \A v \in Versions :
           act[v] = "active" /\ ~Lost(v) /\ Record(v) = NoPrio => Rooted(v)',
         Agreed'
  PROVE  Recorded'
<1>1. j.of \in Versions /\ Runs(j.unit, j.of) /\ Under(j.unit, j.of) /\ running # Nobody
  BY DEF Inv, TypeOK, Units, Runs, Under, Flight, Orderly, Stopped
<1>2. /\ \A name, v : Runs(name, v)' => Runs(name, v) \/ name = "remove"
      /\ \A name, v : Under(name, v)' => Under(name, v) \/ name = "remove"
  BY DEF Runs, Under, Flight
<1>3. /\ \A v : (Saving(v)' <=> Saving(v)) /\ (Lost(v)' <=> Lost(v))
      /\ Forgotten' = Forgotten /\ Known' = Known
  BY DEF Saving, Lost, Forgotten, Known
<1>4. \A v \in Known : Record(v)' = Record(v) /\ Kept(v)' = Kept(v)
  BY DEF Record, Kept, Default
<1>5. Ranked' /\ Queue'
  BY <1>3 DEF Recorded, Ranked, Queue
<1>6. Awaited'
  <2> SUFFICES ASSUME NEW g \in ended', g \notin ended
               PROVE  /\ g.of # running
                      /\ g.unit = "write" => act[g.of] = "writing"
                      /\ g.unit = "vars" => shown[g.of] # NoPrio /\ saved[g.of] # NoPrio
    BY DEF Recorded, Awaited
  <2>1. g = Signal(j.unit, j.of, done) /\ Waits(g)
    BY DEF JobRemoved, Signal
  <2>2. g.unit = j.unit /\ g.of = j.of
    BY <2>1 DEF Signal
  <2>3. CASE j.unit = "write" /\ act[j.of] = "writing"
    BY <2>2, <2>3, <1>1 DEF Orderly, OneWriter, Alone
  <2>4. CASE j.unit = "vars" /\ act[j.of] = "finishing"
    <3>1. j.of # running /\ shown[j.of] # NoPrio /\ ~Lost(j.of)
      BY <2>4, <1>1 DEF Recorded, Ranked, Lost
    <3>2. ~Saving(j.of)
      BY <2>4, <1>1 DEF Recorded, Alongside
    <3>3. saved[j.of] # NoPrio
      BY <2>4, <3>1, <3>2, <1>1 DEF Recorded, Stored
    <3> QED
      BY <2>2, <2>4, <3>1, <3>3
  <2> QED
    BY <2>1, <2>2, <2>3, <2>4 DEF Waits
<1>7. Alongside'
  BY <1>2, <1>3 DEF Recorded, Alongside
<1>8. Fresh'
  BY <1>2, <1>3 DEF Recorded, Fresh
<1>9. Stored'
  <2> SUFFICES ASSUME NEW v \in Versions, shown[v] # NoPrio, ~Lost(v)
               PROVE  /\ ~Saving(v) => Kept(v)' = shown[v]
                                       /\ (act[v] # "active" => saved[v] # NoPrio)
                      /\ Saving(v) /\ act[v] = "active" => Kept(v)' = before[v]
    BY <1>3 DEF Stored
  <2>1. Kept(v)' = Kept(v)
    BY <1>4 DEF Recorded, Ranked, Known
  <2> QED
    BY <2>1 DEF Recorded, Stored
<1>10. Unrecorded'
  <2> SUFFICES ASSUME NEW v \in Versions, act[v] = "active", ~Lost(v), Record(v)' = NoPrio
               PROVE  /\ Rooted(v)'
                      /\ \A w \in Versions : Moves(v, w)' =>
                           ~Runs("vars", w)' /\ (Under("vars", w)' => Saving(v))
    BY <1>3 DEF Unrecorded
  <2>1. Record(v) = NoPrio
    BY <1>4 DEF Known
  <2>2. \A w : Moves(v, w)' <=> Moves(v, w)
    BY DEF Moves
  <2> QED
    BY <2>1, <2>2, <1>2 DEF Recorded, Unrecorded
<1>11. Filed'
  BY <1>3 DEF Recorded, Filed
<1> QED
  BY <1>5, <1>6, <1>7, <1>8, <1>9, <1>10, <1>11 DEF Recorded

(* The volume of the running version that U-Boot would mount stays.         *)
LEMMA RootSpared ==
  ASSUME Inv, Inv', Spared, UNCHANGED <<env, running>>, running \in Versions,
         vol[env.root] = Volume("rofs", running, TRUE)
  PROVE  vol'[env.root] = Volume("rofs", running, TRUE)
<1> DEFINE s == env.root
<1>1. s \in Slots /\ vol'[s] \in [kind : {"free", "rofs", "kernel"},
                                  of : Versions \cup {Nobody}, whole : BOOLEAN]
  BY DEF Inv, TypeOK
<1>2. vol[s].kind = "rofs" /\ vol[s].of = running /\ vol[s].whole
  BY DEF Volume
<1>3. vol'[s].kind = "rofs" /\ vol'[s].of = running /\ vol'[s].whole = TRUE
  BY <1>1, <1>2 DEF Spared
<1> HIDE DEF s
<1>4. vol'[s] = Volume("rofs", running, TRUE)
  BY <1>1, <1>3 DEF Volume
<1> QED
  BY <1>4 DEF s

(* The script does not make room at the cost of the version it writes.      *)
LEMMA VictimOther ==
  ASSUME Inv, NEW kind \in {"rofs", "kernel"}, NEW v \in Versions
  PROVE  Victim(kind, v) \subseteq Versions \ {running, v}
<1>1. CASE Removable(kind, v) = {}
  BY <1>1 DEF Victim
<1>2. CASE Removable(kind, v) # {}
  <2>1. First(Removable(kind, v)) \in Removable(kind, v)
    BY <1>2, FirstIn DEF Removable, SlotsOf
  <2> QED
    BY <2>1 DEF Victim, Removable, SlotsOf, Inv, VolumesOwned
<1> QED
  BY <1>1, <1>2

(* What is cleared in the environment while a version is written is of a    *)
(* version that the updater does not know, and its rofs goes as well.       *)
LEMMA WriteDoes ==
  ASSUME Inv, Orderly, NEW j \in jobs, j.unit = "write", Step(j)
  PROVE  /\ UNCHANGED env
         /\ \A v \in Known : setting'[v] = setting[v]
         /\ \A v \in Versions \ {j.of} : Find("rofs", v)' # {} =>
              Find("rofs", v) # {} /\ setting'[v] = setting[v]
<1>1. j.of \in Versions /\ Alone(j.of)
  BY OnlyWriter
<1>2. ASSUME NEW kind \in {"rofs", "kernel"}, MakeRoom(j, kind)
      PROVE  /\ UNCHANGED env
             /\ \A v \in Known : setting'[v] = setting[v]
             /\ \A v \in Versions : Find("rofs", v)' # {} =>
                  Find("rofs", v) # {} /\ setting'[v] = setting[v]
  <2> DEFINE gone == Victim(kind, j.of)
  <2>1. gone \subseteq Versions \ {running, j.of}
    BY <1>1, VictimOther
  <2>2. /\ vol' = [s \in Slots |-> IF s \in VolumesOf(gone) THEN Free ELSE vol[s]]
        /\ setting' = [v \in Versions |-> IF v \in gone THEN NoPrio ELSE setting[v]]
        /\ UNCHANGED env
    BY <1>2 DEF MakeRoom, Removed, Cleared
  <2> HIDE DEF gone
  <2>3. \A v \in Known : v \in Versions /\ v \notin gone
    BY <2>1, <1>1 DEF Alone, Known
  <2>4. ASSUME NEW v \in Versions, NEW s \in Find("rofs", v)'
        PROVE  s \in Find("rofs", v) /\ v \notin gone
    <3>1. s \in Slots /\ vol'[s].kind = "rofs" /\ vol'[s].of = v
      BY <2>4 DEF Find, SlotsOf
    <3>2. s \notin VolumesOf(gone) /\ vol'[s] = vol[s]
      BY <3>1, <2>2 DEF Free, Volume
    <3>3. s \in Find("rofs", v)
      BY <3>1, <3>2 DEF Find, SlotsOf
    <3>4. v \in gone => s \in VolumesOf(gone)
      BY <3>3 DEF VolumesOf
    <3> QED
      BY <3>2, <3>3, <3>4
  <2> QED
    BY <2>2, <2>3, <2>4
<1>3. ASSUME NEW kind \in {"rofs", "kernel"}, CreateVolume(j, kind)
      PROVE  /\ UNCHANGED <<env, setting>>
             /\ \A v \in Versions \ {j.of} : Find("rofs", v)' # {} => Find("rofs", v) # {}
  <2>1. UNCHANGED <<env, setting>> /\ vol' = Made(kind, j.of)
    BY <1>3 DEF CreateVolume
  <2>2. \A s \in Slots : vol'[s] = vol[s] \/ vol'[s] = Volume(kind, j.of, FALSE)
    BY <2>1 DEF Made, Inv, TypeOK
  <2>3. \A s \in Slots : vol'[s] = vol[s] \/ vol'[s].of = j.of
    BY <2>2 DEF Volume
  <2> QED
    BY <2>1, <2>3 DEF Find, SlotsOf
<1>4. ASSUME NEW kind \in {"rofs", "kernel"}, UpdateVolume(j, kind)
      PROVE  /\ UNCHANGED <<env, setting>>
             /\ \A v \in Versions \ {j.of} : Find("rofs", v)' # {} => Find("rofs", v) # {}
  <2>1. UNCHANGED <<env, setting>> /\ vol' = Filled(kind, j.of)
    BY <1>4 DEF UpdateVolume
  <2>2. \A s \in Slots : vol'[s].kind = vol[s].kind /\ vol'[s].of = vol[s].of
    BY <2>1 DEF Filled, Inv, TypeOK
  <2> QED
    BY <2>1, <2>2 DEF Find, SlotsOf
<1>5. \E kind \in {"rofs", "kernel"} :
        MakeRoom(j, kind) \/ CreateVolume(j, kind) \/ UpdateVolume(j, kind)
  BY DEF Step, WriteImages
<1> QED
  BY <1>2, <1>3, <1>4, <1>5

LEMMA WriteRecorded ==
  ASSUME Inv, Boot, Recorded, NEW j \in jobs, j.unit = "write", Step(j)
  PROVE  Recorded'
<1>1. Inv' /\ Spared /\ UNCHANGED <<running, lost, cut, used>>
  BY StepInv DEF Step
<1>2. UNCHANGED <<act, shown, saved, todo, before>>
  BY DEF Step, WriteImages, MakeRoom, CreateVolume, UpdateVolume, updater
<1>3. /\ \/ /\ \E next : /\ next.unit = j.unit /\ next.of = j.of
                         /\ jobs' = (jobs \ {j}) \cup {next}
            /\ UNCHANGED ended
         \/ jobs' = jobs \ {j} /\ ended' = JobRemoved(j, TRUE)
  BY StepGoes
<1>4. /\ UNCHANGED env
      /\ \A v \in Known : setting'[v] = setting[v]
      /\ \A v \in Versions \ {j.of} : Find("rofs", v)' # {} =>
           Find("rofs", v) # {} /\ setting'[v] = setting[v]
  BY WriteDoes DEF Boot
<1>5. j.of \in Versions /\ Alone(j.of) /\ Under("write", j.of) /\ running # Nobody
  BY OnlyWriter DEF Boot, Under, Flight
<1>6. ASSUME NEW v \in Versions, act[v] = "active", ~Lost(v), Record(v) = NoPrio
      PROVE  Rooted(v)'
  <2>1. v = running
    BY <1>5, <1>6 DEF Alone, Known, Recorded, Ranked
  <2>2. vol[env.root] = Volume("rofs", running, TRUE)
    BY <1>6, <2>1 DEF Recorded, Unrecorded, Rooted
  <2>3. vol'[env.root] = Volume("rofs", running, TRUE)
    BY <1>1, <1>4, <2>1, <2>2, RootSpared
  <2> QED
    BY <1>1, <1>4, <2>1, <2>3 DEF Rooted
<1>7. Agreed'
  <2> SUFFICES ASSUME ~cut, NEW v \in Versions, Find("rofs", v)' # {}, saved[v] # NoPrio
               PROVE  saved[v] = setting'[v] \/ (Runs("setenv", v)' /\ ~Lost(v)')
    BY <1>1, <1>2 DEF Agreed
  <2>1. v # j.of
    BY <1>5 DEF Recorded, Fresh, Forgotten
  <2>2. saved[v] = setting[v] \/ (Runs("setenv", v) /\ ~Lost(v))
    BY <2>1, <1>4 DEF Recorded, Agreed
  <2>3. Runs("setenv", v) => Runs("setenv", v)'
    BY <1>3 DEF Runs
  <2> QED
    BY <2>1, <2>2, <2>3, <1>1, <1>4 DEF Lost
<1> QED
  BY <1>1, <1>2, <1>3, <1>4, <1>6, <1>7, UnitRecorded DEF Boot

(* A version that is removed is not the running one, so that another one is *)
(* not booted.                                                              *)
LEMMA RemoveRecorded ==
  ASSUME Inv, Boot, Recorded, NEW j \in jobs, j.unit = "remove", Step(j)
  PROVE  Recorded'
<1>1. Inv' /\ Spared /\ UNCHANGED <<running, lost, cut, used>>
  BY StepInv DEF Step
<1>2. UNCHANGED <<env, act, shown, saved, setting, todo, before>> /\ RemoveVolumes(j)
  BY DEF Step, RemoveVolumes
<1>3. /\ \/ /\ \E next : /\ next.unit = j.unit /\ next.of = j.of
                         /\ jobs' = (jobs \ {j}) \cup {next}
            /\ UNCHANGED ended
         \/ jobs' = jobs \ {j} /\ ended' = JobRemoved(j, TRUE)
  BY StepGoes
<1>4. \A s \in Slots : vol'[s] = vol[s] \/ vol'[s] = Free
  BY <1>2 DEF RemoveVolumes, Removed
<1>5. env.root \in Slots /\ running # Nobody
  BY DEF Inv, TypeOK, Boot, Orderly, Stopped
<1>6. ASSUME NEW v \in Versions, act[v] = "active", ~Lost(v), Record(v) = NoPrio
      PROVE  Rooted(v)'
  <2>1. Rooted(v)
    BY <1>6 DEF Recorded, Unrecorded
  <2>2. CASE v = running
    <3>1. vol'[env.root] = Volume("rofs", running, TRUE)
      BY <1>1, <1>2, <2>1, <2>2, RootSpared DEF Rooted
    <3> QED
      BY <3>1, <1>1, <1>2, <2>2 DEF Rooted
  <2>3. CASE v # running
    <3>1. vol'[env.root].of # v
      BY <1>4, <1>5, <2>1, <2>3, FlashAssumption DEF Rooted, Free, Volume
    <3> QED
      BY <3>1, <1>1, <1>2, <2>3 DEF Rooted
  <2> QED
    BY <2>2, <2>3
<1>7. Agreed'
  <2>1. \A v \in Versions : Find("rofs", v)' # {} => Find("rofs", v) # {}
    BY <1>4 DEF Find, SlotsOf, Free, Volume
  <2>2. \A v : Runs("setenv", v) => Runs("setenv", v)'
    BY <1>3 DEF Runs
  <2> QED
    BY <2>1, <2>2, <1>1, <1>2 DEF Recorded, Agreed, Lost
<1> QED
  BY <1>1, <1>2, <1>3, <1>6, <1>7, UnitRecorded DEF Boot

(* U-Boot is not pointed at or away from a version without a record.        *)
LEMMA PointRecorded ==
  ASSUME Inv, Boot, Recorded, NEW j \in jobs, j.unit = "vars", Step(j)
  PROVE  Recorded'
<1>1. PointUboot(j) /\ UNCHANGED <<running, lost, cut, used>>
  BY DEF Step
<1>2. UNCHANGED <<vol, act, shown, saved, setting, todo, before>>
  BY <1>1 DEF PointUboot
<1>3. PICK slot \in Slots : \E next : PointsTo(j, slot, next)
  BY <1>1, PointUbootDoes
<1>4. PICK next : PointsTo(j, slot, next)
  BY <1>3
<1>5. /\ vol[slot] = Volume("rofs", j.of, TRUE)
      /\ next.unit = "vars" /\ next.of = j.of
      /\ env'.root = slot \/ env'.root = env.root
      /\ \/ jobs' = jobs \ {j} /\ ended' = JobRemoved(j, TRUE)
         \/ jobs' = (jobs \ {j}) \cup {next} /\ ended' = ended
  BY <1>4 DEF PointsTo
<1>6. j.of \in Versions /\ Runs("vars", j.of)
  BY DEF Inv, TypeOK, Units, Runs
<1>7. ASSUME NEW v \in Versions, act[v] = "active", ~Lost(v), Record(v) = NoPrio
      PROVE  Rooted(v)'
  <2>1. Rooted(v) /\ ~Moves(v, j.of)
    BY <1>6, <1>7 DEF Recorded, Unrecorded
  <2>2. vol[slot].of = j.of
    BY <1>5 DEF Volume
  <2>3. CASE v = running
    <3>1. vol[env'.root] = Volume("rofs", v, TRUE)
      BY <1>5, <2>1, <2>3 DEF Rooted, Moves
    <3> QED
      BY <3>1, <1>1, <1>2, <2>3 DEF Rooted
  <2>4. CASE v # running
    <3>1. vol[env'.root].of # v
      BY <1>5, <2>1, <2>2, <2>4 DEF Rooted, Moves
    <3> QED
      BY <3>1, <1>1, <1>2, <2>4 DEF Rooted
  <2> QED
    BY <2>3, <2>4
<1>8. Agreed'
  <2>1. \A v : Runs("setenv", v) => Runs("setenv", v)'
    BY <1>5 DEF Runs
  <2>2. \A v : Find("rofs", v)' = Find("rofs", v)
    BY <1>2 DEF Find, SlotsOf
  <2> QED
    BY <2>1, <2>2, <1>1, <1>2 DEF Recorded, Agreed, Lost
<1> QED
  BY <1>1, <1>2, <1>5, <1>7, <1>8, UnitRecorded DEF Boot

(* The variable catches up with the file.                                   *)
LEMMA SetEnvRecorded ==
  ASSUME Inv, Boot, Recorded, NEW j \in jobs, j.unit \in {"setenv", "clear"}, Step(j)
  PROVE  Recorded'
<1>1. /\ SetEnv(j) /\ UNCHANGED <<running, lost, cut, used>>
      /\ UNCHANGED <<vol, env, act, shown, saved, todo, before>>
      /\ jobs' = jobs \ {j} /\ ended' = JobRemoved(j, TRUE)
  BY DEF Step, SetEnv, End
<1>2. /\ j.of \in Versions
      /\ setting' = IF Lost(j.of) THEN setting ELSE [setting EXCEPT ![j.of] = j.value]
  BY <1>1 DEF SetEnv, Lost, Inv, TypeOK, Units
<1>3. /\ \A v \in Versions \ {j.of} : setting'[v] = setting[v]
      /\ setting'[j.of] = IF Lost(j.of) THEN setting[j.of] ELSE j.value
  BY <1>2 DEF Inv, TypeOK
<1>4. CASE j.unit = "setenv"
  <2>1. j.value # NoPrio /\ (~Lost(j.of) => saved[j.of] = j.value)
    BY <1>4 DEF Recorded, Filed
  <2>2. Agreed'
    <3> SUFFICES ASSUME ~cut, NEW v \in Versions, Find("rofs", v) # {}, saved[v] # NoPrio
                 PROVE  saved[v] = setting'[v] \/ (Runs("setenv", v)' /\ ~Lost(v)')
      BY <1>1 DEF Agreed, Find, SlotsOf
    <3>1. saved[v] = setting[v] \/ (Runs("setenv", v) /\ ~Lost(v))
      BY DEF Recorded, Agreed
    <3>2. CASE v = j.of
      BY <3>1, <3>2, <2>1, <1>3
    <3>3. CASE v # j.of
      <4>1. Runs("setenv", v) => Runs("setenv", v)'
        BY <3>3, <1>1 DEF Runs
      <4> QED
        BY <3>1, <3>3, <4>1, <1>1, <1>3 DEF Lost
    <3> QED
      BY <3>2, <3>3
  <2>3. \A v \in Known : saved[v] # NoPrio \/ setting'[v] = setting[v]
    BY <2>1, <1>3 DEF Known
  <2>4. \A v \in Versions :
          act[v] = "active" /\ ~Lost(v) /\ Record(v) = NoPrio => Rooted(v)'
    BY <1>1 DEF Recorded, Unrecorded, Rooted
  <2> QED
    BY <2>2, <2>3, <2>4, <1>1, UnitRecorded DEF Boot
<1>5. CASE j.unit = "clear"
  <2>1. j.of \notin Known /\ saved[j.of] = NoPrio
    <3>1. Runs("clear", j.of) /\ Under("clear", j.of)
      BY <1>5 DEF Runs, Under, Flight
    <3> QED
      BY <3>1, <1>2 DEF Recorded, Alongside, Forgotten
  <2>2. Agreed'
    <3>1. \A v : Runs("setenv", v) => Runs("setenv", v)'
      BY <1>1, <1>5 DEF Runs
    <3>2. \A v : Find("rofs", v)' = Find("rofs", v)
      BY <1>1 DEF Find, SlotsOf
    <3> QED
      BY <3>1, <3>2, <2>1, <1>1, <1>3 DEF Recorded, Agreed, Lost
  <2>3. \A v \in Known : saved[v] # NoPrio \/ setting'[v] = setting[v]
    BY <2>1, <1>3 DEF Known
  <2>4. \A v \in Versions :
          act[v] = "active" /\ ~Lost(v) /\ Record(v) = NoPrio => Rooted(v)'
    BY <1>1 DEF Recorded, Unrecorded, Rooted
  <2> QED
    BY <2>2, <2>3, <2>4, <1>1, UnitRecorded DEF Boot
<1> QED
  BY <1>4, <1>5

(* A variable that is not set is what cut tells.                            *)
LEMMA FailsRecorded ==
  ASSUME Inv, Boot, Recorded, NEW j \in jobs, Fails(j)
  PROVE  Recorded'
<1>1. /\ ended' = JobRemoved(j, FALSE)
      /\ cut' = (cut \/ j.unit \in {"vars", "setenv", "clear"})
      /\ UNCHANGED <<vol, env, saved, setting, act, shown, todo, before, running, lost, used>>
  BY DEF Fails, flash
<1>2. /\ \A u \in jobs' : u \in jobs \/ u.unit = "remove"
      /\ jobs \ {j} \subseteq jobs'
  BY DEF Fails, Started, Unit
<1>3. Agreed'
  <2>1. ~cut' => ~cut /\ j.unit # "setenv"
    BY <1>1
  <2>2. \A v : j.unit # "setenv" /\ Runs("setenv", v) => Runs("setenv", v)'
    BY <1>2 DEF Runs
  <2>3. \A v : Find("rofs", v)' = Find("rofs", v)
    BY <1>1 DEF Find, SlotsOf
  <2> QED
    BY <2>1, <2>2, <2>3, <1>1 DEF Recorded, Agreed, Lost
<1>4. \A v \in Versions :
        act[v] = "active" /\ ~Lost(v) /\ Record(v) = NoPrio => Rooted(v)'
  BY <1>1 DEF Recorded, Unrecorded, Rooted
<1> QED
  BY <1>1, <1>2, <1>3, <1>4, UnitRecorded DEF Boot

----------------------------------------------------------------------------
(* The handlers.                                                            *)

(* What the next effect does to the files and the queue.                    *)
LEMMA CarryOutSaves ==
  ASSUME Inv, Recorded, CarryOut
  PROVE  LET x == todo[1].unit.of
         IN /\ x \in Versions
            /\ UNCHANGED <<vol, env, setting, act, shown, running, lost, cut, used, ended>>
            /\ \A v \in Versions : Saving(v)' <=> Saving(v) /\ ~(todo[1].do = "save" /\ v = x)
            /\ todo[1].do = "save" => /\ Saving(x) /\ Under("setenv", x)
                                      /\ todo[1].unit.unit = "setenv"
                                      /\ todo[1].unit.value = shown[x] /\ shown[x] # NoPrio
            /\ todo[1].do # "save" => todo[1].unit.unit # "setenv"
            /\ todo[1].do = "forget" => Under("none", x) /\ x \notin Known
            /\ saved' = IF todo[1].do = "save" /\ ~Lost(x) THEN [saved EXCEPT ![x] = shown[x]]
                        ELSE IF todo[1].do = "forget" THEN [saved EXCEPT ![x] = NoPrio]
                        ELSE saved
            /\ (\E v \in Versions : Saving(v)') => before' = before
<1> DEFINE first == todo[1]
           x == first.unit.of
<1>1. /\ first \in Effects /\ Len(todo) \in Nat \ {0} /\ Len(todo') = Len(todo) - 1
      /\ \A i \in 1..Len(todo') : todo'[i] = todo[i + 1] /\ i + 1 \in 1..Len(todo)
      /\ UnitsIn(todo) = {first.unit} \cup UnitsIn(todo')
  BY CarryOutDoes
<1>2. /\ 1 \in 1..Len(todo)
      /\ \A i \in 1..Len(todo) :
           i = 1 \/ (i # 1 /\ i - 1 \in 1..Len(todo') /\ todo'[i - 1] = todo[i])
      /\ \A i \in 1..Len(todo') : i + 1 # 1
  BY <1>1
<1>3. x \in Versions
  BY <1>1 DEF Effects, StartedUnits, UnitOf
<1>4. UNCHANGED <<vol, env, setting, act, shown, running, lost, cut, used, ended>>
  BY DEF CarryOut
<1>5. /\ first.do = "save" <=> first.unit.unit = "setenv"
      /\ first.do = "save" => \A k \in 1..Len(todo) :
           todo[k].do = "save" /\ todo[k].unit.of = x => 1 = k
      /\ first.do = "save" => first.unit.value = shown[x]
  BY <1>2 DEF Recorded, Queue, SavesFirst
<1>6. \A v \in Versions : Saving(v)' <=> Saving(v) /\ ~(first.do = "save" /\ v = x)
  <2> TAKE v \in Versions
  <2>1. ASSUME Saving(v)'
        PROVE  Saving(v) /\ ~(first.do = "save" /\ v = x)
    <3>1. PICK i \in 1..Len(todo') : todo'[i].do = "save" /\ todo'[i].unit.of = v
      BY <2>1 DEF Saving
    <3>2. /\ i + 1 \in 1..Len(todo) /\ i + 1 # 1
          /\ todo[i + 1].do = "save" /\ todo[i + 1].unit.of = v
      BY <3>1, <1>1, <1>2
    <3> HIDE DEF first, x
    <3> QED
      BY <3>2, <1>5 DEF Saving
  <2>2. ASSUME Saving(v), ~(first.do = "save" /\ v = x)
        PROVE  Saving(v)'
    <3>1. PICK i \in 1..Len(todo) : todo[i].do = "save" /\ todo[i].unit.of = v
      BY <2>2 DEF Saving
    <3>2. i - 1 \in 1..Len(todo') /\ todo'[i - 1] = todo[i]
      BY <3>1, <2>2, <1>2
    <3> QED
      BY <3>1, <3>2 DEF Saving
  <2> QED
    BY <2>1, <2>2
<1>7. first.unit \in Flight
  BY <1>1 DEF Flight
<1>8. first.do = "save" => Saving(x) /\ Under("setenv", x) /\ shown[x] # NoPrio
  <2>1. first.do = "save" => Saving(x) /\ Under("setenv", x)
    BY <1>2, <1>5, <1>7 DEF Saving, Under
  <2> QED
    BY <2>1, <1>3 DEF Recorded, Alongside
<1>9. first.do = "forget" => Under("none", x) /\ x \notin Known
  <2>1. first.do = "forget" => first.unit.unit = "none"
    BY <1>1 DEF Effects, UnitOf
  <2>2. first.do = "forget" => Under("none", x)
    BY <2>1, <1>7 DEF Under
  <2> QED
    BY <2>2, <1>3 DEF Recorded, Alongside
<1>10. saved' = IF first.do = "save" /\ ~Lost(x) THEN [saved EXCEPT ![x] = shown[x]]
                ELSE IF first.do = "forget" THEN [saved EXCEPT ![x] = NoPrio]
                ELSE saved
  <2>1. first = Head(todo)
    BY <1>1 DEF CarryOut, Inv
  <2>2. saved' = CASE first.do = "save" /\ ~(lost /\ x = running)
                                          -> [saved EXCEPT ![x] = first.unit.value]
                   [] first.do = "forget" -> [saved EXCEPT ![x] = NoPrio]
                   [] OTHER               -> saved
    BY <2>1 DEF CarryOut
  <2> HIDE DEF first, x
  <2> QED
    BY <2>2, <1>5 DEF Lost
<1>11. (\E v \in Versions : Saving(v)') => before' = before
  <2>1. (\E v \in Versions : Saving(v)') => todo' # <<>>
    BY DEF Saving
  <2> QED
    BY <2>1 DEF CarryOut
<1> QED
  BY <1>3, <1>4, <1>5, <1>6, <1>8, <1>9, <1>10, <1>11

LEMMA CarryOutQueue ==
  ASSUME Inv, Recorded, CarryOut
  PROVE  /\ Queue'
         /\ todo[1].unit.unit = "vars" => \A v \in Versions : ~Saving(v)
         /\ todo[1].unit.unit = "clear" => saved[todo[1].unit.of] = NoPrio
<1> DEFINE first == todo[1]
           x == first.unit.of
<1>1. /\ first \in Effects /\ Len(todo) \in Nat \ {0} /\ Len(todo') = Len(todo) - 1
      /\ \A i \in 1..Len(todo') : todo'[i] = todo[i + 1] /\ i + 1 \in 1..Len(todo)
      /\ UnitsIn(todo) = {first.unit} \cup UnitsIn(todo')
  BY CarryOutDoes
<1>2. /\ 1 \in 1..Len(todo)
      /\ \A i \in 1..Len(todo) :
           i = 1 \/ (i # 1 /\ i - 1 \in 1..Len(todo') /\ todo'[i - 1] = todo[i])
  BY <1>1
<1>3. /\ x \in Versions /\ shown' = shown
      /\ first.do = "save" => shown[x] # NoPrio
      /\ saved' = IF first.do = "save" /\ ~Lost(x) THEN [saved EXCEPT ![x] = shown[x]]
                  ELSE IF first.do = "forget" THEN [saved EXCEPT ![x] = NoPrio]
                  ELSE saved
  BY CarryOutSaves
<1>4. first.unit.unit = "none" <=> first.do = "forget"
  BY <1>1 DEF Effects, StartedUnits, UnitOf
<1>5. SavesFirst(todo')
  <2> SUFFICES ASSUME NEW i \in 1..Len(todo')
               PROVE  /\ todo'[i].do = "save" <=> todo'[i].unit.unit = "setenv"
                      /\ todo'[i].do = "save" => \A k \in 1..Len(todo') :
                           /\ todo'[k].unit.unit = "vars" => i < k
                           /\ todo'[k].do = "save" /\ todo'[k].unit.of = todo'[i].unit.of => i = k
    BY DEF SavesFirst
  <2>1. todo'[i] = todo[i + 1] /\ i + 1 \in 1..Len(todo)
    BY <1>1
  <2>2. todo[i + 1].do = "save" <=> todo[i + 1].unit.unit = "setenv"
    BY <2>1 DEF Recorded, Queue, SavesFirst
  <2>3. ASSUME todo'[i].do = "save", NEW k \in 1..Len(todo')
        PROVE  /\ todo'[k].unit.unit = "vars" => i < k
               /\ todo'[k].do = "save" /\ todo'[k].unit.of = todo'[i].unit.of => i = k
    <3>1. todo'[k] = todo[k + 1] /\ k + 1 \in 1..Len(todo)
      BY <1>1
    <3>2. /\ todo[k + 1].unit.unit = "vars" => i + 1 < k + 1
          /\ todo[k + 1].do = "save" /\ todo[k + 1].unit.of = todo[i + 1].unit.of
               => i + 1 = k + 1
      BY <2>1, <2>3, <3>1 DEF Recorded, Queue, SavesFirst
    <3>3. i \in Int /\ k \in Int
      BY <1>1
    <3> QED
      BY <2>1, <3>1, <3>2, <3>3
  <2> QED
    BY <2>1, <2>2, <2>3
<1>6. ClearsLast(todo', Forgotten')
  <2> SUFFICES ASSUME NEW i \in 1..Len(todo'), todo'[i].unit.unit = "clear",
                      todo'[i].unit.of \notin Forgotten'
               PROVE  \E k \in 1..Len(todo') : /\ k < i /\ todo'[k].unit.unit = "none"
                                              /\ todo'[k].unit.of = todo'[i].unit.of
    BY DEF ClearsLast
  <2> DEFINE v == todo'[i].unit.of
  <2>1. todo'[i] = todo[i + 1] /\ i + 1 \in 1..Len(todo)
    BY <1>1
  <2>2. v \in Versions /\ v \notin Known
    <3>1. todo'[i].unit \in Flight
      BY <2>1 DEF Flight, UnitsIn
    <3>2. v \in Versions /\ Under("clear", v)
      BY <3>1, FlightUnits DEF Under
    <3> QED
      BY <3>2 DEF Recorded, Alongside
  <2>3. saved'[v] # NoPrio
    BY <2>2 DEF Forgotten
  <2> HIDE DEF x
  <2>4. saved'[v] = saved[v] /\ ~(first.do = "forget" /\ v = x)
    <3>1. v # x \/ first.do # "save"
      BY <1>3, <2>2 DEF Recorded, Ranked, Known
    <3>2. saved \in [Versions -> Priorities \cup {NoPrio}]
      BY DEF Inv, TypeOK
    <3> HIDE DEF v, first
    <3> QED
      BY <3>1, <3>2, <2>2, <2>3, <1>3
  <2>5. v \notin Forgotten
    BY <2>3, <2>4 DEF Forgotten
  <2>6. PICK k \in 1..Len(todo) : /\ k < i + 1 /\ todo[k].unit.unit = "none"
                                  /\ todo[k].unit.of = v
    BY <2>1, <2>5 DEF Recorded, Queue, ClearsLast
  <2>7. k # 1
    BY <2>4, <2>6, <1>4 DEF x
  <2>8. k - 1 \in 1..Len(todo') /\ todo'[k - 1] = todo[k] /\ k - 1 < i
    <3>1. k - 1 \in 1..Len(todo') /\ todo'[k - 1] = todo[k]
      BY <2>7, <1>2
    <3>2. k \in Int /\ i \in Int
      BY <1>1
    <3> QED
      BY <2>6, <3>1, <3>2
  <2> QED
    BY <2>6, <2>8
<1>7. \A i \in 1..Len(todo') : todo'[i].do = "save" =>
        todo'[i].unit.value = shown'[todo'[i].unit.of]
  BY <1>1, <1>3 DEF Recorded, Queue
<1>8. first.unit.unit = "vars" => \A v \in Versions : ~Saving(v)
  <2>1. \A i \in 1..Len(todo) : first.unit.unit = "vars" => todo[i].do # "save"
    <3>1. \A i \in 1..Len(todo) : ~(i < 1)
      BY <1>1
    <3> QED
      BY <3>1, <1>2 DEF Recorded, Queue, SavesFirst
  <2> QED
    BY <2>1 DEF Saving
<1>9. first.unit.unit = "clear" => saved[x] = NoPrio
  <2>1. \A k \in 1..Len(todo) : ~(k < 1)
    BY <1>1
  <2> QED
    BY <2>1, <1>2 DEF Recorded, Queue, ClearsLast, Forgotten
<1> HIDE DEF first, x
<1> QED
  BY <1>5, <1>6, <1>7, <1>8, <1>9 DEF Queue, first, x

(* The file is written before the unit that sets the variable starts.       *)
LEMMA CarryOutRecorded ==
  ASSUME Inv, Boot, Recorded, CarryOut
  PROVE  Recorded'
<1> DEFINE first == todo[1]
<1>0. PICK x \in Versions : x = first.unit.of
  BY CarryOutSaves
<1>1. /\ UnitsIn(todo) = {first.unit} \cup UnitsIn(todo')
      /\ jobs \subseteq jobs' /\ jobs' \subseteq jobs \cup {first.unit}
      /\ first.unit.unit # "none"
           => \E u \in jobs' : u.unit = first.unit.unit /\ u.of = first.unit.of
      /\ first.unit.unit = "none" => jobs' = jobs
  BY CarryOutDoes
<1>2. /\ UNCHANGED <<vol, env, setting, act, shown, running, lost, cut, used, ended>>
      /\ \A v \in Versions : Saving(v)' <=> Saving(v) /\ ~(first.do = "save" /\ v = x)
      /\ first.do = "save" => /\ Saving(x) /\ Under("setenv", x)
                              /\ first.unit.unit = "setenv"
                              /\ first.unit.value = shown[x] /\ shown[x] # NoPrio
      /\ first.do # "save" => first.unit.unit # "setenv"
      /\ first.do = "forget" => Under("none", x) /\ x \notin Known
      /\ saved' = IF first.do = "save" /\ ~Lost(x) THEN [saved EXCEPT ![x] = shown[x]]
                  ELSE IF first.do = "forget" THEN [saved EXCEPT ![x] = NoPrio]
                  ELSE saved
      /\ (\E v \in Versions : Saving(v)') => before' = before
  BY <1>0, CarryOutSaves
<1>3. /\ Queue'
      /\ first.unit.unit = "vars" => \A v \in Versions : ~Saving(v)
      /\ first.unit.unit = "clear" => saved[x] = NoPrio
  BY <1>0, CarryOutQueue
<1> HIDE DEF first
<1>4. /\ \A name, v : Runs(name, v) => Runs(name, v)'
      /\ \A name, v : Runs(name, v)' => Runs(name, v) \/ (name = first.unit.unit /\ v = x)
      /\ \A name, v : Under(name, v)' => Under(name, v)
      /\ first.do = "save" => Runs("setenv", x)'
  <2>1. \A name, v : Runs(name, v) => Runs(name, v)'
    BY <1>1 DEF Runs
  <2>2. \A name, v : Runs(name, v)' => Runs(name, v) \/ (name = first.unit.unit /\ v = x)
    BY <1>0, <1>1 DEF Runs
  <2>3. \A name, v : Under(name, v)' => Under(name, v)
    BY <1>1 DEF Under, Flight
  <2>4. first.do = "save" => Runs("setenv", x)'
    BY <1>0, <1>1, <1>2 DEF Runs
  <2> QED
    BY <2>1, <2>2, <2>3, <2>4
<1>5. /\ \A v : Lost(v)' <=> Lost(v)
      /\ Known' = Known
  BY <1>2 DEF Lost, Known
<1>6. /\ \A v \in Versions \ {x} : saved'[v] = saved[v]
      /\ first.do = "save" /\ ~Lost(x) => saved'[x] = shown[x] /\ x \in Known
      /\ first.do = "save" /\ Lost(x) => saved'[x] = saved[x]
      /\ first.do = "forget" => saved'[x] = NoPrio
      /\ first.do \notin {"save", "forget"} => saved'[x] = saved[x]
  <2>1. saved \in [Versions -> Priorities \cup {NoPrio}]
    BY DEF Inv, TypeOK
  <2>2. first.do = "save" => x \in Known
    BY <1>2 DEF Recorded, Ranked, Known
  <2> QED
    BY <1>2, <2>1, <2>2
<1>7. \A v \in Known : saved'[v] = saved[v] \/ (v = x /\ saved'[v] = shown[v] /\ ~Lost(v))
  BY <1>2, <1>6 DEF Known
<1>8. Ranked'
  BY <1>2 DEF Recorded, Ranked
<1>9. Awaited'
  <2> SUFFICES ASSUME NEW g \in ended
               PROVE  /\ g.of # running
                      /\ g.unit = "write" => act[g.of] = "writing"
                      /\ g.unit = "vars" => shown[g.of] # NoPrio /\ saved'[g.of] # NoPrio
    BY <1>2 DEF Awaited
  <2>1. g.of \in Known
    BY DEF Boot, Orderly, Stopped
  <2> QED
    BY <2>1, <1>7 DEF Recorded, Awaited
<1>10. Alongside'
  <2> SUFFICES ASSUME NEW v \in Versions
               PROVE  /\ Saving(v)' => /\ ~Runs("setenv", v)'
                                       /\ (act[v] = "finishing" => ~Runs("vars", v)')
                      /\ Under("setenv", v)' =>
                           shown[v] # NoPrio /\ \A w \in Versions : act[w] # "writing"
                      /\ Under("clear", v)' \/ Under("none", v)' => v \notin Known
                      /\ Runs("clear", v)' => v \in Forgotten'
    BY <1>2, <1>5 DEF Alongside
  <2>1. Saving(v)' => /\ ~Runs("setenv", v)'
                      /\ (act[v] = "finishing" => ~Runs("vars", v)')
    BY <1>2, <1>3, <1>4 DEF Recorded, Alongside
  <2>2. /\ Under("setenv", v)' =>
             shown[v] # NoPrio /\ \A w \in Versions : act[w] # "writing"
        /\ Under("clear", v)' \/ Under("none", v)' => v \notin Known
    BY <1>4 DEF Recorded, Alongside
  <2>3. ASSUME Runs("clear", v)'
        PROVE  saved'[v] = NoPrio
    <3>1. saved[v] = NoPrio
      BY <2>3, <1>3, <1>4 DEF Recorded, Alongside, Forgotten
    <3>2. v \notin Known
      BY <2>2, <2>3 DEF Runs, Under, Flight
    <3> QED
      BY <3>1, <3>2, <1>6
  <2> QED
    BY <2>1, <2>2, <2>3 DEF Forgotten
<1>11. Fresh'
  <2> SUFFICES ASSUME NEW v \in Versions, v \notin used \/ Under("write", v)
               PROVE  saved'[v] = NoPrio
    BY <1>2, <1>4 DEF Fresh, Forgotten
  <2>1. saved[v] = NoPrio
    BY DEF Recorded, Fresh, Forgotten
  <2>2. first.do = "save" => v # x
    <3>1. first.do = "save" => x \in used /\ ~Under("write", x)
      BY <1>2, <1>6 DEF Boot, Orderly, OneWriter, TwoKnown, Alone, Recorded, Ranked, Known
    <3> QED
      BY <3>1
  <2> QED
    BY <2>1, <2>2, <1>6
<1>12. \A v \in Versions : shown[v] # NoPrio => v \in Known
  BY DEF Recorded, Ranked, Known
<1>13. \A v \in Known : /\ saved'[v] = saved[v] => Record(v)' = Record(v) /\ Kept(v)' = Kept(v)
                        /\ saved'[v] # NoPrio => Record(v)' = saved'[v] /\ Kept(v)' = saved'[v]
  BY <1>2 DEF Record, Kept, Default
<1>14. Stored'
  <2> SUFFICES ASSUME NEW v \in Versions, shown[v] # NoPrio, ~Lost(v)
               PROVE  /\ ~Saving(v)' => Kept(v)' = shown[v]
                                        /\ (act[v] # "active" => saved'[v] # NoPrio)
                      /\ Saving(v)' /\ act[v] = "active" => Kept(v)' = before'[v]
    BY <1>2, <1>5 DEF Stored
  <2>1. CASE first.do = "save" /\ v = x
    BY <2>1, <1>2, <1>6, <1>12, <1>13
  <2>2. CASE ~(first.do = "save" /\ v = x)
    <3>1. saved'[v] = saved[v]
      BY <2>2, <1>2, <1>6, <1>12
    <3>2. Saving(v)' <=> Saving(v)
      BY <2>2, <1>2
    <3>3. Saving(v)' => before' = before
      BY <1>2
    <3> QED
      BY <3>1, <3>2, <3>3, <1>12, <1>13 DEF Recorded, Stored
  <2> QED
    BY <2>1, <2>2
<1>15. Unrecorded'
  <2> SUFFICES ASSUME NEW v \in Versions, act[v] = "active", ~Lost(v), Record(v)' = NoPrio
               PROVE  /\ Rooted(v)'
                      /\ \A w \in Versions : Moves(v, w) =>
                           ~Runs("vars", w)' /\ (Under("vars", w)' => Saving(v)')
    BY <1>2, <1>5 DEF Unrecorded, Moves
  <2>1. v \in Known /\ shown[v] # NoPrio
    BY DEF Known, Recorded, Ranked
  <2>2. saved'[v] = saved[v] /\ Record(v) = NoPrio
    BY <2>1, <1>7, <1>13
  <2>3. Saving(v)' <=> Saving(v)
    BY <2>1, <2>2, <1>2, <1>6, <1>13
  <2>4. Rooted(v)'
    BY <2>2, <1>2 DEF Recorded, Unrecorded, Rooted
  <2>5. ASSUME NEW w \in Versions, Moves(v, w)
        PROVE  ~Runs("vars", w)' /\ (Under("vars", w)' => Saving(v)')
    <3>1. ~Runs("vars", w) /\ (Under("vars", w) => Saving(v))
      BY <2>2, <2>5 DEF Recorded, Unrecorded
    <3>2. Runs("vars", w)' => first.unit.unit = "vars" /\ Under("vars", w)
      BY <3>1, <1>4 DEF Runs, Under, Flight
    <3> QED
      BY <3>1, <3>2, <2>3, <1>3, <1>4
  <2> QED
    BY <2>4, <2>5
<1>16. Filed'
  <2> SUFFICES ASSUME NEW j \in jobs', j.unit = "setenv"
               PROVE  j.value # NoPrio /\ (~Lost(j.of) => saved'[j.of] = j.value)
    BY <1>5 DEF Filed
  <2>1. CASE j \in jobs
    <3>1. j.value # NoPrio /\ (~Lost(j.of) => saved[j.of] = j.value)
      BY <2>1 DEF Recorded, Filed
    <3>2. j.of \in Versions /\ Runs("setenv", j.of) /\ Under("setenv", j.of)
      BY <2>1 DEF Runs, Under, Flight, Inv, TypeOK, Units
    <3>3. j.of \in Known /\ ~Saving(j.of)
      BY <3>2, <1>12 DEF Recorded, Alongside
    <3>4. saved'[j.of] = saved[j.of]
      BY <3>2, <3>3, <1>2, <1>6
    <3> QED
      BY <3>1, <3>4
  <2>2. CASE j \notin jobs
    <3>1. j = first.unit /\ j.of = x
      BY <2>2, <1>0, <1>1
    <3>2. first.do = "save" /\ j.value = shown[x] /\ shown[x] # NoPrio
      BY <3>1, <1>2
    <3> QED
      BY <3>1, <3>2, <1>6
  <2> QED
    BY <2>1, <2>2
<1>17. Agreed'
  <2> SUFFICES ASSUME ~cut, NEW v \in Versions, Find("rofs", v) # {}, saved'[v] # NoPrio
               PROVE  saved'[v] = setting[v] \/ (Runs("setenv", v)' /\ ~Lost(v))
    BY <1>2, <1>5 DEF Agreed, Find, SlotsOf
  <2>1. CASE first.do = "save" /\ v = x /\ ~Lost(x)
    BY <2>1, <1>4, <1>2
  <2>2. CASE ~(first.do = "save" /\ v = x /\ ~Lost(x))
    <3>1. saved'[v] = saved[v]
      BY <2>2, <1>6
    <3> QED
      BY <3>1, <1>4 DEF Recorded, Agreed
  <2> QED
    BY <2>1, <2>2
<1> QED
  BY <1>3, <1>8, <1>9, <1>10, <1>11, <1>14, <1>15, <1>16, <1>17 DEF Recorded

(* The priorities that are moved up are all those that follow one another.  *)
LEMMA RunIsWhole ==
  ASSUME NEW v \in Versions, NEW value \in Priorities, NEW k \in RunOf(v, value)
  PROVE  k \in Nat /\ k >= value /\ k - value + 1 <= Cardinality(RunOf(v, value))
<1> DEFINE run == RunOf(v, value)
<1>1. /\ value \in Nat /\ k \in Nat /\ k >= value /\ k \in Priorities
      /\ \A m \in value..k : \E w \in Versions \ {v} : shown[w] = m
  BY FlashAssumption DEF RunOf, Priorities
<1>2. value..k \in SUBSET run
  <2> SUFFICES ASSUME NEW m \in value..k
               PROVE  m \in run
    OBVIOUS
  <2>1. m \in Priorities /\ m >= value
    BY <1>1, FlashAssumption DEF Priorities
  <2>2. \A i \in value..m : i \in value..k
    BY <1>1
  <2> QED
    BY <2>1, <2>2, <1>1 DEF RunOf
<1>3. IsFiniteSet(run)
  <2>1. run \in SUBSET Priorities /\ IsFiniteSet(Priorities)
    <3>1. 0 \in Int /\ PrioLimit - 1 \in Int
      BY FlashAssumption
    <3> QED
      BY <3>1, FS_Interval DEF RunOf, Priorities
  <2> QED
    BY <2>1, FS_Subset
<1>4. Cardinality(value..k) = k - value + 1
  <2>1. value \in Int /\ k \in Int
    BY <1>1
  <2>2. Cardinality(value..k) = IF value > k THEN 0 ELSE k - value + 1
    BY <2>1, FS_Interval
  <2> QED
    BY <2>2, <1>1
<1> HIDE DEF run
<1>5. Cardinality(value..k) <= Cardinality(run)
  BY <1>2, <1>3, FS_Subset
<1> QED
  BY <1>1, <1>4, <1>5 DEF run

(* What freePriority leaves to be done, effect by effect.                   *)
LEMMA AssignQueue ==
  ASSUME Inv, NEW v \in Versions, NEW value \in Priorities, AssignPriority(v, value)
  PROVE  \E low \in LowestAfter(v, value), pick \in [RunOf(v, value) -> Versions \ {v}],
            n \in Nat :
           /\ \A k \in RunOf(v, value) : shown[pick[k]] = k
           /\ shown' = [w \in Versions |->
                          IF w = v THEN value
                          ELSE IF \E k \in RunOf(v, value) : pick[k] = w THEN Bumped(shown[w])
                          ELSE shown[w]]
           /\ todo = <<>> /\ before' = shown
           /\ Len(todo') = n + 2 /\ todo'[1] = Save(v, value)
           /\ todo'[n + 2] = Start(Unit("vars", low, NoPrio))
           /\ \A i \in 2..n + 1 :
                /\ value + i - 2 \in RunOf(v, value)
                /\ todo'[i] = Save(pick[value + i - 2], Bumped(value + i - 2))
           /\ \A k \in RunOf(v, value) : k - value + 2 \in 2..n + 1
<1> DEFINE run == RunOf(v, value)
           n == Cardinality(run)
<1>1. PICK low \in LowestAfter(v, value), pick \in [run -> Versions \ {v}] :
        /\ \A k \in run : shown[pick[k]] = k
        /\ shown' = [w \in Versions |->
                       IF w = v THEN value
                       ELSE IF \E k \in run : pick[k] = w THEN Bumped(shown[w])
                       ELSE shown[w]]
        /\ Handler(<<Save(v, value)>> \o Bumps(value, run, pick)
                     \o <<Start(Unit("vars", low, NoPrio))>>)
  BY DEF AssignPriority
<1>2. n \in Nat /\ \A i \in 1..n : value + i - 1 \in run
  BY RunIsInterval
<1>3. value \in Nat /\ \A k \in run : k \in Nat /\ k >= value /\ k - value + 1 <= n
  BY RunIsWhole, FlashAssumption DEF Priorities
<1> DEFINE first == Save(v, value)
           bumps == Bumps(value, run, pick)
           last == Start(Unit("vars", low, NoPrio))
<1>4. /\ Len(bumps) = n /\ bumps = [i \in 1..n |-> bumps[i]]
      /\ \A i \in 1..n : bumps[i] = Save(pick[value + i - 1], Bumped(value + i - 1))
  BY <1>2 DEF Bumps
<1>5. todo = <<>> /\ todo' = <<first>> \o bumps \o <<last>> /\ before' = shown
  BY <1>1 DEF Handler
<1>6. /\ Len(todo') = n + 2 /\ todo'[1] = first /\ todo'[n + 2] = last
      /\ \A i \in 2..n + 1 : i - 1 \in 1..n /\ todo'[i] = bumps[i - 1]
  <2> DEFINE S == {first, last} \cup {bumps[i] : i \in 1..n}
  <2>1. bumps \in Seq(S) /\ first \in S /\ last \in S
    <3> HIDE DEF n, bumps, first, last
    <3> QED
      BY <1>2, <1>4
  <2> HIDE DEF n, bumps, first, last, S
  <2> DEFINE all == <<first>> \o bumps \o <<last>>
  <2>2. /\ Len(all) = Len(bumps) + 2 /\ all[1] = first /\ all[Len(bumps) + 2] = last
        /\ \A i \in 2..Len(bumps) + 1 : i - 1 \in 1..Len(bumps) /\ all[i] = bumps[i - 1]
    BY <2>1, Sandwich
  <2>3. todo' = all /\ Len(bumps) = n
    BY <1>4, <1>5
  <2> HIDE DEF all
  <2> QED
    BY <2>2, <2>3
<1>7. \A i \in 2..n + 1 :
        /\ value + i - 2 \in run
        /\ todo'[i] = Save(pick[value + i - 2], Bumped(value + i - 2))
  <2> TAKE i \in 2..n + 1
  <2> DEFINE m == i - 1
  <2>1. m \in 1..n /\ value + m - 1 = value + i - 2 /\ todo'[i] = bumps[m]
    BY <1>2, <1>3, <1>6
  <2> HIDE DEF m, n, run, bumps
  <2>2. bumps[m] = Save(pick[value + m - 1], Bumped(value + m - 1)) /\ value + m - 1 \in run
    BY <2>1, <1>2, <1>4
  <2> QED
    BY <2>1, <2>2
<1>8. \A k \in run : k - value + 2 \in 2..n + 1
  <2> HIDE DEF n, run
  <2> QED
    BY <1>2, <1>3
<1> HIDE DEF n
<1> QED
  BY <1>1, <1>2, <1>5, <1>6, <1>7, <1>8 DEF first, last

LEMMA AssignSaves ==
  ASSUME Inv, NEW v \in Versions, NEW value \in Priorities, AssignPriority(v, value)
  PROVE  /\ todo = <<>> /\ before' = shown /\ shown'[v] = value
         /\ SavesFirst(todo') /\ ClearsLast(todo', {})
         /\ \A i \in 1..Len(todo') : todo'[i].do = "save" =>
              /\ todo'[i].unit.of \in Versions /\ todo'[i].unit.value \in Priorities
              /\ todo'[i].unit.value = shown'[todo'[i].unit.of]
         /\ \A u \in UnitsIn(todo') : u.unit \in {"setenv", "vars"}
         /\ Saving(v)'
         /\ \A w \in Versions : shown'[w] # shown[w] => Saving(w)'
         /\ \A w \in Versions \ {v} :
              shown[w] = value /\ (\A u \in Versions \ {v, w} : shown[u] # value) => Saving(w)'
         /\ \E low \in Versions :
              /\ \A u \in UnitsIn(todo') : u.unit = "vars" => u.of = low
              /\ low # v => shown[low] # NoPrio /\ shown[low] < value
              /\ low = v => \A w \in Versions \ {v} : shown[w] = NoPrio \/ value <= shown[w]
<1> DEFINE run == RunOf(v, value)
<1>1. PICK low \in LowestAfter(v, value), pick \in [run -> Versions \ {v}], n \in Nat :
           /\ \A k \in run : shown[pick[k]] = k
           /\ shown' = [w \in Versions |->
                          IF w = v THEN value
                          ELSE IF \E k \in run : pick[k] = w THEN Bumped(shown[w])
                          ELSE shown[w]]
           /\ todo = <<>> /\ before' = shown
           /\ Len(todo') = n + 2 /\ todo'[1] = Save(v, value)
           /\ todo'[n + 2] = Start(Unit("vars", low, NoPrio))
           /\ \A i \in 2..n + 1 :
                /\ value + i - 2 \in run
                /\ todo'[i] = Save(pick[value + i - 2], Bumped(value + i - 2))
           /\ \A k \in run : k - value + 2 \in 2..n + 1
  BY AssignQueue
<1>2. /\ \A p \in Priorities : p \in Nat /\ p # NoPrio
      /\ \A k \in run : k \in Priorities
  BY FlashAssumption DEF Priorities, NoPrio, RunOf
<1>3. value \in run <=> \E w \in Versions \ {v} : shown[w] = value
  <2>1. \A i \in value..value : i = value
    BY <1>2
  <2>2. value >= value /\ value \in value..value
    BY <1>2
  <2> QED
    BY <2>1, <2>2 DEF RunOf
<1> HIDE DEF run
<1>4. \A w, p : /\ Save(w, p).do = "save" /\ Save(w, p).unit.unit = "setenv"
                /\ Save(w, p).unit.of = w /\ Save(w, p).unit.value = p
                /\ Start(Unit("vars", w, p)).do = "start"
                /\ Start(Unit("vars", w, p)).unit.unit = "vars"
                /\ Start(Unit("vars", w, p)).unit.of = w
  BY DEF Save, Start, Unit
<1>5. /\ todo'[1].do = "save" /\ todo'[1].unit.unit = "setenv"
      /\ todo'[1].unit.of = v /\ todo'[1].unit.value = value
      /\ todo'[n + 2].do = "start" /\ todo'[n + 2].unit.unit = "vars"
      /\ todo'[n + 2].unit.of = low
  BY <1>1, <1>4
<1>6. \A i \in 2..n + 1 : /\ value + i - 2 \in run
                          /\ todo'[i].do = "save" /\ todo'[i].unit.unit = "setenv"
                          /\ todo'[i].unit.of = pick[value + i - 2]
                          /\ todo'[i].unit.value = Bumped(value + i - 2)
  BY <1>1, <1>4
<1>7. \A i \in 1..Len(todo') : i = 1 \/ i \in 2..n + 1 \/ i = n + 2
  BY <1>1
<1>8. \A k \in run : /\ pick[k] \in Versions \ {v} /\ shown[pick[k]] = k
                     /\ shown'[pick[k]] = Bumped(k) /\ Bumped(k) \in Priorities
  <2> TAKE k \in run
  <2>1. pick[k] \in Versions \ {v} /\ shown[pick[k]] = k
    BY <1>1
  <2>2. shown'[pick[k]] = Bumped(shown[pick[k]])
    BY <2>1, <1>1
  <2> QED
    BY <2>1, <2>2, <1>2, BumpedIn
<1>9. shown'[v] = value
  BY <1>1
<1>10. \A i \in 1..Len(todo') : todo'[i].do = "save" =>
         /\ todo'[i].unit.of \in Versions /\ todo'[i].unit.value \in Priorities
         /\ todo'[i].unit.value = shown'[todo'[i].unit.of]
  <2> TAKE i \in 1..Len(todo')
  <2>1. CASE i = 1
    BY <2>1, <1>5, <1>9
  <2>2. CASE i \in 2..n + 1
    BY <2>2, <1>6, <1>8
  <2>3. CASE i = n + 2
    BY <2>3, <1>5
  <2> QED
    BY <2>1, <2>2, <2>3, <1>7
<1>11. SavesFirst(todo')
  <2>1. \A i \in 1..Len(todo') : todo'[i].do = "save" <=> todo'[i].unit.unit = "setenv"
    BY <1>5, <1>6, <1>7
  <2>2. ASSUME NEW i \in 1..Len(todo'), todo'[i].do = "save", NEW k \in 1..Len(todo'),
               todo'[k].unit.unit = "vars"
        PROVE  i < k
    <3>1. k = n + 2 /\ i # n + 2
      BY <2>2, <1>5, <1>6, <1>7
    <3> QED
      BY <3>1, <1>1
  <2>3. ASSUME NEW i \in 1..Len(todo'), todo'[i].do = "save", NEW k \in 1..Len(todo'),
               todo'[k].do = "save", todo'[k].unit.of = todo'[i].unit.of
        PROVE  i = k
    <3>1. (i = 1 \/ i \in 2..n + 1) /\ (k = 1 \/ k \in 2..n + 1)
      BY <2>3, <1>5, <1>7
    <3>2. \A m \in 2..n + 1 : todo'[m].unit.of # v
      BY <1>6, <1>8
    <3>3. CASE i \in 2..n + 1 /\ k \in 2..n + 1
      <4>1. /\ shown[todo'[i].unit.of] = value + i - 2
            /\ shown[todo'[k].unit.of] = value + k - 2
        BY <3>3, <1>6, <1>8
      <4>2. value + i - 2 = value + k - 2
        BY <4>1, <2>3
      <4>3. value \in Nat /\ i \in Nat /\ k \in Nat
        BY <3>3, <1>2
      <4> QED
        BY <4>2, <4>3
    <3> QED
      BY <2>3, <3>1, <3>2, <3>3, <1>5
  <2> QED
    BY <2>1, <2>2, <2>3 DEF SavesFirst
<1>12. \A u \in UnitsIn(todo') : /\ u.unit \in {"setenv", "vars"}
                                 /\ u.unit = "vars" => u.of = low
  BY <1>5, <1>6, <1>7 DEF UnitsIn
<1>13. ClearsLast(todo', {})
  BY <1>12 DEF ClearsLast, UnitsIn
<1>14. Saving(v)'
  <2>1. 1 \in 1..Len(todo')
    BY <1>1
  <2> QED
    BY <2>1, <1>5 DEF Saving
<1>15. ASSUME NEW k \in run
       PROVE  \E i \in 1..Len(todo') : todo'[i].do = "save" /\ todo'[i].unit.of = pick[k]
  <2> DEFINE i == k - value + 2
  <2>1. i \in 2..n + 1
    BY <1>1
  <2>2. k \in Nat /\ value \in Nat /\ Len(todo') = n + 2
    BY <1>1, <1>2
  <2>3. value + i - 2 = k
    BY <2>2
  <2>4. i \in 1..Len(todo')
    BY <2>1, <2>2
  <2> HIDE DEF i
  <2> QED
    BY <2>1, <2>3, <2>4, <1>6
<1>16. \A w \in Versions : (\E k \in run : pick[k] = w) => Saving(w)'
  BY <1>15 DEF Saving
<1>17. \A w \in Versions : shown'[w] # shown[w] => Saving(w)'
  <2>1. \A w \in Versions : w # v /\ ~(\E k \in run : pick[k] = w) => shown'[w] = shown[w]
    BY <1>1
  <2> QED
    BY <2>1, <1>14, <1>16
<1>18. ASSUME NEW w \in Versions \ {v}, shown[w] = value,
              \A u \in Versions \ {v, w} : shown[u] # value
       PROVE  Saving(w)'
  <2>1. value \in run
    BY <1>3, <1>18
  <2>2. pick[value] = w
    BY <2>1, <1>8, <1>18
  <2> QED
    BY <2>1, <2>2, <1>16
<1>19. /\ low \in Versions
       /\ low # v => shown[low] # NoPrio /\ shown[low] < value
       /\ low = v => \A w \in Versions \ {v} : shown[w] = NoPrio \/ value <= shown[w]
  <2>1. \A w \in Versions : shown[w] = NoPrio \/ shown[w] \in Nat
    BY <1>2 DEF Inv, TypeOK
  <2>2. \A w \in Versions : Without(v)[w] = IF w = v THEN NoPrio ELSE shown[w]
    BY DEF Without, Inv, TypeOK
  <2>3. CASE \A w \in Versions \ {v} : shown[w] = NoPrio \/ value <= shown[w]
    BY <2>3, <1>1 DEF LowestAfter
  <2>4. CASE ~(\A w \in Versions \ {v} : shown[w] = NoPrio \/ value <= shown[w])
    <3>1. low \in Lowest(Without(v))
      BY <2>4, <1>1 DEF LowestAfter
    <3>2. /\ low \in Versions /\ Without(v)[low] # NoPrio
          /\ \A w \in Versions : Without(v)[w] # NoPrio => Without(v)[low] <= Without(v)[w]
      BY <3>1 DEF Lowest
    <3>3. low # v /\ shown[low] # NoPrio
      BY <3>2, <2>2
    <3>4. PICK w \in Versions \ {v} : shown[w] # NoPrio /\ ~(value <= shown[w])
      BY <2>4
    <3>5. shown[low] <= shown[w]
      BY <3>2, <3>3, <3>4, <2>2
    <3> QED
      BY <3>2, <3>3, <3>4, <3>5, <2>1, <1>2
  <2> QED
    BY <2>3, <2>4
<1> QED
  BY <1>1, <1>9, <1>10, <1>11, <1>12, <1>13, <1>14, <1>17, <1>18, <1>19

(* Of two versions the one that is not asked for is moved up if it is in    *)
(* the way, so that the environment is only pointed away from a default     *)
(* that is about to be saved.                                               *)
LEMMA AssignRecorded ==
  ASSUME Inv, Boot, Recorded, NEW v \in Known, NEW value \in Priorities,
         AssignPriority(v, value),
         UNCHANGED <<vol, env, saved, setting, jobs, running, lost, cut, used>>,
         ended' = {}, running # Nobody,
         \A w \in Versions : act'[w] = act[w] \/ (w = v /\ v # running /\ act'[w] = "finishing"),
         act'[v] \in {"finishing", "active", "failed"},
         \A w \in Versions : act'[w] # "writing" /\ ~Under("setenv", w),
         \A w \in Versions : act'[w] = "finishing" => w = v /\ ~Under("vars", v)
  PROVE  Recorded'
<1>0. v \in Versions
  BY DEF Known
<1>1. PICK low \in Versions :
        /\ \A u \in UnitsIn(todo') : u.unit = "vars" => u.of = low
        /\ low # v => shown[low] # NoPrio /\ shown[low] < value
        /\ low = v => \A w \in Versions \ {v} : shown[w] = NoPrio \/ value <= shown[w]
  BY <1>0, AssignSaves
<1>2. /\ todo = <<>> /\ before' = shown /\ shown'[v] = value
      /\ SavesFirst(todo') /\ ClearsLast(todo', {})
      /\ \A i \in 1..Len(todo') : todo'[i].do = "save" =>
           /\ todo'[i].unit.of \in Versions /\ todo'[i].unit.value \in Priorities
           /\ todo'[i].unit.value = shown'[todo'[i].unit.of]
      /\ \A u \in UnitsIn(todo') : u.unit \in {"setenv", "vars"}
      /\ Saving(v)'
      /\ \A w \in Versions : shown'[w] # shown[w] => Saving(w)'
      /\ \A w \in Versions \ {v} :
           shown[w] = value /\ (\A u \in Versions \ {v, w} : shown[u] # value) => Saving(w)'
  BY <1>0, AssignSaves
<1>3. \A w \in Versions : shown'[w] # NoPrio <=> shown[w] # NoPrio \/ w = v
  BY <1>0, AssignPriorityDoes
<1>4. /\ \A w : ~Saving(w)
      /\ UnitsIn(todo) = {}
      /\ \A p \in Priorities : p # NoPrio /\ p \in Nat /\ p <= PrioLimit - 1
  BY <1>2, FlashAssumption DEF Saving, UnitsIn, Priorities, NoPrio
<1>5. /\ \A name, w : Runs(name, w)' <=> Runs(name, w)
      /\ \A name, w : Under(name, w)' /\ name \notin {"setenv", "vars"} => Under(name, w)
      /\ \A w : Under("vars", w)' => Runs("vars", w) \/ w = low
      /\ \A name, w : Runs(name, w) => Under(name, w)
  BY <1>1, <1>2 DEF Runs, Under, Flight
<1>6. /\ \A w : Lost(w)' <=> Lost(w)
      /\ \A w : Record(w)' = Record(w) /\ Kept(w)' = Kept(w)
      /\ Forgotten' = Forgotten
  BY DEF Lost, Record, Kept, Default, Forgotten
<1>7. Known' = Known
  BY <1>0 DEF Known
<1>8. Ranked'
  <2>1. running # Nobody => running \in Versions
    BY DEF Inv, TypeOK
  <2> QED
    BY <2>1, <1>0, <1>3 DEF Recorded, Ranked
<1>9. Awaited'
  BY DEF Awaited
<1>10. Queue'
  <2>1. ClearsLast(todo', Forgotten')
    BY <1>2 DEF ClearsLast
  <2> QED
    BY <2>1, <1>2 DEF Queue
<1>11. \A w \in Versions : Under("setenv", w)' => shown'[w] # NoPrio
  <2> SUFFICES ASSUME NEW w \in Versions, Under("setenv", w)'
               PROVE  shown'[w] # NoPrio
    OBVIOUS
  <2>1. PICK u \in UnitsIn(todo') : u.unit = "setenv" /\ u.of = w
    <3>1. ~Runs("setenv", w)
      BY <1>5
    <3> QED
      BY <3>1 DEF Under, Flight, Runs
  <2>2. PICK i \in 1..Len(todo') : u = todo'[i].unit
    BY DEF UnitsIn
  <2>3. todo'[i].do = "save"
    BY <2>1, <2>2, <1>2 DEF SavesFirst
  <2> QED
    BY <2>1, <2>2, <2>3, <1>2, <1>4
<1>12. Alongside'
  <2> SUFFICES ASSUME NEW w \in Versions
               PROVE  /\ Saving(w)' => /\ ~Runs("setenv", w)'
                                       /\ (act'[w] = "finishing" => ~Runs("vars", w)')
                      /\ Under("setenv", w)' =>
                           shown'[w] # NoPrio /\ \A u \in Versions : act'[u] # "writing"
                      /\ Under("clear", w)' \/ Under("none", w)' => w \notin Known'
                      /\ Runs("clear", w)' => w \in Forgotten'
    BY DEF Alongside
  <2>1. ~Runs("setenv", w)' /\ (act'[w] = "finishing" => ~Runs("vars", w)')
    BY <1>5
  <2>2. Under("clear", w)' \/ Under("none", w)' => w \notin Known'
    BY <1>5, <1>7 DEF Recorded, Alongside
  <2>3. Runs("clear", w)' => w \in Forgotten'
    BY <1>5, <1>6 DEF Recorded, Alongside
  <2> QED
    BY <2>1, <2>2, <2>3, <1>11
<1>13. Fresh'
  BY <1>5, <1>6 DEF Recorded, Fresh
<1>14. Stored'
  <2> SUFFICES ASSUME NEW w \in Versions, shown'[w] # NoPrio, ~Lost(w)
               PROVE  /\ ~Saving(w)' => Kept(w) = shown'[w]
                                        /\ (act'[w] # "active" => saved'[w] # NoPrio)
                      /\ Saving(w)' /\ act'[w] = "active" => Kept(w) = before'[w]
    BY <1>6 DEF Stored
  <2>1. CASE ~Saving(w)'
    <3>1. shown'[w] = shown[w] /\ w # v /\ act'[w] = act[w]
      BY <2>1, <1>2
    <3> QED
      BY <2>1, <3>1, <1>4 DEF Recorded, Stored
  <2>2. CASE Saving(w)' /\ act'[w] = "active"
    <3>1. act[w] = "active"
      BY <2>2
    <3>2. shown[w] # NoPrio
      BY <3>1 DEF Recorded, Ranked
    <3> QED
      BY <3>2, <2>2, <1>2, <1>4 DEF Recorded, Stored
  <2> QED
    BY <2>1, <2>2
<1>15. Unrecorded'
  <2> SUFFICES ASSUME NEW w \in Versions, act'[w] = "active", ~Lost(w), Record(w) = NoPrio
               PROVE  /\ Rooted(w)'
                      /\ \A u \in Versions : Moves(w, u) =>
                           ~Runs("vars", u)' /\ (Under("vars", u)' => Saving(w)')
    BY <1>6 DEF Unrecorded, Moves
  <2>1. act[w] = "active"
    OBVIOUS
  <2>2. Rooted(w) /\ \A u \in Versions : Moves(w, u) => ~Runs("vars", u)
    BY <2>1 DEF Recorded, Unrecorded
  <2>3. Rooted(w)'
    BY <2>2 DEF Rooted
  <2>4. w \in Known /\ shown[w] = Default(w) /\ shown[w] # NoPrio
    <3>1. shown[w] # NoPrio
      BY <2>1 DEF Recorded, Ranked
    <3> QED
      BY <2>1, <3>1, <1>4 DEF Recorded, Stored, Kept, Known
  <2>5. ASSUME Moves(w, low), w # v
        PROVE  Saving(w)'
    <3>1. CASE w = running
      <4>1. \A u \in Versions \ {v, w} : u \notin Known /\ shown[u] = NoPrio
        <5>1. \A u \in Known \ {running} : u = v
          BY <2>5, <3>1 DEF Boot, Orderly, TwoKnown
        <5> QED
          BY <5>1, <3>1 DEF Recorded, Ranked, Known
      <4>2. low = v
        BY <4>1, <2>5, <3>1, <1>1 DEF Moves
      <4>3. shown[w] = 0 /\ value <= 0
        BY <4>2, <2>4, <2>5, <3>1, <1>1 DEF Default
      <4>4. value = 0
        BY <4>3, <1>4
      <4> QED
        BY <4>1, <4>3, <4>4, <2>5, <1>2, <1>4
    <3>2. CASE w # running
      <4>1. low = w /\ shown[w] < value /\ shown[w] = PrioLimit - 1
        BY <3>2, <2>4, <2>5, <1>1 DEF Moves, Default
      <4> QED
        BY <4>1, <1>4, FlashAssumption
    <3> QED
      BY <3>1, <3>2
  <2>6. ASSUME NEW u \in Versions, Moves(w, u)
        PROVE  ~Runs("vars", u)' /\ (Under("vars", u)' => Saving(w)')
    BY <2>2, <2>5, <2>6, <1>2, <1>5
  <2> QED
    BY <2>3, <2>6
<1>16. Filed'
  BY <1>6 DEF Recorded, Filed
<1>17. Agreed'
  BY <1>5, <1>6 DEF Recorded, Agreed, Find, SlotsOf
<1> QED
  BY <1>8, <1>9, <1>10, <1>12, <1>13, <1>14, <1>15, <1>16, <1>17 DEF Recorded

(* A client asks for a priority.                                            *)
LEMMA SetPriorityRecorded ==
  ASSUME DefaultLayout, Inv, Boot, Recorded, NEW v \in Versions, NEW value \in Wanted,
         SetPriority(v, value)
  PROVE  Recorded'
<1>1. value \in Priorities
  BY FlashAssumption DEF Priorities
<1>2. /\ running # Nobody /\ ended = {} /\ \A name, w : ~Under(name, w)
      /\ \A w \in Versions : act[w] \in {"absent", "active", "failed"}
  BY CalledIdle DEF SetPriority, Boot
<1>3. /\ v \in Known /\ act[v] \in {"active", "failed"}
      /\ AssignPriority(v, value)
      /\ UNCHANGED <<vol, env, saved, setting, rwreset, act, located, jobs, ended,
                     running, lost, exposed, half, cut, mixed, used, faults>>
  BY <1>2 DEF SetPriority, flash, Recorded, Ranked, Known
<1>4. act'[v] \in {"finishing", "active", "failed"} /\ ended' = {}
  BY <1>2, <1>3
<1> QED
  BY <1>1, <1>2, <1>3, <1>4, AssignRecorded

(* An activation is told of the end of its unit.                            *)
LEMMA UnitEndedRecorded ==
  ASSUME Inv, Boot, Settled, Recorded, NEW signal \in ended, UnitEnded(signal)
  PROVE  Recorded'
<1> DEFINE v == signal.of
<1>1. /\ v \in Known /\ v \in Versions /\ running # Nobody /\ v # running
      /\ 0 \in Priorities /\ signal.unit \in {"write", "vars"} /\ signal.done \in BOOLEAN
  BY FlashAssumption
     DEF Inv, TypeOK, Boot, Orderly, Stopped, Known, Recorded, Awaited, Priorities
<1>2. /\ todo = <<>> /\ ended' = ended \ {signal}
      /\ UNCHANGED <<vol, env, saved, setting, jobs, running, lost, cut, used>>
  BY DEF UnitEnded, flash
<1>3. PICK next \in {"failed", "finishing", "active"} :
        /\ act' = [act EXCEPT ![v] = next]
        /\ next = "finishing" => signal.unit = "write" /\ AssignPriority(v, 0)
        /\ next = "active" => signal.unit = "vars"
        /\ next # "finishing" => UNCHANGED <<shown, todo, before>>
  BY <1>2 DEF UnitEnded
<1>4. /\ act'[v] = next
      /\ \A w \in Versions : w # v => act'[w] = act[w]
  BY <1>1, <1>3 DEF Inv, TypeOK
<1> HIDE DEF v
<1>5. CASE next = "finishing"
  <2>1. ended = {signal} /\ NoneFinishing /\ ~Under("vars", v) /\ act[v] = "writing"
    BY <1>3, <1>5 DEF Settled, OnePhase, Recorded, Awaited, v
  <2>2. \A w \in Versions : ~Under("setenv", w)
    BY <2>1, <1>1 DEF Recorded, Alongside
  <2>3. \A w \in Versions : act'[w] # "writing"
    <3>1. \A w \in Versions : act[w] = "writing" => w = v
      <4>1. running \in Versions => act[running] = "active"
        BY <1>1 DEF Recorded, Ranked
      <4>2. \A w \in Versions : act[w] = "writing" => w \in Known \ {running}
        BY <4>1 DEF Known
      <4> QED
        BY <4>2, <1>1 DEF Boot, Orderly, TwoKnown
    <3> QED
      BY <3>1, <1>4, <1>5
  <2>4. \A w \in Versions : act'[w] = "finishing" => w = v
    BY <2>1, <1>4 DEF NoneFinishing
  <2>5. ended' = {}
    BY <2>1, <1>2
  <2>6. /\ \A w \in Versions : act'[w] = act[w]
                               \/ (w = v /\ v # running /\ act'[w] = "finishing")
        /\ act'[v] \in {"finishing", "active", "failed"}
    BY <1>1, <1>4, <1>5
  <2>7. AssignPriority(v, 0)
    BY <1>3, <1>5
  <2> QED
    BY <2>1, <2>2, <2>3, <2>4, <2>5, <2>6, <2>7, <1>1, <1>2, AssignRecorded
<1>6. CASE next # "finishing"
  <2>1. todo' = <<>> /\ UNCHANGED <<shown, todo, before>>
    BY <1>2, <1>3, <1>6
  <2>2. /\ \A w : ~Saving(w) /\ ~Saving(w)'
        /\ \A name, w : /\ Runs(name, w)' <=> Runs(name, w)
                        /\ Under(name, w)' <=> Under(name, w)
        /\ \A w : /\ Lost(w)' <=> Lost(w)
                  /\ Record(w)' = Record(w) /\ Kept(w)' = Kept(w)
                  /\ Rooted(w)' <=> Rooted(w)
        /\ Forgotten' = Forgotten
    <3>1. \A w : ~Saving(w) /\ ~Saving(w)'
      BY <2>1, <1>2 DEF Saving
    <3>2. \A name, w : /\ Runs(name, w)' <=> Runs(name, w)
                       /\ Under(name, w)' <=> Under(name, w)
      BY <2>1, <1>2 DEF Runs, Under, Flight
    <3>3. \A w : Lost(w)' <=> Lost(w)
      BY <1>2 DEF Lost
    <3>4. \A w : Record(w)' = Record(w) /\ Kept(w)' = Kept(w)
      BY <1>2 DEF Record, Kept, Default
    <3>5. \A w : Rooted(w)' <=> Rooted(w)
      BY <1>2 DEF Rooted
    <3> QED
      BY <3>1, <3>2, <3>3, <3>4, <3>5, <1>2 DEF Forgotten
  <2>3. Known' = Known
    BY <1>1, <1>3, <1>4 DEF Known
  <2>4. signal.unit = "vars" => shown[v] # NoPrio /\ saved[v] # NoPrio
    BY DEF Recorded, Awaited, v
  <2>5. signal.unit = "write" => act[v] = "writing"
    BY DEF Recorded, Awaited, v
  <2>6. next = "active" => shown[v] # NoPrio /\ saved[v] # NoPrio
    BY <2>4, <1>3
  <2>7. Ranked'
    <3>1. running # Nobody => act'[running] = "active"
      <4>1. running \in Versions
        BY <1>1 DEF Inv, TypeOK
      <4> QED
        BY <4>1, <1>1, <1>4 DEF Recorded, Ranked
    <3>2. act'[v] \in {"failed", "active"} /\ (act'[v] = "active" => shown[v] # NoPrio)
      BY <2>6, <1>3, <1>4, <1>6
    <3>3. \A w \in Versions :
            /\ act'[w] \in {"finishing", "active"} => shown[w] # NoPrio
            /\ shown[w] # NoPrio => act'[w] \in {"finishing", "active", "failed"}
      BY <3>2, <1>4 DEF Recorded, Ranked
    <3> QED
      BY <3>1, <3>3, <2>1, <1>2 DEF Ranked
  <2>8. Awaited'
    <3>1. \A g \in ended' : g \in ended /\ g.unit # "write"
      BY <1>2 DEF Settled, OnePhase
    <3> QED
      BY <3>1, <2>1, <1>2 DEF Recorded, Awaited
  <2>9. Queue'
    BY <2>1 DEF Queue, SavesFirst, ClearsLast
  <2>10. Alongside'
    <3>1. \A w \in Versions : act'[w] = "writing" => act[w] = "writing"
      BY <1>4, <1>3
    <3> QED
      BY <3>1, <2>1, <2>2, <2>3 DEF Recorded, Alongside
  <2>11. Fresh'
    BY <2>2, <1>2 DEF Recorded, Fresh
  <2>12. Stored'
    <3> SUFFICES ASSUME NEW w \in Versions, shown[w] # NoPrio, ~Lost(w)
                 PROVE  Kept(w) = shown[w] /\ (act'[w] # "active" => saved[w] # NoPrio)
      BY <2>1, <2>2, <1>2 DEF Stored
    <3>1. Kept(w) = shown[w] /\ (act[w] # "active" => saved[w] # NoPrio)
      BY <2>2 DEF Recorded, Stored
    <3>2. CASE w = v
      BY <3>1, <3>2, <2>4, <2>5, <1>1
    <3> QED
      BY <3>1, <3>2, <1>4
  <2>13. Unrecorded'
    <3> SUFFICES ASSUME NEW w \in Versions, act'[w] = "active", ~Lost(w),
                        Record(w) = NoPrio
                 PROVE  /\ Rooted(w)
                        /\ \A u \in Versions : Moves(w, u) =>
                             ~Runs("vars", u) /\ (Under("vars", u) => Saving(w))
      BY <2>2, <1>2 DEF Unrecorded, Moves
    <3>1. w # v
      BY <2>6, <1>4 DEF Record
    <3> QED
      BY <3>1, <1>4 DEF Recorded, Unrecorded
  <2>14. Filed' /\ Agreed'
    <3>1. Filed'
      BY <2>2, <1>2 DEF Recorded, Filed
    <3>2. Agreed'
      BY <2>2, <1>2 DEF Recorded, Agreed, Find, SlotsOf
    <3> QED
      BY <3>1, <3>2
  <2> QED
    BY <2>7, <2>8, <2>9, <2>10, <2>11, <2>12, <2>13, <2>14 DEF Recorded
<1> QED
  BY <1>5, <1>6

(* What a handler does in parts.                                            *)
LEMMA ClearsLastInParts ==
  ASSUME NEW S, NEW s \in Seq(S), NEW t \in Seq(S), NEW forgotten,
         ClearsLast(s, forgotten), ClearsLast(t, forgotten)
  PROVE  ClearsLast(s \o t, forgotten)
<1>1. /\ Len(s) \in Nat /\ Len(t) \in Nat /\ Len(s \o t) = Len(s) + Len(t)
      /\ \A i \in 1..Len(s) : (s \o t)[i] = s[i]
      /\ \A i \in 1..Len(t) : (s \o t)[Len(s) + i] = t[i]
  OBVIOUS
<1> DEFINE all == s \o t
<1> HIDE DEF all
<1>2. /\ Len(all) = Len(s) + Len(t)
      /\ \A i \in 1..Len(s) : all[i] = s[i]
      /\ \A i \in 1..Len(t) : all[Len(s) + i] = t[i]
  BY <1>1 DEF all
<1> SUFFICES ASSUME NEW i \in 1..Len(all), all[i].unit.unit = "clear",
                    all[i].unit.of \notin forgotten
             PROVE  \E k \in 1..Len(all) : /\ k < i /\ all[k].unit.unit = "none"
                                           /\ all[k].unit.of = all[i].unit.of
  BY DEF ClearsLast, all
<1>3. CASE i \in 1..Len(s)
  <2>1. PICK k \in 1..Len(s) : /\ k < i /\ s[k].unit.unit = "none"
                               /\ s[k].unit.of = s[i].unit.of
    BY <1>2, <1>3 DEF ClearsLast
  <2>2. k \in 1..Len(all) /\ all[k] = s[k]
    BY <1>1, <1>2
  <2> QED
    BY <2>1, <2>2, <1>2, <1>3
<1>4. CASE i \notin 1..Len(s)
  <2> DEFINE m == i - Len(s)
  <2>1. m \in 1..Len(t) /\ i = Len(s) + m
    BY <1>1, <1>2, <1>4
  <2> HIDE DEF m
  <2>2. all[i] = t[m]
    BY <2>1, <1>2
  <2>3. PICK k \in 1..Len(t) : /\ k < m /\ t[k].unit.unit = "none"
                               /\ t[k].unit.of = t[m].unit.of
    BY <2>1, <2>2 DEF ClearsLast
  <2>4. Len(s) + k \in 1..Len(all) /\ Len(s) + k < i /\ all[Len(s) + k] = t[k]
    BY <2>1, <2>3, <1>1, <1>2
  <2> QED
    BY <2>2, <2>3, <2>4
<1> QED
  BY <1>3, <1>4

(* What saves no priority.                                                  *)
Plain == {effect \in Effects : effect.do # "save"}

LEMMA PlainStart ==
  ASSUME NEW name \in {"write", "remove", "vars", "clear"}, NEW v \in Versions
  PROVE  Start(Unit(name, v, NoPrio)) \in Plain
BY DEF Plain, Effects, StartedUnits, UnitOf, Start, Unit, Values

(* An erased version is forgotten; the environment is set to the running    *)
(* one.                                                                     *)
LEMMA EraseQueue ==
  ASSUME Inv, Boot, Recorded, running # Nobody, NEW x \in Known \ {running}, NEW forgotten,
         NEW reset \in ResetUbootEnvVars(Without(x))
  PROVE  LET effects == reset \o EraseFrom(x)
         IN /\ effects \in Seq(Plain) /\ ClearsLast(effects, forgotten)
            /\ \A u \in UnitsIn(effects) :
                 \/ u.unit = "vars" /\ u.of = running
                 \/ u.unit \in {"none", "clear"} /\ u.of = x
                 \/ u.unit = "remove"
<1> DEFINE erase == EraseFrom(x)
<1>1. x \in Versions /\ reset \in Seq(Effects) /\ erase \in Seq(Effects)
  BY EraseEffects DEF Known
<1>2. \A u \in UnitsIn(reset \o erase) :
        \/ u.unit \in {"none", "clear"}
        \/ u.unit = "remove" /\ u.of = x
        \/ u.unit = "vars" /\ u.of \in Versions \ {x} /\ shown[u.of] # NoPrio
  BY <1>1, EraseDoes
<1>3. \A w \in Versions \ {x} : shown[w] # NoPrio => w = running
  <2>1. \A w \in Known \ {running} : w = x
    BY DEF Boot, Orderly, TwoKnown
  <2> QED
    BY <2>1 DEF Recorded, Ranked, Known
<1>4. \A u \in UnitsIn(reset) : u.unit = "vars"
  <2>1. CASE Lowest(Without(x)) = {}
    BY <2>1, UnitsInOne DEF ResetUbootEnvVars
  <2>2. CASE Lowest(Without(x)) # {}
    <3>1. PICK w \in Lowest(Without(x)) : reset = <<Start(Unit("vars", w, NoPrio))>>
      BY <2>2 DEF ResetUbootEnvVars
    <3>2. UnitsIn(reset) = {Unit("vars", w, NoPrio)}
      BY <3>1, UnitsInOne DEF Start
    <3> QED
      BY <3>2 DEF Unit
  <2> QED
    BY <2>1, <2>2
<1>5. \A u \in UnitsIn(erase) : u.of = x
  BY DEF UnitsIn, EraseFrom, Start, Forget, Unit
<1>6. ClearsLast(reset, forgotten)
  BY <1>4 DEF ClearsLast, UnitsIn
<1>7. ClearsLast(erase, forgotten)
  <2>1. CASE x \notin located
    <3>1. erase = <<>>
      BY <2>1 DEF EraseFrom
    <3> QED
      BY <3>1 DEF ClearsLast
  <2>2. CASE x \in located
    <3> DEFINE a == Start(Unit("remove", x, NoPrio))
               b == Forget(x)
               c == Start(Unit("clear", x, NoPrio))
    <3>1. erase = <<a, b, c>>
      BY <2>2 DEF EraseFrom
    <3>2. /\ a.unit.unit # "clear" /\ b.unit.unit = "none"
          /\ b.unit.of = x /\ c.unit.of = x
      BY DEF Start, Forget, Unit
    <3> HIDE DEF a, b, c, erase
    <3>3. Len(erase) = 3 /\ erase[1] = a /\ erase[2] = b /\ erase[3] = c
      BY <3>1
    <3>4. ASSUME NEW i \in 1..Len(erase), erase[i].unit.unit = "clear"
          PROVE  \E k \in 1..Len(erase) : /\ k < i /\ erase[k].unit.unit = "none"
                                          /\ erase[k].unit.of = erase[i].unit.of
      <4>1. i = 3
        BY <3>2, <3>3, <3>4
      <4> QED
        BY <4>1, <3>2, <3>3
    <3> QED
      BY <3>4 DEF ClearsLast
  <2> QED
    BY <2>1, <2>2
<1>8. UnitsIn(reset \o erase) = UnitsIn(reset) \cup UnitsIn(erase)
  <2> HIDE DEF erase
  <2> QED
    BY <1>1, UnitsInParts
<1>9. ClearsLast(reset \o erase, forgotten)
  <2> HIDE DEF erase
  <2> QED
    BY <1>1, <1>6, <1>7, ClearsLastInParts
<1>10. reset \o erase \in Seq(Plain)
  <2>1. reset \in Seq(Plain)
    <3>1. CASE Lowest(Without(x)) = {}
      BY <3>1 DEF ResetUbootEnvVars
    <3>2. CASE Lowest(Without(x)) # {}
      <4>1. PICK w \in Lowest(Without(x)) : reset = <<Start(Unit("vars", w, NoPrio))>>
        BY <3>2 DEF ResetUbootEnvVars
      <4>2. Start(Unit("vars", w, NoPrio)) \in Plain
        BY LowestIn, PlainStart
      <4> QED
        BY <4>1, <4>2
    <3> QED
      BY <3>1, <3>2
  <2>2. erase \in Seq(Plain)
    <3>1. \A name \in {"remove", "clear"} : Start(Unit(name, x, NoPrio)) \in Plain
      BY <1>1, PlainStart
    <3>2. Forget(x) \in Plain
      BY <1>1 DEF Plain, Effects, UnitOf, Forget, Unit, Values
    <3> QED
      BY <3>1, <3>2 DEF EraseFrom
  <2> HIDE DEF erase
  <2> QED
    BY <2>1, <2>2
<1> HIDE DEF erase
<1>11. \A u \in UnitsIn(reset \o erase) :
         \/ u.unit = "vars" /\ u.of = running
         \/ u.unit \in {"none", "clear"} /\ u.of = x
         \/ u.unit = "remove"
  BY <1>2, <1>3, <1>4, <1>5, <1>8
<1> QED
  BY <1>9, <1>10, <1>11 DEF erase

(* A client calls: what is erased is forgotten, and the environment is set  *)
(* to the running version, which it names already if that has no record.    *)
LEMMA CalledRecorded ==
  ASSUME DefaultLayout, Inv, Boot, Recorded, Called, NEW gone \in SUBSET (Known \ {running}),
         UNCHANGED <<vol, env, saved, setting, jobs, running, lost, cut>>,
         used \subseteq used', ended' \subseteq ended,
         \A w \in gone : act'[w] = "absent" /\ shown'[w] = NoPrio,
         \A w \in Versions \ gone :
           /\ shown'[w] = shown[w]
           /\ act'[w] = act[w] \/ (w \notin Known /\ act'[w] = "writing"),
         todo' \in Seq(Plain), ClearsLast(todo', Forgotten),
         \A u \in UnitsIn(todo') :
           \/ u.unit = "vars" /\ u.of = running
           \/ u.unit \in {"none", "clear"} /\ u.of \in gone
           \/ u.unit = "remove"
           \/ u.unit = "write" /\ u.of \notin used
  PROVE  Recorded'
<1>1. /\ running \in Known /\ running \in Versions /\ todo = <<>> /\ jobs' = {} /\ ended' = {}
      /\ gone \subseteq Versions
  BY CalledIdle DEF Boot, Orderly, TwoKnown, Known
<1>2. \A i \in 1..Len(todo') : todo'[i].do # "save" /\ todo'[i].unit.unit # "setenv"
  BY DEF Plain, UnitsIn
<1>3. \A w : ~Saving(w) /\ ~Saving(w)'
  BY <1>1, <1>2 DEF Saving
<1>4. /\ \A name, w : ~Runs(name, w)'
      /\ \A w : ~Under("setenv", w)'
      /\ \A w : Under("vars", w)' => w = running
      /\ \A w : Under("clear", w)' \/ Under("none", w)' => w \in gone
      /\ \A w : Under("write", w)' => w \notin used
  BY <1>1 DEF Runs, Under, Flight
<1>5. /\ \A w : Lost(w)' <=> Lost(w)
      /\ \A w : Record(w)' = Record(w) /\ Kept(w)' = Kept(w)
      /\ \A w : Rooted(w)' <=> Rooted(w)
      /\ Forgotten' = Forgotten
  <2>1. \A w : Lost(w)' <=> Lost(w)
    BY DEF Lost
  <2>2. \A w : Record(w)' = Record(w) /\ Kept(w)' = Kept(w)
    BY DEF Record, Kept, Default
  <2>3. \A w : Rooted(w)' <=> Rooted(w)
    BY DEF Rooted
  <2> QED
    BY <2>1, <2>2, <2>3 DEF Forgotten
<1>6. \A w \in Versions : shown[w] # NoPrio => w \in Known
  BY DEF Recorded, Ranked, Known
<1>7. \A w \in Versions : shown'[w] # NoPrio =>
        w \notin gone /\ shown'[w] = shown[w] /\ act'[w] = act[w]
  BY <1>6
<1>8. \A w \in Versions : act'[w] \in {"finishing", "active", "failed"} =>
        w \notin gone /\ shown'[w] = shown[w] /\ act'[w] = act[w]
  OBVIOUS
<1>9. Ranked'
  <2>1. act'[running] = "active"
    BY <1>1 DEF Recorded, Ranked, Called
  <2>2. \A w \in Versions :
          /\ act'[w] \in {"finishing", "active"} => shown'[w] # NoPrio
          /\ shown'[w] # NoPrio => act'[w] \in {"finishing", "active", "failed"}
    BY <1>7, <1>8 DEF Recorded, Ranked
  <2> QED
    BY <2>1, <2>2 DEF Ranked
<1>10. Awaited'
  BY <1>1 DEF Awaited
<1>11. Queue'
  BY <1>2, <1>5 DEF Queue, SavesFirst
<1>12. Alongside'
  <2>1. \A w \in gone : w \notin Known'
    BY DEF Known
  <2> QED
    BY <2>1, <1>3, <1>4 DEF Alongside
<1>13. Fresh'
  BY <1>4, <1>5 DEF Recorded, Fresh
<1>14. Stored'
  <2> SUFFICES ASSUME NEW w \in Versions, shown'[w] # NoPrio, ~Lost(w)
               PROVE  Kept(w) = shown'[w] /\ (act'[w] # "active" => saved[w] # NoPrio)
    BY <1>3, <1>5 DEF Stored
  <2> QED
    BY <1>3, <1>7 DEF Recorded, Stored
<1>15. Unrecorded'
  <2> SUFFICES ASSUME NEW w \in Versions, act'[w] = "active", ~Lost(w), Record(w) = NoPrio
               PROVE  /\ Rooted(w)
                      /\ \A u \in Versions : Moves(w, u) => ~Under("vars", u)'
    BY <1>4, <1>5 DEF Unrecorded, Moves
  <2>1. Rooted(w)
    BY <1>8 DEF Recorded, Unrecorded
  <2>2. ~Moves(w, running)
    BY DEF Moves
  <2> QED
    BY <2>1, <2>2, <1>4
<1>16. Filed' /\ Agreed'
  <2>1. Filed'
    BY <1>1 DEF Filed
  <2>2. \A w : ~Runs("setenv", w)
    BY <1>4 DEF Runs
  <2>3. Agreed'
    BY <2>2 DEF Recorded, Agreed, Find, SlotsOf
  <2> QED
    BY <2>1, <2>3
<1> QED
  BY <1>9, <1>10, <1>11, <1>12, <1>13, <1>14, <1>15, <1>16 DEF Recorded

LEMMA DeleteRecorded ==
  ASSUME DefaultLayout, Inv, Boot, Recorded, NEW x \in Versions, Delete(x)
  PROVE  Recorded'
<1>1. /\ Called /\ x \in Known \ {running}
      /\ act' = [act EXCEPT ![x] = "absent"] /\ shown' = Without(x)
      /\ UNCHANGED <<vol, env, saved, setting, jobs, running, lost, cut, used>>
      /\ ended' \subseteq ended
  BY DEF Delete, Erased, flash
<1>2. PICK reset \in ResetUbootEnvVars(Without(x)) : todo' = reset \o EraseFrom(x)
  BY DEF Delete, Handler
<1>3. /\ todo' \in Seq(Plain) /\ ClearsLast(todo', Forgotten)
      /\ \A u \in UnitsIn(todo') :
           \/ u.unit = "vars" /\ u.of = running
           \/ u.unit \in {"none", "clear"} /\ u.of = x
           \/ u.unit = "remove"
  BY <1>1, <1>2, EraseQueue DEF Called
<1> DEFINE gone == {x}
<1>4. /\ gone \in SUBSET (Known \ {running})
      /\ \A w \in gone : act'[w] = "absent" /\ shown'[w] = NoPrio
      /\ \A w \in Versions \ gone : shown'[w] = shown[w] /\ act'[w] = act[w]
  BY <1>1 DEF Without, Inv, TypeOK
<1>5. \A u \in UnitsIn(todo') :
        \/ u.unit = "vars" /\ u.of = running
        \/ u.unit \in {"none", "clear"} /\ u.of \in gone
        \/ u.unit = "remove"
  BY <1>3
<1> HIDE DEF gone
<1> QED
  BY <1>1, <1>3, <1>4, <1>5, CalledRecorded

LEMMA UploadRecorded ==
  ASSUME DefaultLayout, Inv, Boot, Recorded, NEW v \in Versions, Upload(v)
  PROVE  Recorded'
<1> DEFINE write == Start(Unit("write", v, NoPrio))
<1>1. /\ Called /\ v \notin used /\ used \subseteq used'
      /\ UNCHANGED <<vol, env, saved, setting, jobs, running, lost, cut>>
  BY DEF Upload, flash
<1>2. v \notin Known
  BY <1>1 DEF Boot, Orderly, TwoKnown
<1>3. /\ write.unit.unit = "write" /\ write.unit.of = v /\ write \in Plain
      /\ UnitsIn(<<write>>) = {write.unit}
  BY PlainStart, UnitsInOne DEF Start, Unit
<1> HIDE DEF write
<1>4. /\ <<write>> \in Seq(Plain) /\ ClearsLast(<<write>>, Forgotten)
      /\ <<write>> \in Seq(Effects)
  <2>1. \A i \in 1..Len(<<write>>) : <<write>>[i] = write
    OBVIOUS
  <2> QED
    BY <2>1, <1>3 DEF ClearsLast, Plain
<1>5. CASE /\ FreeSpace = {} /\ act' = [act EXCEPT ![v] = "writing"]
           /\ Handler(<<write>>) /\ UNCHANGED <<shown, located, ended, exposed>>
  <2> DEFINE gone == {}
  <2>1. /\ gone \in SUBSET (Known \ {running}) /\ todo' = <<write>> /\ ended' \subseteq ended
        /\ \A w \in gone : act'[w] = "absent" /\ shown'[w] = NoPrio
        /\ \A w \in Versions \ gone :
             /\ shown'[w] = shown[w]
             /\ act'[w] = act[w] \/ (w \notin Known /\ act'[w] = "writing")
    BY <1>2, <1>5 DEF Handler, Inv, TypeOK
  <2>2. \A u \in UnitsIn(todo') : u.unit = "write" /\ u.of \notin used
    BY <2>1, <1>1, <1>3
  <2> HIDE DEF gone
  <2>3. todo' \in Seq(Plain) /\ ClearsLast(todo', Forgotten)
    BY <2>1, <1>4
  <2> QED
    BY <2>1, <2>2, <2>3, <1>1, CalledRecorded
<1>6. ASSUME NEW x \in FreeSpace, NEW reset \in ResetUbootEnvVars(Without(x)),
             Handler(reset \o EraseFrom(x) \o <<write>>),
             act' = [act EXCEPT ![x] = "absent", ![v] = "writing"],
             shown' = Without(x), Erased(x)
      PROVE  Recorded'
  <2>1. x \in Known \ {running} /\ x # v /\ running # Nobody
    BY <1>1, <1>2, FreeSpaceLeavesRunning DEF Boot, Called
  <2> DEFINE gone == {x}
             front == reset \o EraseFrom(x)
  <2>2. /\ gone \in SUBSET (Known \ {running}) /\ ended' \subseteq ended
        /\ todo' = front \o <<write>>
        /\ \A w \in gone : act'[w] = "absent" /\ shown'[w] = NoPrio
        /\ \A w \in Versions \ gone :
             /\ shown'[w] = shown[w]
             /\ act'[w] = act[w] \/ (w \notin Known /\ act'[w] = "writing")
    BY <2>1, <1>2, <1>6 DEF Handler, Without, Erased, Known, Inv, TypeOK
  <2>3. /\ front \in Seq(Plain) /\ ClearsLast(front, Forgotten)
        /\ \A u \in UnitsIn(front) :
             \/ u.unit = "vars" /\ u.of = running
             \/ u.unit \in {"none", "clear"} /\ u.of \in gone
             \/ u.unit = "remove"
    BY <2>1, EraseQueue
  <2> HIDE DEF gone, front
  <2> DEFINE last == <<write>>
  <2>4. last \in Seq(Plain) /\ ClearsLast(last, Forgotten) /\ UnitsIn(last) = {write.unit}
    BY <1>3, <1>4
  <2>5. todo' = front \o last
    BY <2>2
  <2> HIDE DEF last
  <2>6. /\ todo' \in Seq(Plain) /\ UnitsIn(todo') = UnitsIn(front) \cup UnitsIn(last)
        /\ ClearsLast(todo', Forgotten)
    <3>1. front \o last \in Seq(Plain)
      BY <2>3, <2>4
    <3>2. UnitsIn(front \o last) = UnitsIn(front) \cup UnitsIn(last)
      BY <2>3, <2>4, UnitsInParts
    <3>3. ClearsLast(front \o last, Forgotten)
      BY <2>3, <2>4, ClearsLastInParts
    <3> QED
      BY <3>1, <3>2, <3>3, <2>5
  <2>7. \A u \in UnitsIn(todo') :
          \/ u.unit = "vars" /\ u.of = running
          \/ u.unit \in {"none", "clear"} /\ u.of \in gone
          \/ u.unit = "remove"
          \/ u.unit = "write" /\ u.of \notin used
    BY <2>3, <2>4, <2>6, <1>1, <1>3
  <2> QED
    BY <2>2, <2>6, <2>7, <1>1, CalledRecorded
<1> QED
  BY <1>5, <1>6 DEF Upload, write

----------------------------------------------------------------------------
(* The power is lost and comes back.                                        *)

(* With no volume damaged a pass saves each priority once.                  *)
LEMMA ProcessUndamaged ==
  ASSUME NEW known, NEW new, IsFiniteSet(new), NEW prio, Damaged = {},
         NEW s \in ProcessBMCImage(known, new, prio)
  PROVE  /\ s \in Seq({Save(v, prio[v]) : v \in new})
         /\ \A i, k \in 1..Len(s) : s[i].unit.of = s[k].unit.of => i = k
<1>1. PICK x \in SUBSET new : PartsOf(s, x, known, new, prio)
  BY ProcessParts
<1>2. PICK first \in Found(x, prio), rest \in Found(new \ x, prio),
           reset \in EraseDamaged(known \cup x, prio) : s = first \o reset \o rest
  BY <1>1 DEF PartsOf
<1>3. reset = <<>>
  BY DEF EraseDamaged
<1>4. IsFiniteSet(x) /\ IsFiniteSet(new \ x)
  BY FS_Subset
<1>5. /\ first \in Seq({Save(v, prio[v]) : v \in x})
      /\ rest \in Seq({Save(v, prio[v]) : v \in new \ x})
  <2>1. first \in Seq({Save(v, prio[v]) : v \in x})
    BY <1>4, FoundIn
  <2>2. rest \in Seq({Save(v, prio[v]) : v \in new \ x})
    BY <1>4, FoundIn
  <2> QED
    BY <2>1, <2>2
<1>6. /\ \A i, k \in 1..Len(first) : first[i].unit.of = first[k].unit.of => i = k
      /\ \A i, k \in 1..Len(rest) : rest[i].unit.of = rest[k].unit.of => i = k
  BY <1>4, FoundOnce
<1>7. /\ \A i \in 1..Len(first) : first[i].unit.of \in x
      /\ \A i \in 1..Len(rest) : rest[i].unit.of \in new \ x
  BY <1>5 DEF Save, Unit
<1> DEFINE All == {Save(v, prio[v]) : v \in new}
<1>8. first \in Seq(All) /\ rest \in Seq(All)
  <2>1. /\ {Save(v, prio[v]) : v \in x} \subseteq All
        /\ {Save(v, prio[v]) : v \in new \ x} \subseteq All
    OBVIOUS
  <2> HIDE DEF All
  <2> QED
    BY <2>1, <1>5
<1> HIDE DEF All
<1>9. s = first \o rest
  BY <1>2, <1>3, <1>8
<1>10. /\ s \in Seq(All) /\ Len(s) = Len(first) + Len(rest)
       /\ \A i \in 1..Len(s) : IF i <= Len(first) THEN s[i] = first[i]
                               ELSE s[i] = rest[i - Len(first)]
  BY <1>8, <1>9
<1>11. \A i, k \in 1..Len(s) : s[i].unit.of = s[k].unit.of => i = k
  <2>0. Len(first) \in Nat /\ Len(rest) \in Nat
    BY <1>8
  <2> SUFFICES ASSUME NEW i \in 1..Len(s), NEW k \in 1..Len(s), s[i].unit.of = s[k].unit.of
               PROVE  i = k
    OBVIOUS
  <2>1. CASE i <= Len(first) /\ k <= Len(first)
    BY <2>0, <2>1, <1>6, <1>10
  <2>2. CASE ~(i <= Len(first)) /\ ~(k <= Len(first))
    <3>1. i - Len(first) \in 1..Len(rest) /\ k - Len(first) \in 1..Len(rest)
      BY <2>0, <2>2, <1>10
    <3>2. s[i] = rest[i - Len(first)] /\ s[k] = rest[k - Len(first)]
      BY <2>2, <1>10
    <3>3. i - Len(first) = k - Len(first)
      BY <3>1, <3>2, <1>6
    <3> QED
      BY <3>3, <2>0
  <2>3. CASE i <= Len(first) /\ ~(k <= Len(first))
    <3>1. i \in 1..Len(first) /\ k - Len(first) \in 1..Len(rest)
      BY <2>0, <2>3, <1>10
    <3>2. s[i] = first[i] /\ s[k] = rest[k - Len(first)]
      BY <2>3, <1>10
    <3> QED
      BY <3>1, <3>2, <1>7
  <2>4. CASE ~(i <= Len(first)) /\ k <= Len(first)
    <3>1. k \in 1..Len(first) /\ i - Len(first) \in 1..Len(rest)
      BY <2>0, <2>4, <1>10
    <3>2. s[k] = first[k] /\ s[i] = rest[i - Len(first)]
      BY <2>4, <1>10
    <3> QED
      BY <3>1, <3>2, <1>7
  <2> QED
    BY <2>1, <2>2, <2>3, <2>4
<1> QED
  BY <1>10, <1>11 DEF All

(* A pass that finds nothing, and what one directory gives.                 *)
LEMMA FoundNone ==
  ASSUME NEW prio, NEW s \in Found({}, prio)
  PROVE  s = <<>>
<1>1. s \in Seq({}) /\ Len(s) = 0
  BY FS_EmptySet, FoundIn
<1> QED
  BY <1>1

LEMMA FoundOne ==
  ASSUME NEW prio, NEW b, NEW s \in Found({b}, prio)
  PROVE  s = <<Save(b, prio[b])>>
<1> DEFINE All == {Save(v, prio[v]) : v \in {b}}
<1>1. s \in Seq(All) /\ Len(s) = 1
  <2>1. IsFiniteSet({b}) /\ Cardinality({b}) = 1
    BY FS_Singleton
  <2> QED
    BY <2>1, FoundIn
<1>2. All = {Save(b, prio[b])}
  OBVIOUS
<1> HIDE DEF All
<1>3. s[1] \in All
  BY <1>1
<1>4. s[1] = Save(b, prio[b])
  BY <1>2, <1>3
<1> QED
  BY <1>1, <1>4

LEMMA ResetNone ==
  ASSUME NEW prio, NEW s \in EraseDamaged({}, prio)
  PROVE  s = <<>>
<1> DEFINE All == {Start(Unit("vars", v, NoPrio)) : v \in {}}
<1>1. s \in Seq(All) /\ Len(s) <= 1 /\ Len(s) \in Nat
  BY EraseDamagedIn
<1>2. All = {}
  OBVIOUS
<1> HIDE DEF All
<1>3. Len(s) = 1 => s[1] \in All
  BY <1>1
<1> QED
  BY <1>1, <1>2, <1>3

LEMMA ResetOne ==
  ASSUME NEW prio, NEW b, NEW s \in EraseDamaged({b}, prio)
  PROVE  s = <<>> \/ s = <<Start(Unit("vars", b, NoPrio))>>
<1> DEFINE All == {Start(Unit("vars", v, NoPrio)) : v \in {b}}
<1>1. s \in Seq(All) /\ Len(s) <= 1 /\ Len(s) \in Nat
  BY EraseDamagedIn
<1>2. All = {Start(Unit("vars", b, NoPrio))}
  OBVIOUS
<1> HIDE DEF All
<1>3. CASE Len(s) = 0
  BY <1>1, <1>3
<1>4. CASE Len(s) = 1
  <2>1. s[1] \in All
    BY <1>1, <1>4
  <2>2. s[1] = Start(Unit("vars", b, NoPrio))
    BY <2>1, <1>2
  <2> QED
    BY <2>2, <1>1, <1>4
<1> QED
  BY <1>1, <1>3, <1>4

LEMMA ProcessNone ==
  ASSUME NEW prio, NEW s \in ProcessBMCImage({}, {}, prio)
  PROVE  s = <<>>
<1>1. PICK x \in SUBSET {} : PartsOf(s, x, {}, {}, prio)
  BY ProcessParts
<1>2. x = {} /\ {} \ x = {} /\ {} \cup x = {}
  OBVIOUS
<1>3. PICK first \in Found({}, prio), rest \in Found({}, prio),
           reset \in EraseDamaged({}, prio) : s = first \o reset \o rest
  BY <1>1, <1>2 DEF PartsOf
<1>4. first = <<>> /\ rest = <<>> /\ reset = <<>>
  BY FoundNone, ResetNone
<1> QED
  BY <1>3, <1>4

LEMMA OneThenOther ==
  ASSUME NEW one, NEW two
  PROVE  <<one>> \o <<two>> \o <<>> = <<one, two>>
<1> DEFINE both == <<one>> \o <<two>>
<1>1. both \in Seq({one, two}) /\ Len(both) = 2 /\ both[1] = one /\ both[2] = two
  <2>1. <<one>> \in Seq({one, two}) /\ <<two>> \in Seq({one, two})
    OBVIOUS
  <2> QED
    BY <2>1
<1> HIDE DEF both
<1>2. both \o <<>> = both
  BY <1>1
<1>3. both = <<one, two>>
  BY <1>1
<1> QED
  BY <1>2, <1>3 DEF both

LEMMA ProcessOne ==
  ASSUME NEW prio, NEW b, NEW s \in ProcessBMCImage({}, {b}, prio)
  PROVE  \/ s = <<Save(b, prio[b])>>
         \/ s = <<Save(b, prio[b]), Start(Unit("vars", b, NoPrio))>>
<1>1. PICK x \in SUBSET {b} : PartsOf(s, x, {}, {b}, prio)
  BY ProcessParts
<1>2. CASE x = {}
  <2>1. {b} \ x = {b} /\ {} \cup x = {}
    BY <1>2
  <2>2. PICK first \in Found({}, prio), rest \in Found({b}, prio),
             reset \in EraseDamaged({}, prio) : s = first \o reset \o rest
    BY <1>1, <1>2, <2>1 DEF PartsOf
  <2>3. first = <<>> /\ rest = <<Save(b, prio[b])>> /\ reset = <<>>
    BY FoundNone, FoundOne, ResetNone
  <2> QED
    BY <2>2, <2>3
<1>3. CASE x = {b}
  <2>1. {b} \ x = {} /\ {} \cup x = {b}
    BY <1>3
  <2>2. PICK first \in Found({b}, prio), rest \in Found({}, prio),
             reset \in EraseDamaged({b}, prio) : s = first \o reset \o rest
    BY <1>1, <1>3, <2>1 DEF PartsOf
  <2>3. first = <<Save(b, prio[b])>> /\ rest = <<>>
    BY FoundNone, FoundOne
  <2>4. reset = <<>> \/ reset = <<Start(Unit("vars", b, NoPrio))>>
    BY ResetOne
  <2>5. CASE reset = <<>>
    BY <2>2, <2>3, <2>5
  <2>6. CASE reset = <<Start(Unit("vars", b, NoPrio))>>
    <3> DEFINE one == Save(b, prio[b])
               two == Start(Unit("vars", b, NoPrio))
    <3>1. s = <<one>> \o <<two>> \o <<>>
      BY <2>2, <2>3, <2>6
    <3> HIDE DEF one, two
    <3>2. s = <<one, two>>
      BY <3>1, OneThenOther
    <3> QED
      BY <3>2 DEF one, two
  <2> QED
    BY <2>4, <2>5, <2>6
<1> QED
  BY <1>2, <1>3

(* With two images at most, of which one is damaged, the other one is the   *)
(* one that boots.                                                          *)
LEMMA OtherBoots ==
  ASSUME Inv, Boot, Bootable, Damaged # {}
  PROVE  Mounted \subseteq {Booted}
<1> SUFFICES ASSUME NEW w \in Mounted
             PROVE  w = Booted
  OBVIOUS
<1>1. PICK s \in SlotsOf("rofs") : vol[s].of = w /\ (Damaged = {} \/ s < First(Damaged))
  BY DEF Mounted
<1>2. Damaged \in SUBSET Slots /\ SlotsOf("rofs") \subseteq Slots
  BY DEF Damaged, SlotsOf
<1>3. First(Damaged) \in Damaged /\ First(Damaged) \in Slots
  BY <1>2, FirstIn
<1>4. s # First(Damaged)
  BY <1>1, <1>2, <1>3, FlashAssumption DEF Slots
<1>5. First(Damaged) \in SlotsOf("rofs") /\ ~vol[First(Damaged)].whole
  BY <1>3 DEF Damaged
<1>6. env.root \in SlotsOf("rofs") /\ vol[env.root].whole
  BY DEF Bootable, SlotsOf, Inv, TypeOK
<1>7. env.root = s
  BY <1>1, <1>4, <1>5, <1>6 DEF Boot, Counted, TwoRofs
<1> QED
  BY <1>1, <1>7 DEF Booted

(* What the updater makes of the records.                                   *)
LEMMA RestartDoes ==
  ASSUME Inv, Restart
  PROVE  /\ running' = Booted /\ lost' \in BOOLEAN
         /\ jobs' = {} /\ ended' = {} /\ before' = shown' /\ UNCHANGED <<vol, env, setting, used>>
         /\ \A v \in Versions :
              /\ act'[v] = IF Bootable /\ v \in Mounted \cup {Booted}
                           THEN "active" ELSE "absent"
              /\ shown'[v] # NoPrio <=> act'[v] = "active"
              /\ shown'[v] # NoPrio /\ ~(lost' /\ v = running') => shown'[v] = Restored(v)
              /\ saved'[v] = saved[v] \/ (saved'[v] = NoPrio /\ rwreset /\ Bootable)
         /\ cut' = (cut \/ todo # <<>>
                        \/ \E j \in jobs : j.unit \in {"vars", "setenv", "clear"})
<1>1. /\ running' = Booted /\ lost' \in BOOLEAN
      /\ jobs' = {} /\ ended' = {} /\ before' = shown' /\ UNCHANGED <<vol, env, setting, used>>
      /\ act' = [v \in Versions |-> IF Bootable /\ v \in Mounted \cup {Booted}
                                    THEN "active" ELSE "absent"]
      /\ saved' = IF rwreset /\ Bootable THEN [v \in Versions |-> NoPrio] ELSE saved
      /\ cut' = (cut \/ todo # <<>>
                     \/ \E j \in jobs : j.unit \in {"vars", "setenv", "clear"})
  BY DEF Restart
<1>2. PICK p \in Priorities :
        shown' = [v \in Versions |-> IF act'[v] = "absent" THEN NoPrio
                                     ELSE IF lost' /\ v = running' THEN p
                                     ELSE Restored(v)]
  BY DEF Restart
<1>3. NoPrio \notin Priorities /\ 0 \in Priorities /\ PrioLimit - 1 \in Priorities
  BY FlashAssumption DEF Priorities, NoPrio
<1>4. \A v \in Versions : saved'[v] \in Priorities \cup {NoPrio}
  BY <1>1 DEF Inv, TypeOK
<1>5. \A v \in Versions : Restored(v) \in Priorities
  BY <1>3, <1>4 DEF Restored, Inv, TypeOK
<1>6. \A v \in Versions :
        shown'[v] = IF act'[v] = "absent" THEN NoPrio
                    ELSE IF lost' /\ v = running' THEN p ELSE Restored(v)
  BY <1>2
<1>7. \A v \in Versions :
        act'[v] = IF Bootable /\ v \in Mounted \cup {Booted} THEN "active" ELSE "absent"
  BY <1>1
<1>8. \A v \in Versions :
        /\ shown'[v] # NoPrio <=> act'[v] = "active"
        /\ shown'[v] # NoPrio /\ ~(lost' /\ v = running') => shown'[v] = Restored(v)
  BY <1>3, <1>5, <1>6, <1>7
<1>9. \A v \in Versions :
        saved'[v] = saved[v] \/ (saved'[v] = NoPrio /\ rwreset /\ Bootable)
  BY <1>1
<1> QED
  BY <1>1, <1>7, <1>8, <1>9

(* What the updater has to do after a restart: it saves each priority once, *)
(* and then may point U-Boot at the version that runs.                      *)
Begun ==
  /\ \A i \in 1..Len(todo) :
       \/ \E v \in Versions : shown[v] # NoPrio /\ todo[i] = Save(v, shown[v])
       \/ todo[i] = Start(Unit("vars", running, NoPrio))
  /\ SavesFirst(todo)

LEMMA RestartQueue ==
  ASSUME Inv, Boot, Restart
  PROVE  Begun'
<1>0. CASE ~Bootable
  <2>1. todo' = <<>>
    BY <1>0 DEF Restart
  <2> QED
    BY <2>1 DEF Begun, SavesFirst
<1> SUFFICES ASSUME Bootable
             PROVE  Begun'
  BY <1>0
<1>1. todo' \in StartUp(shown') /\ running' = Booted
  BY DEF Restart
<1>2. /\ IsFiniteSet(Mounted) /\ Mounted \subseteq Versions /\ Booted \in Versions
      /\ \A v \in Mounted \cup {Booted} : shown'[v] # NoPrio
  <2>1. Mounted \subseteq Versions
    BY DEF Mounted, SlotsOf, Inv, VolumesOwned
  <2>2. Booted \in Versions
    BY DEF Bootable, Booted, SlotsOf, Inv, TypeOK, VolumesOwned
  <2> QED
    BY <2>1, <2>2, MountedFinite, RestartDoes
<1>3. CASE Damaged = {}
  <2>1. Booted \in Mounted
    <3>1. env.root \in SlotsOf("rofs")
      BY DEF Bootable, SlotsOf, Inv, TypeOK
    <3> QED
      BY <3>1, <1>3 DEF Booted, Mounted
  <2>2. todo' \in ProcessBMCImage({}, Mounted, shown')
    BY <1>1, <2>1 DEF StartUp
  <2>3. /\ todo' \in Seq({Save(v, shown'[v]) : v \in Mounted})
        /\ \A i, k \in 1..Len(todo') : todo'[i].unit.of = todo'[k].unit.of => i = k
    BY <1>2, <1>3, <2>2, ProcessUndamaged
  <2>4. \A i \in 1..Len(todo') : \E v \in Mounted : todo'[i] = Save(v, shown'[v])
    BY <2>3
  <2>5. ASSUME NEW i \in 1..Len(todo')
        PROVE  todo'[i].do = "save" /\ todo'[i].unit.unit = "setenv"
    <3>1. PICK v \in Mounted : todo'[i] = Save(v, shown'[v])
      BY <2>4
    <3> QED
      BY <3>1 DEF Save, Unit
  <2>6. SavesFirst(todo')
    BY <2>3, <2>5 DEF SavesFirst
  <2> QED
    BY <1>2, <2>4, <2>6 DEF Begun
<1>4. CASE Damaged # {}
  <2> DEFINE save == Save(Booted, shown'[Booted])
             vars1 == Start(Unit("vars", Booted, NoPrio))
  <2>1. todo' = <<save>> \/ todo' = <<save, vars1>>
    <3>1. Mounted \subseteq {Booted}
      BY <1>4, OtherBoots
    <3>2. CASE Booted \in Mounted
      <4>1. Mounted = {Booted}
        BY <3>1, <3>2
      <4>2. todo' \in ProcessBMCImage({}, {Booted}, shown')
        BY <1>1, <3>2, <4>1 DEF StartUp
      <4> QED
        BY <4>2, ProcessOne
    <3>3. CASE Booted \notin Mounted
      <4>1. Mounted = {}
        BY <3>1, <3>3
      <4>2. PICK first \in ProcessBMCImage({}, {}, shown'),
                 second \in ProcessBMCImage({}, {Booted}, shown') : todo' = first \o second
        BY <1>1, <3>3, <4>1, InTurnIn DEF StartUp
      <4>3. first = <<>>
        BY ProcessNone
      <4>4. second = <<save>> \/ second = <<save, vars1>>
        BY ProcessOne
      <4> QED
        BY <4>2, <4>3, <4>4
    <3> QED
      BY <3>2, <3>3
  <2>2. /\ save.do = "save" /\ save.unit.unit = "setenv" /\ save.unit.of = Booted
        /\ vars1.do = "start" /\ vars1.unit.unit = "vars"
    BY DEF Save, Start, Unit
  <2>3. \A i \in 1..Len(todo') : todo'[i] = save \/ todo'[i] = vars1
    BY <2>1
  <2>4. SavesFirst(todo')
    <3> HIDE DEF save, vars1
    <3>1. CASE todo' = <<save>>
      BY <3>1, <2>2 DEF SavesFirst
    <3>2. CASE todo' = <<save, vars1>>
      BY <3>2, <2>2 DEF SavesFirst
    <3> QED
      BY <2>1, <3>1, <3>2
  <2> QED
    BY <1>1, <1>2, <2>3, <2>4 DEF Begun
<1> QED
  BY <1>3, <1>4

LEMMA RestartRecorded ==
  ASSUME Inv, Boot, Recorded, Restart
  PROVE  Recorded'
<1>1. /\ running' = Booted /\ jobs' = {} /\ ended' = {} /\ before' = shown'
      /\ UNCHANGED <<vol, env, setting, used>>
      /\ \A v \in Versions :
           /\ act'[v] = IF Bootable /\ v \in Mounted \cup {Booted} THEN "active" ELSE "absent"
           /\ shown'[v] # NoPrio <=> act'[v] = "active"
           /\ shown'[v] # NoPrio /\ ~(lost' /\ v = running') => shown'[v] = Restored(v)
           /\ saved'[v] = saved[v] \/ (saved'[v] = NoPrio /\ rwreset /\ Bootable)
      /\ cut' = (cut \/ todo # <<>>
                     \/ \E j \in jobs : j.unit \in {"vars", "setenv", "clear"})
  BY RestartDoes
<1>2. /\ Begun'
      /\ \A i \in 1..Len(todo') : todo'[i].do # "forget" /\ todo'[i].unit.unit # "clear"
      /\ \A name, w : Under(name, w)' => \/ name = "vars" /\ w = running'
                                         \/ name = "setenv" /\ shown'[w] # NoPrio
      /\ \A name, w : ~Runs(name, w)'
  <2>1. Begun'
    BY RestartQueue
  <2>2. \A i \in 1..Len(todo') :
          \/ /\ todo'[i].do = "save" /\ todo'[i].unit.unit = "setenv"
             /\ shown'[todo'[i].unit.of] # NoPrio
          \/ /\ todo'[i].do = "start" /\ todo'[i].unit.unit = "vars"
             /\ todo'[i].unit.of = running'
    <3> SUFFICES ASSUME NEW i \in 1..Len(todo')
                 PROVE  \/ /\ todo'[i].do = "save" /\ todo'[i].unit.unit = "setenv"
                           /\ shown'[todo'[i].unit.of] # NoPrio
                        \/ /\ todo'[i].do = "start" /\ todo'[i].unit.unit = "vars"
                           /\ todo'[i].unit.of = running'
      OBVIOUS
    <3>1. CASE \E v \in Versions : shown'[v] # NoPrio /\ todo'[i] = Save(v, shown'[v])
      BY <3>1 DEF Save, Unit
    <3>2. CASE todo'[i] = Start(Unit("vars", running', NoPrio))
      BY <3>2 DEF Start, Unit
    <3> QED
      BY <2>1, <3>1, <3>2 DEF Begun
  <2>3. Flight' = UnitsIn(todo')
    BY <1>1 DEF Flight
  <2>4. \A u \in Flight' : \E i \in 1..Len(todo') : u = todo'[i].unit
    BY <2>3 DEF UnitsIn
  <2>5. ASSUME NEW name, NEW w, Under(name, w)'
        PROVE  \/ name = "vars" /\ w = running'
               \/ name = "setenv" /\ shown'[w] # NoPrio
    <3>1. PICK u \in Flight' : u.unit = name /\ u.of = w
      BY <2>5 DEF Under
    <3>2. PICK i \in 1..Len(todo') : u = todo'[i].unit
      BY <2>4
    <3> QED
      BY <3>1, <3>2, <2>2
  <2>6. \A name, w : ~Runs(name, w)'
    BY <1>1 DEF Runs
  <2> QED
    BY <2>1, <2>2, <2>5, <2>6
<1>3. running' # Nobody => Bootable /\ running' \in Versions
  BY <1>1 DEF Booted, Bootable, SlotsOf, Inv, TypeOK, VolumesOwned
<1>4. Ranked'
  BY <1>1, <1>3 DEF Ranked
<1>5. Awaited' /\ Queue'
  <2>1. Awaited'
    BY <1>1 DEF Awaited
  <2>2. \A i \in 1..Len(todo') : todo'[i].do = "save" =>
          todo'[i].unit.value = shown'[todo'[i].unit.of]
    <3> SUFFICES ASSUME NEW i \in 1..Len(todo'), todo'[i].do = "save"
                 PROVE  todo'[i].unit.value = shown'[todo'[i].unit.of]
      OBVIOUS
    <3>1. PICK v \in Versions : todo'[i] = Save(v, shown'[v])
      BY <1>2 DEF Begun, Start
    <3> QED
      BY <3>1 DEF Save, Unit
  <2>3. SavesFirst(todo') /\ ClearsLast(todo', Forgotten')
    BY <1>2 DEF Begun, ClearsLast
  <2> QED
    BY <2>1, <2>2, <2>3 DEF Queue
<1>6. Alongside'
  BY <1>1, <1>2 DEF Alongside
<1>7. Fresh'
  BY <1>1, <1>2 DEF Recorded, Fresh, Forgotten
<1>8. Stored'
  <2> SUFFICES ASSUME NEW v \in Versions, shown'[v] # NoPrio, ~Lost(v)'
               PROVE  Kept(v)' = shown'[v] /\ act'[v] = "active"
    BY <1>1 DEF Stored
  <2>1. shown'[v] = Restored(v) /\ act'[v] = "active"
    BY <1>1 DEF Lost
  <2>2. Restored(v) = Kept(v)'
    BY <1>1 DEF Restored, Kept, Record, Default
  <2> QED
    BY <2>1, <2>2
<1>9. Unrecorded'
  <2> SUFFICES ASSUME NEW v \in Versions, act'[v] = "active"
               PROVE  /\ Rooted(v)'
                      /\ \A w \in Versions : Moves(v, w)' => ~Under("vars", w)'
    BY <1>2 DEF Unrecorded
  <2>1. Bootable /\ running' = vol[env.root].of
    BY <1>1 DEF Booted
  <2>2. vol[env.root] = Volume("rofs", running', TRUE)
    BY <2>1 DEF Bootable, Volume, Inv, TypeOK
  <2>3. Rooted(v)'
    BY <2>1, <2>2, <1>1 DEF Rooted
  <2>4. ~Moves(v, running)'
    BY DEF Moves
  <2> QED
    BY <2>3, <2>4, <1>2
<1>10. Filed'
  BY <1>1 DEF Filed
<1>11. Agreed'
  <2> SUFFICES ASSUME ~cut', NEW v \in Versions, Find("rofs", v) # {}, saved'[v] # NoPrio
               PROVE  saved'[v] = setting[v]
    BY <1>1 DEF Agreed, Find, SlotsOf
  <2>1. saved'[v] = saved[v] /\ ~Runs("setenv", v) /\ ~cut
    BY <1>1 DEF Runs
  <2> QED
    BY <2>1 DEF Recorded, Agreed
<1> QED
  BY <1>4, <1>5, <1>6, <1>7, <1>8, <1>9, <1>10, <1>11 DEF Recorded

----------------------------------------------------------------------------
(* The theorem.                                                             *)

LEMMA RecordedUnmoved ==
  ASSUME Recorded,
         UNCHANGED <<vol, env, saved, setting, act, shown, todo, ended, before,
                     running, lost, jobs, cut, used>>
  PROVE  Recorded'
<1>1. /\ Known' = Known /\ Flight' = Flight /\ Forgotten' = Forgotten
      /\ \A w : Saving(w)' <=> Saving(w)
      /\ \A w : Lost(w)' <=> Lost(w)
      /\ \A w : Record(w)' = Record(w) /\ Kept(w)' = Kept(w)
      /\ \A w : Rooted(w)' <=> Rooted(w)
      /\ \A v, w : Moves(v, w)' <=> Moves(v, w)
  <2>1. Known' = Known /\ Flight' = Flight /\ Forgotten' = Forgotten
    BY DEF Known, Flight, Forgotten
  <2>2. \A w : Saving(w)' <=> Saving(w)
    BY DEF Saving
  <2>3. \A w : Lost(w)' <=> Lost(w)
    BY DEF Lost
  <2>4. \A w : Record(w)' = Record(w) /\ Kept(w)' = Kept(w)
    BY DEF Record, Kept, Default
  <2>5. \A w : Rooted(w)' <=> Rooted(w)
    BY DEF Rooted
  <2>6. \A v, w : Moves(v, w)' <=> Moves(v, w)
    BY DEF Moves
  <2> QED
    BY <2>1, <2>2, <2>3, <2>4, <2>5, <2>6
<1>2. \A name, w : (Runs(name, w)' <=> Runs(name, w)) /\ (Under(name, w)' <=> Under(name, w))
  BY <1>1 DEF Runs, Under
<1>3. Ranked' /\ Awaited'
  BY DEF Recorded, Ranked, Awaited
<1>4. Queue'
  BY <1>1 DEF Recorded, Queue, SavesFirst, ClearsLast
<1>5. Alongside' /\ Fresh'
  <2>1. Alongside'
    BY <1>1, <1>2 DEF Recorded, Alongside
  <2>2. Fresh'
    BY <1>1, <1>2 DEF Recorded, Fresh
  <2> QED
    BY <2>1, <2>2
<1>6. Stored'
  BY <1>1 DEF Recorded, Stored
<1>7. Unrecorded'
  BY <1>1, <1>2 DEF Recorded, Unrecorded
<1>8. Filed' /\ Agreed'
  <2>1. Filed'
    BY <1>1 DEF Recorded, Filed
  <2>2. Agreed'
    BY <1>1, <1>2 DEF Recorded, Agreed, Find, SlotsOf
  <2> QED
    BY <2>1, <2>2
<1> QED
  BY <1>3, <1>4, <1>5, <1>6, <1>7, <1>8 DEF Recorded

LEMMA NextRecorded ==
  ASSUME DefaultLayout, Inv, Boot, Settled, Recorded, Next
  PROVE  Recorded'
<1>1. ASSUME NEW j \in jobs, Step(j)
      PROVE  Recorded'
  <2>1. j.unit \in {"write", "remove", "vars", "setenv", "clear"}
    BY DEF Inv, TypeOK, Units
  <2> QED
    BY <1>1, <2>1, WriteRecorded, RemoveRecorded, PointRecorded, SetEnvRecorded
<1>2. ASSUME NEW j \in jobs, Fails(j)
      PROVE  Recorded'
  BY <1>2, FailsRecorded
<1>3. CASE CarryOut
  BY <1>3, CarryOutRecorded
<1>4. ASSUME NEW v \in Versions,
             Upload(v) \/ Delete(v) \/ \E value \in Wanted : SetPriority(v, value)
      PROVE  Recorded'
  BY <1>4, UploadRecorded, DeleteRecorded, SetPriorityRecorded
<1>5. CASE FactoryReset
  BY <1>5, RecordedUnmoved DEF FactoryReset, updater
<1>6. CASE \E signal \in ended : UnitEnded(signal)
  BY <1>6, UnitEndedRecorded
<1>7. CASE Restart
  BY <1>7, RestartRecorded
<1> QED
  BY <1>1, <1>2, <1>3, <1>4, <1>5, <1>6, <1>7 DEF Next

LEMMA InitRecorded == Init => Recorded
<1> SUFFICES ASSUME Init PROVE Recorded
  OBVIOUS
<1>1. PICK v \in Versions :
        /\ vol = [s \in Slots |-> CASE s = 1 -> Volume("rofs", v, TRUE)
                                    [] s = 2 -> Volume("kernel", v, TRUE)
                                    [] OTHER -> Free]
        /\ env = [kernelname |-> v, ubiblock |-> 1, root |-> 1]
        /\ saved = [w \in Versions |-> NoPrio] /\ setting = saved
        /\ rwreset = FALSE /\ running = v /\ lost = FALSE
        /\ act = [w \in Versions |-> IF w = v THEN "active" ELSE "absent"]
        /\ shown = [w \in Versions |-> IF w = v THEN 0 ELSE NoPrio] /\ before = shown
        /\ located = {v} /\ todo = <<Save(v, 0)>> /\ jobs = {} /\ ended = {}
        /\ exposed = FALSE /\ half = {} /\ cut = FALSE /\ mixed = FALSE
        /\ used = {v} /\ faults = 0
  BY DEF Init
<1>2. 1 \in Slots /\ 0 # NoPrio
  BY FlashAssumption DEF Slots, NoPrio
<1>3. vol[env.root] = Volume("rofs", v, TRUE) /\ env.root = 1
  BY <1>1, <1>2
<1>4. /\ \A w : Saving(w) => w = v
      /\ Saving(v)
      /\ \A name, w : ~Runs(name, w)
      /\ \A name, w : Under(name, w) => name = "setenv" /\ w = v
      /\ \A w \in Versions : saved[w] = NoPrio /\ setting[w] = NoPrio
      /\ \A w \in Versions : shown[w] # NoPrio <=> w = v
      /\ \A w \in Versions : act[w] = IF w = v THEN "active" ELSE "absent"
  <2>1. Flight = {Unit("setenv", v, 0)}
    BY <1>1, UnitsInOne DEF Flight, Save
  <2>2. \A name, w : Under(name, w) => name = "setenv" /\ w = v
    BY <2>1 DEF Under, Unit
  <2>3. Len(todo) = 1 /\ todo[1].do = "save" /\ todo[1].unit.of = v
    BY <1>1 DEF Save, Unit
  <2>4. Saving(v) /\ \A w : Saving(w) => w = v
    BY <2>3 DEF Saving
  <2> QED
    BY <1>1, <1>2, <2>2, <2>4 DEF Runs
<1>5. Ranked /\ Awaited
  BY <1>1, <1>4 DEF Ranked, Awaited
<1>6. Queue
  <2>1. /\ Len(todo) = 1 /\ todo[1].do = "save" /\ todo[1].unit.of = v
        /\ todo[1].unit.unit = "setenv" /\ todo[1].unit.value = 0 /\ shown[v] = 0
    BY <1>1 DEF Save, Unit
  <2> QED
    BY <2>1 DEF Queue, SavesFirst, ClearsLast
<1>7. Alongside /\ Fresh
  BY <1>4 DEF Alongside, Fresh, Forgotten, Known
<1>8. Stored
  BY <1>1, <1>4 DEF Stored, Kept, Record, Default
<1>9. Unrecorded
  BY <1>1, <1>3, <1>4 DEF Unrecorded, Rooted
<1>10. Filed /\ Agreed
  BY <1>1, <1>4 DEF Filed, Agreed
<1> QED
  BY <1>5, <1>6, <1>7, <1>8, <1>9, <1>10 DEF Recorded

(* Wherever the power is lost, a version that the updater knew and finds    *)
(* again has the priority it showed or, if a call was cut short, the one    *)
(* before that call, and so the images are not started in another order     *)
(* (storePriority and restorePriority in serialize.cpp, freePriority in     *)
(* item_updater.cpp).  A factory reset that takes the files away leaves the *)
(* variables, which agree with them unless a unit that sets one was cut.    *)
THEOREM PrioritiesKept ==
  ASSUME DefaultLayout
  PROVE  Spec => PrioritiesSurvive
<1> DEFINE Survive == Restart => \A v \in Versions :
              /\ act[v] = "active" /\ act'[v] = "active"
              /\ ~(lost' /\ v = running') /\ ~(lost /\ v = running)
              /\ rwreset => ~cut'
              => shown'[v] \in {shown[v], before[v]}
<1>1. Inv /\ Boot /\ Recorded => Survive
  <2> SUFFICES ASSUME Inv, Boot, Recorded, Restart, NEW v \in Versions,
                      act[v] = "active", act'[v] = "active",
                      ~(lost' /\ v = running'), ~(lost /\ v = running),
                      rwreset => ~cut'
               PROVE  shown'[v] \in {shown[v], before[v]}
    OBVIOUS
  <2>1. /\ running' = Booted /\ shown'[v] = Restored(v)
        /\ Bootable /\ v \in Mounted \cup {Booted}
        /\ saved'[v] = saved[v] \/ (saved'[v] = NoPrio /\ rwreset /\ Bootable)
        /\ cut' = (cut \/ todo # <<>>
                       \/ \E j \in jobs : j.unit \in {"vars", "setenv", "clear"})
    BY RestartDoes
  <2>2. Kept(v) \in {shown[v], before[v]}
    <3>1. shown[v] # NoPrio /\ ~Lost(v)
      BY DEF Recorded, Ranked, Lost
    <3> QED
      BY <3>1 DEF Recorded, Stored
  <2>3. Record(v) = IF saved'[v] # NoPrio THEN saved'[v] ELSE setting[v]
    <3>1. CASE saved'[v] = saved[v]
      BY <3>1 DEF Record
    <3>2. CASE saved'[v] = NoPrio /\ rwreset /\ Bootable
      <4>1. ~cut /\ ~Runs("setenv", v)
        BY <3>2, <2>1 DEF Runs
      <4>2. Find("rofs", v) # {}
        BY <2>1 DEF Find, SlotsOf, Mounted, Booted, Bootable, Inv, TypeOK
      <4>3. saved[v] = NoPrio \/ saved[v] = setting[v]
        BY <4>1, <4>2 DEF Recorded, Agreed
      <4> QED
        BY <3>2, <4>3 DEF Record
    <3> QED
      BY <2>1, <3>1, <3>2
  <2>4. Record(v) = NoPrio => (v = running <=> v = running')
    <3>1. Record(v) = NoPrio => Rooted(v)
      BY DEF Recorded, Unrecorded, Lost
    <3>2. running' = vol[env.root].of
      BY <2>1 DEF Booted
    <3> QED
      BY <3>1, <3>2 DEF Rooted, Volume
  <2>5. Restored(v) = Kept(v)
    BY <2>3, <2>4 DEF Restored, Kept, Default
  <2> QED
    BY <2>1, <2>2, <2>5
<1>2. Inv /\ Boot /\ Settled /\ Recorded /\ [Next]_vars => Recorded'
  BY NextRecorded, RecordedUnmoved DEF vars, flash, updater
<1>3. Inv /\ Boot /\ Recorded /\ [Next]_vars => [Survive]_vars
  BY <1>1
<1>4. Inv /\ Boot /\ Boot' /\ Settled /\ [Next]_vars => Settled'
  BY NextSettled, SettledUnmoved DEF vars, flash, updater
<1> QED
  BY InitSettled, InitRecorded, <1>2, <1>3, <1>4, Invariant, BootInvariant, PTL
     DEF Spec, PrioritiesSurvive
=============================================================================
