------------------------------ MODULE UbiFlash ------------------------------
(***************************************************************************)
(* The flash of the UBI layout: the volumes, the U-Boot environment and    *)
(* the priority files, changed by the systemd units that the updater       *)
(* starts, while the BMC may lose its power at any moment.  The updater is *)
(* seen from the flash: a handler is a list of effects, carried out one by *)
(* one while the units of the earlier ones run.                            *)
(***************************************************************************)
EXTENDS Integers, Sequences, FiniteSets

CONSTANTS
  Versions,    \* the flash ids, which are drawn at random and never meet again
  Nobody,
  MaxAllowed,  \* ACTIVE_BMC_MAX_ALLOWED
  KeepMax,     \* keepmax of the script
  NumSlots,    \* bound: the volumes of the flash, without rwfs
  PrioLimit,   \* bound: the values of a priority, in place of 256
  Wanted,      \* bound: the priorities that clients ask for
  MaxFaults,   \* bound: the failed units and power losses
  Quiet        \* clients wait until the units of the last call have ended

ASSUME FlashAssumption ==
  /\ Nobody \notin Versions
  /\ MaxAllowed \in Nat \ {0, 1} /\ KeepMax \in Nat \ {0}
  /\ NumSlots \in Nat \ {0, 1}  \* the version the BMC is delivered with
  /\ PrioLimit \in Nat \ {0} /\ Wanted \subseteq 0..PrioLimit - 1
  /\ Quiet \in BOOLEAN /\ MaxFaults \in Nat
  \* At most one has to make room, see FreeSpaceLeavesRunning in UbiFlashProofs.
  /\ Cardinality(Versions) <= MaxAllowed + 1 \/ (Quiet /\ MaxAllowed = 2 /\ KeepMax = 2)

VARIABLES
  vol,       \* the volume in each slot: what it is, of which version, if whole
  env,       \* kernelname, ubiblock and root of the U-Boot environment
  saved,     \* the priority files
  setting,   \* the priorities in the U-Boot environment
  rwreset,   \* the read-write volume is made anew at the next boot
  running,   \* the version the BMC has booted, Nobody if it could not
  lost,      \* the running version is known by another name than its volume's
  act,       \* the activations of the updater
  shown,     \* the priorities on D-Bus
  located,   \* the versions whose path is their flash id
  todo,      \* what the handler that runs has still to do
  jobs,      \* the units that run
  ended,     \* the JobRemoved signals that have not been handled
  used,      \* the flash ids that have been drawn
  faults,    \* the failed units and power losses so far
  before,    \* the priorities on D-Bus before the handler ran
  exposed,   \* a version has been erased that the environment named
  half,      \* the installed versions whose writing was cut between their volumes
  cut,       \* a unit that writes the environment has not been completed
  mixed      \* the updateubootvars units of two versions have run at a time

flash == <<vol, env, saved, setting, rwreset>>

updater == <<act, shown, located, todo, ended, before>>

vars == <<flash, updater, running, lost, jobs, exposed, half, cut, mixed, used, faults>>

Slots == 1..NumSlots

NoPrio == -1

Priorities == 0..PrioLimit - 1

Volume(kind, v, whole) == [kind |-> kind, of |-> v, whole |-> whole]

Free == Volume("free", Nobody, FALSE)

Unit(name, v, value) == [unit |-> name, of |-> v, value |-> value, pc |-> 1, slot |-> 0]

Save(v, value) == [do |-> "save", unit |-> Unit("setenv", v, value)]
Start(unit)    == [do |-> "start", unit |-> unit]
Forget(v)      == [do |-> "forget", unit |-> Unit("none", v, NoPrio)]

Units ==
  [unit : {"write", "remove", "vars", "setenv", "clear"}, of : Versions,
   value : Priorities \cup {NoPrio}, pc : 1..6, slot : 0..NumSlots]

TypeOK ==
  /\ vol \in [Slots -> [kind : {"free", "rofs", "kernel"},
                        of : Versions \cup {Nobody}, whole : BOOLEAN]]
  /\ env \in [kernelname : Versions, ubiblock : Slots, root : Slots]
  /\ saved \in [Versions -> Priorities \cup {NoPrio}]
  /\ setting \in [Versions -> Priorities \cup {NoPrio}]
  /\ running \in Versions \cup {Nobody}
  /\ act \in [Versions -> {"absent", "writing", "finishing", "active", "failed"}]
  /\ shown \in [Versions -> Priorities \cup {NoPrio}]
  /\ before \in [Versions -> Priorities \cup {NoPrio}]
  /\ used \subseteq Versions /\ faults \in 0..MaxFaults
  /\ located \subseteq Versions /\ half \subseteq Versions /\ jobs \subseteq Units
  /\ ended \subseteq [unit : {"write", "vars"}, of : Versions, done : BOOLEAN]
  /\ {rwreset, lost, exposed, cut, mixed} \subseteq BOOLEAN

----------------------------------------------------------------------------
(* Volumes.                                                                 *)

SlotsOf(kind) == {s \in Slots : vol[s].kind = kind}

Find(kind, v) == {s \in SlotsOf(kind) : vol[s].of = v}

First(slots) == CHOOSE s \in slots : \A t \in slots : s <= t

Whole(kind, v) == \E s \in Find(kind, v) : vol[s].whole

Removed(gone) == [s \in Slots |-> IF s \in gone THEN Free ELSE vol[s]]

(* ubimkvol takes the first free number; the volume is still empty.         *)
Made(kind, v) ==
  [vol EXCEPT ![First({s \in Slots : vol[s] = Free})] = Volume(kind, v, FALSE)]

FilledRofs(kind, v) ==
  [s \in Slots |-> IF s \in Find("rofs", v) THEN [vol[s] EXCEPT !.whole = TRUE] ELSE vol[s]]
Filled(kind, v) ==
  [s \in Slots |-> IF s \in Find(kind, v) THEN [vol[s] EXCEPT !.whole = TRUE] ELSE vol[s]]

(* The volumes of this kind that ubi_remove_volumes may choose.             *)
AnyOther(kind, v) == {s \in SlotsOf(kind) : vol[s].of # v}
Removable(kind, v) == {s \in SlotsOf(kind) : vol[s].of \notin {v, running}}

(* Every turn of the loop looks at the names read before the first one, so  *)
(* one version is removed however many there are too many.                  *)
Victim(kind, v) ==
  IF Cardinality(SlotsOf(kind)) >= KeepMax /\ Removable(kind, v) # {}
  THEN {vol[First(Removable(kind, v))].of} ELSE {}

Cleared(x) == [v \in Versions |-> IF v \in x THEN NoPrio ELSE setting[v]]

VolumesOf(x) == UNION {Find(kind, v) : kind \in {"rofs", "kernel"}, v \in x}

NamedByEnv == {env.kernelname} \cup {vol[s].of : s \in {env.ubiblock, env.root}}

----------------------------------------------------------------------------
(* The units.                                                               *)

Known == {v \in Versions : act[v] # "absent"}

(* A unit that runs already is not started again.                           *)
Started(u) ==
  IF \E j \in jobs : j.unit = u.unit /\ j.of = u.of /\ j.value = u.value
  THEN jobs ELSE jobs \cup {u}

Proceed(j) == jobs' = (jobs \ {j}) \cup {[j EXCEPT !.pc = j.pc + 1]}

(* Nobody else minds a signal that no activation waits for.                 *)
Waits(signal) ==
  \/ signal.unit = "write" /\ act[signal.of] = "writing"
  \/ signal.unit = "vars" /\ act[signal.of] = "finishing"

JobRemoved(j, done) ==
  ended \cup {signal \in {[unit |-> j.unit, of |-> j.of, done |-> done]} : Waits(signal)}

End(j) == jobs' = jobs \ {j} /\ ended' = JobRemoved(j, TRUE)

Fails(j) ==
  /\ jobs' = IF j.unit = "write" THEN Started(Unit("remove", j.of, NoPrio)) \ {j}
                                 ELSE jobs \ {j}
  /\ ended' = JobRemoved(j, FALSE)
  /\ cut' = (cut \/ j.unit \in {"vars", "setenv", "clear"})
  /\ faults < MaxFaults /\ faults' = faults + 1
  /\ UNCHANGED <<flash, act, shown, located, todo, before, running, lost, exposed, half, mixed, used>>

(* obmc-flash-bmc-ubiro@: the script makes room for a volume, creates it,   *)
(* tells the updater its flash id, and fills it, first for the rofs.        *)
MakeRoom(j, kind) ==
  LET gone == Victim(kind, j.of)
  IN /\ vol' = Removed(VolumesOf(gone))
     /\ setting' = Cleared(gone)
     /\ Proceed(j)
     /\ UNCHANGED <<env, saved, rwreset, updater, exposed>>

CreateVolume(j, kind) ==
  /\ \E s \in Slots : vol[s] = Free
  /\ vol' = Made(kind, j.of)
  /\ located' = located \cup ({j.of} \cap Known)
  /\ Proceed(j)
  /\ UNCHANGED <<env, saved, setting, rwreset, act, shown, todo, ended, before, exposed>>

UpdateVolume(j, kind) ==
  /\ Find(kind, j.of) # {}
  /\ vol' = Filled(kind, j.of)
  /\ IF kind = "kernel" THEN End(j) ELSE Proceed(j) /\ UNCHANGED ended
  /\ UNCHANGED <<env, saved, setting, rwreset, act, shown, located, todo, before, exposed>>

WriteImages(j) ==
  \/ j.pc = 1 /\ MakeRoom(j, "rofs")
  \/ j.pc = 2 /\ CreateVolume(j, "rofs")
  \/ j.pc = 3 /\ UpdateVolume(j, "rofs")
  \/ j.pc = 4 /\ MakeRoom(j, "kernel")
  \/ j.pc = 5 /\ CreateVolume(j, "kernel")
  \/ j.pc = 6 /\ UpdateVolume(j, "kernel")

(* obmc-flash-bmc-ubiro-remove@: the volume that is the root is busy.       *)
RemoveVolumes(j) ==
  /\ j.pc = 1 => j.of # running
  /\ vol' = Removed(Find(IF j.pc = 1 THEN "rofs" ELSE "kernel", j.of))
  /\ IF j.pc = 1 THEN Proceed(j) /\ UNCHANGED ended ELSE End(j)
  /\ UNCHANGED <<env, saved, setting, rwreset, act, shown, located, todo, before, exposed>>

(* obmc-flash-bmc-updateubootvars@: the number of the volume is read once.  *)
UpdateEnv(j, last) ==
  LET slot == IF j.pc = 1 THEN First(Find("rofs", j.of)) ELSE j.slot
  IN /\ env' = CASE j.pc = 1 -> [env EXCEPT !.kernelname = j.of]
                 [] j.pc = 2 -> [env EXCEPT !.ubiblock = slot]
                 [] j.pc = 3 -> [env EXCEPT !.root = slot]
     /\ IF j.pc = last THEN End(j)
        ELSE jobs' = (jobs \ {j}) \cup {[j EXCEPT !.pc = j.pc + 1, !.slot = slot]}
             /\ UNCHANGED ended
     /\ exposed' = (exposed /\ j.pc < last)

KernelOnly(j) == UpdateEnv(j, 1)
UpdateEnvVars(j) == UpdateEnv(j, 3)

PointUboot(j) ==
  /\ j.pc = 1 => Whole("rofs", j.of) /\ ~(lost /\ j.of = running)
  /\ UpdateEnvVars(j)
  /\ UNCHANGED <<vol, saved, setting, rwreset, act, shown, located, todo, before>>

(* obmc-flash-bmc-setenv@.  Like its file, the variable of a running        *)
(* version that is known by another name has that name.                     *)
SetEnv(j) ==
  /\ setting' = IF lost /\ j.of = running THEN setting
                ELSE [setting EXCEPT ![j.of] = j.value]
  /\ End(j)
  /\ UNCHANGED <<vol, env, saved, rwreset, act, shown, located, todo, before, exposed>>

Pointing == {j \in jobs : j.unit = "vars"}

Step(j) ==
  /\ \/ j.unit = "write" /\ WriteImages(j)
     \/ j.unit = "remove" /\ RemoveVolumes(j)
     \/ j.unit = "vars" /\ PointUboot(j)
     \/ j.unit \in {"setenv", "clear"} /\ SetEnv(j)
  /\ mixed' = (mixed \/ (j.unit = "vars" /\ Pointing \ {j} # {}))
  /\ UNCHANGED <<running, lost, half, cut, used, faults>>

----------------------------------------------------------------------------
(* The updater.                                                             *)

(* The next effect of the handler that runs.                                *)
CarryOut ==
  LET effect == Head(todo)
      v == effect.unit.of
  IN /\ todo # <<>>
     /\ todo' = Tail(todo)
     /\ before' = IF todo' = <<>> THEN shown ELSE before
     /\ saved' = CASE effect.do = "save" /\ ~(lost /\ v = running)
                                            -> [saved EXCEPT ![v] = effect.unit.value]
                   [] effect.do = "forget"  -> [saved EXCEPT ![v] = NoPrio]
                   [] OTHER                 -> saved
     /\ jobs' = IF effect.do = "forget" THEN jobs ELSE Started(effect.unit)
     /\ mixed' = (mixed /\ (effect.unit.unit = "vars" => Pointing # {}))
     /\ UNCHANGED <<vol, env, setting, rwreset, act, shown, located, ended,
                    running, lost, exposed, half, cut, used, faults>>

Handler(effects) == todo = <<>> /\ todo' = effects /\ before' = shown

(* The versions resetUbootEnvVars may choose: <= takes the last of a tie.   *)
Lowest(prio) ==
  {v \in Versions : prio[v] # NoPrio
                    /\ \A w \in Versions : prio[w] # NoPrio => prio[v] <= prio[w]}

ResetUbootEnvVars(prio) ==
  IF Lowest(prio) = {} THEN {<<>>}
  ELSE {<<Start(Unit("vars", v, NoPrio))>> : v \in Lowest(prio)}

Without(v) == [shown EXCEPT ![v] = NoPrio]

EraseFrom(v) ==
  IF v \in located
  THEN <<Start(Unit("remove", v, NoPrio)), Forget(v), Start(Unit("clear", v, NoPrio))>>
  ELSE <<>>

(* freePriority: the run of priorities from the one that is asked for on.   *)
BumpedOn(p) == p + 1
Bumped(p)   == (p + 1) % PrioLimit

RunOf(v, value) ==
  {k \in Priorities : k >= value
     /\ \A i \in value..k : \E w \in Versions \ {v} : shown[w] = i}

Bumps(first, run, pick) ==
  [i \in 1..Cardinality(run) |-> Save(pick[first + i - 1], Bumped(first + i - 1))]

LowestAfter(v, value) ==
  IF \A w \in Versions \ {v} : shown[w] = NoPrio \/ value <= shown[w] THEN {v}
  ELSE Lowest(Without(v))

AssignPriority(v, value) ==
  \E low \in LowestAfter(v, value), pick \in [RunOf(v, value) -> Versions \ {v}] :
    /\ \A k \in RunOf(v, value) : shown[pick[k]] = k
    /\ shown' = [w \in Versions |->
                   IF w = v THEN value
                   ELSE IF \E k \in RunOf(v, value) : pick[k] = w THEN Bumped(shown[w])
                   ELSE shown[w]]
    /\ Handler(<<Save(v, value)>> \o Bumps(value, RunOf(v, value), pick)
                 \o <<Start(Unit("vars", low, NoPrio))>>)

(* A client calls the updater.                                              *)
Called == running # Nobody /\ todo = <<>> /\ (Quiet => jobs = {} /\ ended = {})

(* What freeSpace erases: a failed version first, then the largest value.   *)
SortKey(v) == IF act[v] = "failed" THEN PrioLimit ELSE shown[v]

FreeSpace ==
  LET installed == {v \in Versions : act[v] \in {"active", "failed"}}
      queue == installed \ {running}
  IN IF Cardinality(installed) < MaxAllowed THEN {}
     ELSE {v \in queue : \A w \in queue : SortKey(w) <= SortKey(v)}

Erased(v) ==
  /\ located' = located \ {v}
  /\ ended' = {signal \in ended : signal.of # v}
  /\ exposed' = (exposed \/ v \in NamedByEnv)

(* An image is uploaded and its activation begins.                          *)
Upload(v) ==
  /\ Called /\ v \notin used /\ used' = used \cup {v}
  /\ \/ /\ FreeSpace = {}
        /\ act' = [act EXCEPT ![v] = "writing"]
        /\ Handler(<<Start(Unit("write", v, NoPrio))>>)
        /\ UNCHANGED <<shown, located, ended, exposed>>
     \/ \E x \in FreeSpace :
          /\ \E reset \in ResetUbootEnvVars(Without(x)) :
               Handler(reset \o EraseFrom(x) \o <<Start(Unit("write", v, NoPrio))>>)
          /\ act' = [act EXCEPT ![x] = "absent", ![v] = "writing"]
          /\ shown' = Without(x)
          /\ Erased(x)
  /\ UNCHANGED <<flash, jobs, running, lost, half, cut, mixed, faults>>

Delete(v) ==
  /\ Called /\ v \in Known \ {running}
  /\ \E reset \in ResetUbootEnvVars(Without(v)) : Handler(reset \o EraseFrom(v))
  /\ act' = [act EXCEPT ![v] = "absent"] /\ shown' = Without(v)
  /\ Erased(v)
  /\ UNCHANGED <<flash, jobs, running, lost, half, cut, mixed, used, faults>>

SetPriority(v, value) ==
  /\ Called /\ shown[v] # NoPrio
  /\ AssignPriority(v, value)
  /\ UNCHANGED <<flash, act, located, jobs, ended, running, lost, exposed, half, cut, mixed, used, faults>>

FactoryReset ==
  /\ Called /\ rwreset' = TRUE
  /\ UNCHANGED <<vol, env, saved, setting, updater, jobs, running, lost, exposed, half, cut, mixed, used, faults>>

(* onStateChanges of the activation that waits for this unit.               *)
UnitEnded(signal) ==
  /\ todo = <<>> /\ ended' = ended \ {signal}
  /\ \/ /\ ~signal.done
        /\ act' = [act EXCEPT ![signal.of] = "failed"]
        /\ UNCHANGED <<shown, todo, before>>
     \/ /\ signal.done /\ signal.unit = "write"
        /\ act' = [act EXCEPT ![signal.of] = "finishing"]
        /\ AssignPriority(signal.of, 0)
     \/ /\ signal.done /\ signal.unit = "vars"
        /\ act' = [act EXCEPT ![signal.of] = "active"]
        /\ UNCHANGED <<shown, todo, before>>
  /\ UNCHANGED <<flash, located, jobs, running, lost, exposed, half, cut, mixed, used, faults>>

----------------------------------------------------------------------------
(* The power is lost and comes back.                                        *)

Bootable ==
  /\ env.ubiblock = env.root
  /\ vol[env.root].kind = "rofs" /\ vol[env.root].whole
  /\ Whole("kernel", env.kernelname)

Booted == IF Bootable THEN vol[env.root].of ELSE Nobody

Damaged == {s \in SlotsOf("rofs") : ~vol[s].whole}

(* remount_ubi ends at the first volume that cannot be mounted.             *)
Mounted ==
  {vol[s].of : s \in {t \in SlotsOf("rofs") : Damaged = {} \/ t < First(Damaged)}}

(* restorePriority: the file, or else the environment.                      *)
EnvFirst(v) ==
  IF setting[v] # NoPrio THEN setting[v]
  ELSE IF saved'[v] # NoPrio THEN saved'[v]
  ELSE IF v = running' THEN 0 ELSE PrioLimit - 1
Restored(v) ==
  IF saved'[v] # NoPrio THEN saved'[v]
  ELSE IF setting[v] # NoPrio THEN setting[v]
  ELSE IF v = running' THEN 0 ELSE PrioLimit - 1

(* processBMCImage meets the directories in any order.  A version it finds  *)
(* saves the priority that has been restored.  The directory of the volume  *)
(* that could not be mounted is erased, which removes nothing but points    *)
(* U-Boot at the best of the versions found so far.                         *)
Orders(x) ==
  {f \in [1..Cardinality(x) -> x] : \A i, k \in DOMAIN f : f[i] = f[k] => i = k}

Found(x, prio) ==
  {[i \in 1..Cardinality(x) |-> Save(order[i], prio[order[i]])] : order \in Orders(x)}

EraseDamaged(x, prio) ==
  IF Damaged = {} THEN {<<>>}
  ELSE ResetUbootEnvVars([v \in Versions |-> IF v \in x THEN prio[v] ELSE NoPrio])

InTurn(x, y) == {first \o second : first \in x, second \in y}

ProcessBMCImage(known, new, prio) ==
  UNION {InTurn(InTurn(Found(x, prio), EraseDamaged(known \cup x, prio)), Found(new \ x, prio))
         : x \in SUBSET new}

(* A second pass finds the running version if the first one did not.        *)
StartUp(prio) ==
  IF Booted \in Mounted THEN ProcessBMCImage({}, Mounted, prio)
  ELSE InTurn(ProcessBMCImage({}, Mounted, prio), ProcessBMCImage(Mounted, {Booted}, prio))

Restart ==
  /\ running # Nobody /\ faults < MaxFaults /\ faults' = faults + 1
  /\ running' = Booted
  /\ lost' = (Bootable /\ Booted \notin Mounted)
  /\ saved' = IF rwreset /\ Bootable THEN [v \in Versions |-> NoPrio] ELSE saved
  /\ rwreset' = (rwreset /\ ~Bootable)
  /\ act' = [v \in Versions |-> IF Bootable /\ v \in Mounted \cup {Booted}
                                THEN "active" ELSE "absent"]
  /\ \E p \in Priorities :
       shown' = [v \in Versions |-> IF act'[v] = "absent" THEN NoPrio
                                    ELSE IF lost' /\ v = running' THEN p
                                    ELSE Restored(v)]
  /\ before' = shown'
  /\ located' = {v \in Versions : act'[v] # "absent"}
  /\ IF Bootable THEN todo' \in StartUp(shown') ELSE todo' = <<>>
  /\ jobs' = {} /\ ended' = {} /\ mixed' = FALSE
  /\ half' = {v \in Versions : Whole("rofs", v) /\ ~Whole("kernel", v)}
  /\ exposed' = (exposed /\ ~(Bootable /\ NamedByEnv \subseteq located'))
  /\ cut' = (cut \/ todo # <<>>
                 \/ \E j \in jobs : j.unit \in {"vars", "setenv", "clear"})
  /\ UNCHANGED <<vol, env, setting, used>>

Init ==
  \E v \in Versions :
    /\ vol = [s \in Slots |-> CASE s = 1 -> Volume("rofs", v, TRUE)
                                [] s = 2 -> Volume("kernel", v, TRUE)
                                [] OTHER -> Free]
    /\ env = [kernelname |-> v, ubiblock |-> 1, root |-> 1]
    /\ saved = [w \in Versions |-> NoPrio] /\ setting = saved
    /\ rwreset = FALSE /\ running = v /\ lost = FALSE
    /\ act = [w \in Versions |-> IF w = v THEN "active" ELSE "absent"]
    /\ shown = [w \in Versions |-> IF w = v THEN 0 ELSE NoPrio] /\ before = shown
    /\ located = {v} /\ todo = <<Save(v, 0)>> /\ jobs = {} /\ ended = {}
    /\ exposed = FALSE /\ half = {} /\ cut = FALSE /\ mixed = FALSE
    /\ used = {v} /\ faults = 0

Next ==
  \/ \E j \in jobs : Step(j) \/ Fails(j)
  \/ CarryOut
  \/ \E v \in Versions : \/ Upload(v) \/ Delete(v)
                         \/ \E value \in Wanted : SetPriority(v, value)
  \/ FactoryReset
  \/ \E signal \in ended : UnitEnded(signal)
  \/ Restart

Spec == Init /\ [][Next]_vars

----------------------------------------------------------------------------
(* Properties.                                                              *)

(* The volumes of the running version are never damaged, whatever is        *)
(* written, removed or fails.                                               *)
RunningVolumesKept ==
  [][running' = running => \A kind \in {"rofs", "kernel"} :
       Whole(kind, running) => Whole(kind, running)']_vars

(* The U-Boot environment names volumes that are there and whole, at every  *)
(* moment and so wherever the power is lost, unless a version it names was  *)
(* erased or its writing was once cut after the rofs.                       *)
BootVolumesKept ==
  ~exposed /\ NamedByEnv \cap half = {} =>
    /\ Whole("kernel", env.kernelname)
    /\ \A s \in {env.ubiblock, env.root} : vol[s].kind = "rofs" /\ vol[s].whole

(* When an activation ends as Active the BMC starts that version next,      *)
(* unless an earlier call's updateubootvars ran at the same time.           *)
ActivatedBootsNext ==
  [][\A signal \in ended :
       UnitEnded(signal) /\ act[signal.of] = "finishing" /\ act'[signal.of] = "active"
       /\ ~mixed => Bootable /\ Booted = signal.of /\ env.kernelname = signal.of]_vars

(* A version that is there after a restart has the priority it had before   *)
(* or, if a call was cut short, before that call; also after a factory      *)
(* reset if all units that set the environment have been completed.         *)
PrioritiesSurvive ==
  [][Restart => \A v \in Versions :
       /\ act[v] = "active" /\ act'[v] = "active"
       /\ ~(lost' /\ v = running') /\ ~(lost /\ v = running)
       /\ rwreset => ~cut'
       => shown'[v] \in {shown[v], before[v]}]_vars

(* "there'd be a time window where the BMC would be pointing to a           *)
(* non-existent image to boot from" (item_updater.cpp): there is none.      *)
NoBootWindow ==
  NamedByEnv \cap half = {} => Whole("kernel", env.kernelname) /\ vol[env.root].kind = "rofs"
=============================================================================
