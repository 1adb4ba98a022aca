---------------------------- MODULE ItemUpdater ----------------------------
(***************************************************************************)
(* The BMC updater daemon with the UBI flash layout: bmc/item_updater.cpp, *)
(* bmc/activation.cpp, bmc/update_manager.cpp and bmc/ubi/*.cpp, with the  *)
(* systemd units they start.                                               *)
(*                                                                         *)
(* The daemon is one sdbusplus event loop: a D-Bus method call, a property *)
(* write, one callback of a signal and one spawned task run to completion, *)
(* so each of them is an action.  systemd runs the units concurrently with *)
(* the daemon and reports each end with a JobRemoved signal, which waits   *)
(* in the daemon's socket and is then handed to every Activation in turn.  *)
(*                                                                         *)
(* An image is its D-Bus id.  The activations, versions and updateManagers *)
(* maps of the code are total functions or sets over Ids, "absent", "none" *)
(* and non-membership standing for a missing key.                          *)
(***************************************************************************)
EXTENDS Integers, FiniteSets, Sequences

CONSTANTS
  Ids,                    \* image ids
  None,                   \* no image: what an empty version id stands for
  MaxAllowed,             \* ACTIVE_BMC_MAX_ALLOWED
  PrioLimit,              \* priorities are uint8_t: 256, smaller in the models
  UseUpdateDBusInterface, \* the useUpdateDBusInterface constructor argument
  OthersSubscribed,       \* another client keeps systemd's signals enabled
  Results,                \* the job results systemd may report
  ClientPriorities,       \* the priorities a client writes
  Rewriting,              \* the states of an image in which clients write its
                          \* RequestedActivation without starting anything
  MaxSignals              \* bound on the signals waiting in the socket

ActivationStates ==
  {"absent", "NotReady", "Invalid", "Ready", "Activating", "Active", "Failed"}
NoPrio == -1              \* redundancyPriority is nullptr
Priorities == 0 .. PrioLimit - 1

ASSUME ConstantsAssumption ==
  /\ None \notin Ids
  /\ MaxAllowed \in Nat \ {0}
  /\ PrioLimit \in 2 .. 256
  /\ UseUpdateDBusInterface \in BOOLEAN
  /\ OthersSubscribed \in BOOLEAN
  /\ "done" \in Results
  /\ ClientPriorities \subseteq Priorities
  /\ Rewriting \subseteq ActivationStates
  /\ MaxSignals \in Nat \ {0}

\* An id is eight hexadecimal digits of a hash
ASSUME IdsAssumption == IsFiniteSet(Ids)

VARIABLES
  act,         \* Activation state of each image, "absent" without the object
  requested,   \* the images whose RequestedActivation is Active
  steps,       \* rwVolumeCreated, roVolumeCreated, ubootEnvVarsUpdated
  prio,        \* the value of redundancyPriority, NoPrio when it is null
  blocks,      \* the images that hold an ActivationBlocksTransition
  path,        \* Version Path: upload directory or flash location
  functional,  \* the versions with isFunctional()
  managers,    \* the keys of updateManagers
  updating,    \* the managers whose updateInProgress is set
  task,        \* the manager running processImage for an image, or None
  assocs,      \* the associations of the ItemUpdater object
  saved,       \* the priorities written to persistent storage
  bootRequest, \* the image the last updateubootvars unit was asked for
  guard,       \* the reboot guard is enabled
  subscribed,  \* this daemon is subscribed to systemd's signals
  jobs,        \* the units systemd has queued or is running
  signals,     \* JobRemoved signals not read from the socket yet
  inbox        \* the JobRemoved signal being dispatched, and to whom still

objectVars == <<act, requested, steps, prio, blocks>>
mapVars    == <<path, functional, managers, updating, task, assocs>>
systemVars == <<saved, bootRequest, guard, subscribed>>
busVars    == <<jobs, signals, inbox>>
vars       == <<objectVars, mapVars, systemVars, busVars>>

FlashSteps == {"rw", "ro", "env"}

RwUnit        == <<"rw", None>>     \* obmc-flash-bmc-ubirw.service
RoUnit(i)     == <<"ro", i>>        \* obmc-flash-bmc-ubiro@i.service
EnvUnit(i)    == <<"env", i>>       \* obmc-flash-bmc-updateubootvars@i.service
Units == {RwUnit} \cup ({"ro", "env"} \X Ids)

NoSignal == [unit |-> RwUnit, result |-> "done", to |-> {}]
Idle == inbox.to = {}               \* no signal is half dispatched
Delivery(unit, result, to) ==
  IF to = {} THEN NoSignal ELSE [unit |-> unit, result |-> result, to |-> to]

Objects   == {i \in Ids : act[i] # "absent"}
Ranked    == {i \in Ids : prio[i] # NoPrio}
Lowest(S) == {i \in S : \A j \in S : prio[i] <= prio[j]}

-----------------------------------------------------------------------------
(* Erasing versions.  A version that is running is never erased when more  *)
(* than one is allowed.  Every erase points U-Boot at the lowest priority  *)
(* left, then asks systemd to remove the volumes.                          *)

ProtectedAboveTwo(i) == i \in functional /\ MaxAllowed > 2   \* off by one
Protected(i) == i \in functional /\ MaxAllowed > 1

\* resetUbootEnvVars() once the activations in gone have been removed
ResetTargets(gone) ==
  IF Ranked \ gone = {} THEN {None} ELSE Lowest(Ranked \ gone)

\* The order in which a set of versions is erased: a position for each
Orders(V) ==
  {f \in [V -> 1 .. Cardinality(V)] : \A i, j \in V : f[i] = f[j] => i = j}

\* The boot target asked for by each erase of V in that order
ResetChoices(V, order) ==
  {t \in [V -> Ids \cup {None}] :
     \A i \in V : t[i] \in ResetTargets({j \in V : order[j] <= order[i]})}

EraseJobs(V, targets) == {EnvUnit(t) : t \in {targets[i] : i \in V} \ {None}}

LastTarget(V, order, targets) ==
  LET last == {i \in V : order[i] = Cardinality(V) /\ targets[i] # None}
  IN  IF last = {} THEN bootRequest ELSE targets[CHOOSE i \in last : TRUE]

\* ItemUpdater::erase of every member of V, apart from the activations map
EraseVersions(V, order, targets) ==
  /\ functional' = functional \ V
  /\ saved' = [i \in Ids |->
                 IF i \in V /\ path[i] = "flash" THEN NoPrio ELSE saved[i]]
  /\ bootRequest' = LastTarget(V, order, targets)

Without(f, V, default) == [i \in Ids |-> IF i \in V THEN default ELSE f[i]]
AssocsWithout(V)       == {a \in assocs : a[2] \notin V}

\* The whole of erase() for the versions of V, in that order
EraseInOrder(V, order, targets) ==
  /\ EraseVersions(V, order, targets)
  /\ act' = Without(act, V, "absent")
  /\ requested' = requested \ V
  /\ steps' = Without(steps, V, {})
  /\ prio' = Without(prio, V, NoPrio)
  /\ blocks' = blocks \ V
  /\ guard' = (guard /\ blocks \cap V = {})
  /\ path' = Without(path, V, "none")
  /\ managers' = managers \ V
  /\ assocs' = AssocsWithout(V)
  /\ jobs' = jobs \cup EraseJobs(V, targets)

Erase(V) ==
  \E order \in Orders(V) : \E targets \in ResetChoices(V, order) :
    EraseInOrder(V, order, targets)

-----------------------------------------------------------------------------
(* freePriority: give value to image i and push the images in its way up by *)
(* one.  A run of occupied values starting at value moves, one image of     *)
(* each value; uint8_t wraps.  PriorityLoop compares this with the loop.    *)

Others(i) == Ranked \ {i}

\* only the requested value is looked for, never the bumped one
FirstOnly(i, value) == {l \in {value} : \E j \in Others(i) : prio[j] = l}
Chain(i, value) ==
  {l \in value .. PrioLimit - 1 :
     \A m \in value .. l : \E j \in Others(i) : prio[j] = m}

Bumps(i, value) ==
  {B \in SUBSET Others(i) :
     /\ \A j \in B : prio[j] \in Chain(i, value)
     /\ \A l \in Chain(i, value) : \E j \in B : prio[j] = l
     /\ \A j, k \in B : prio[j] = prio[k] => j = k}

BumpedUnbounded(i, value, B) ==          \* an int where the code has a uint8_t
  [j \in Ids |-> IF j = i THEN value ELSE IF j \in B THEN prio[j] + 1 ELSE prio[j]]
Bumped(i, value, B) ==
  [j \in Ids |-> IF j = i THEN value
                 ELSE IF j \in B THEN (prio[j] + 1) % PrioLimit
                 ELSE prio[j]]

\* The version U-Boot is pointed at, chosen before anything is bumped
FirstOfTheSet(i, value) ==               \* without the test for a tie
  {j \in Others(i) \cup {i} : \A k \in Others(i) \cup {i} :
     (IF j = i THEN value ELSE prio[j]) <= (IF k = i THEN value ELSE prio[k])}
FreePriorityTargets(i, value) ==
  IF \A j \in Others(i) : value <= prio[j] THEN {i} ELSE Lowest(Others(i))

\* The images whose new priority is saved
SavedOnlyFor(i, B) == {i}                \* bumped without being saved
SavedFor(i, B)     == {i} \cup B

\* RedundancyPriority::priority(value) of image i: B is bumped, t is booted
ClaimPriority(i, value, B, t) ==
  /\ prio' = Bumped(i, value, B)
  /\ saved' = [j \in Ids |-> IF j \in SavedFor(i, B) THEN prio'[j] ELSE saved[j]]
  /\ jobs' = jobs \cup {EnvUnit(t)}
  /\ bootRequest' = t

AssignPriority(i, value) ==
  \E B \in Bumps(i, value) : \E t \in FreePriorityTargets(i, value) :
    ClaimPriority(i, value, B, t)

-----------------------------------------------------------------------------
(* Activation::activation(Activating), reached from requestedActivation.   *)

Occupying == {i \in Ids : act[i] \in {"Active", "Failed"}}

\* the priority queue of freeSpace; failed activations sort last
Queue(i)      == {j \in Occupying \ {i} : ~Protected(j)}
SortKey(j)    == IF act[j] = "Active" /\ prio[j] # NoPrio THEN prio[j] ELSE 999
SurplusShort  == Cardinality(Occupying) - MaxAllowed     \* > in place of >=
Surplus       == Cardinality(Occupying) - (MaxAllowed - 1)

FreeSpaceVictims(i) ==
  {V \in SUBSET Queue(i) :
     /\ \A j \in V, k \in Queue(i) \ V : SortKey(j) >= SortKey(k)
     /\ \/ Cardinality(V) = Surplus
        \/ Cardinality(V) < Surplus /\ V = Queue(i)
        \/ Surplus < 0 /\ V = {}}

FreeSpaceOrders(V) ==
  {f \in Orders(V) : \A j, k \in V : SortKey(j) > SortKey(k) => f[j] < f[k]}

\* The image is refused by the signature check (in field mode) or by the
\* minimum ship level check.  paths is the versions map at the time.
Refuse(i, paths) ==
  /\ act' = [act EXCEPT ![i] = "Failed"]
  /\ requested' = requested \cup {i}
  /\ steps' = [steps EXCEPT ![i] = {}]
  /\ path' = paths
  /\ UNCHANGED <<prio, blocks, functional, managers, assocs, saved,
                 bootRequest, guard, subscribed, jobs>>

\* Space is freed by erasing V and the two volume units are started
StartWriting(i, paths, V, order, targets) ==
  /\ EraseVersions(V, order, targets)
  /\ act' = [Without(act, V, "absent") EXCEPT ![i] = "Activating"]
  /\ requested' = (requested \ V) \cup {i}
  /\ steps' = [Without(steps, V, {}) EXCEPT ![i] = {}]
  /\ prio' = Without(prio, V, NoPrio)
  /\ blocks' = (blocks \ V) \cup {i}
  /\ guard' = TRUE
  /\ path' = Without(paths, V, "none")
  /\ managers' = managers \ V
  /\ assocs' = AssocsWithout(V)
  /\ subscribed' = TRUE
  /\ jobs' = jobs \cup EraseJobs(V, targets) \cup {RwUnit, RoUnit(i)}

StartActivating(i, paths) ==
  \/ Refuse(i, paths)
  \/ \E V \in FreeSpaceVictims(i) : \E order \in FreeSpaceOrders(V) :
     \E targets \in ResetChoices(V, order) :
       StartWriting(i, paths, V, order, targets)

-----------------------------------------------------------------------------
(* Initial states: what processBMCImage finds on flash at start-up, one    *)
(* running image and any others, with the priorities restored from files.  *)

Init ==
  \E running \in Ids : \E installed \in SUBSET Ids :
  \E restored \in [installed -> Priorities] :
    /\ running \in installed
    /\ act = [i \in Ids |-> IF i \in installed THEN "Active" ELSE "absent"]
    /\ prio = [i \in Ids |-> IF i \in installed THEN restored[i] ELSE NoPrio]
    /\ path = [i \in Ids |-> IF i \in installed THEN "flash" ELSE "none"]
    /\ functional = {running}
    /\ LET updateable ==
             IF installed = {running} THEN installed ELSE installed \ {running}
       IN  /\ managers = IF UseUpdateDBusInterface THEN updateable ELSE {}
           /\ assocs = ({"active"} \X installed) \cup ({"updateable"} \X updateable)
                         \cup {<<"functional", running>>}
    /\ saved = prio
    /\ requested = {} /\ steps = [i \in Ids |-> {}] /\ blocks = {}
    /\ updating = {} /\ task = [i \in Ids |-> None]
    /\ bootRequest = None /\ guard = FALSE /\ subscribed = FALSE
    /\ jobs = {} /\ signals = <<>> /\ inbox = NoSignal

-----------------------------------------------------------------------------
(* D-Bus methods and properties.                                           *)

AnyManager(m) == m \in managers          \* updateInProgress not looked at
Available(m)  == m \in managers /\ m \notin updating

\* A new id: startUpdate hashes a random number, so nothing in the daemon or
\* in systemd refers to it
Fresh(i) ==
  /\ act[i] = "absent" /\ path[i] = "none" /\ saved[i] = NoPrio
  /\ bootRequest # i
  /\ \A j \in Ids : task[j] # i
  /\ \A u \in jobs : u[2] # i
  /\ \A n \in DOMAIN signals : signals[n].unit[2] # i

\* Manager::startUpdate: a new Activation, and processImage spawned
StartUpdate(m, i) ==
  /\ Idle /\ Available(m) /\ Fresh(i)
  /\ act' = [act EXCEPT ![i] = "NotReady"]
  /\ updating' = updating \cup {m}
  /\ task' = [task EXCEPT ![i] = m]
  /\ UNCHANGED <<requested, steps, prio, blocks, path, functional, managers,
                 assocs, systemVars, busVars>>

\* The managers whose flag stays set when processImage of i ends
StillUpdating(i)  == updating             \* the flag is never cleared
UpdatingAfter(i)  == updating \ {task[i]}

\* What processImageFailed erases: the object startUpdate created
ErasesNothing(i)  == {}
RejectedObject(i) == {i} \cap Objects

\* processImage finds no usable image (unpacking, manifest, machine, purpose,
\* missing files): processImageFailed sets Invalid and erases the object.  The
\* manager may be gone by now; its flag is then written in freed memory.
RejectImage(i) ==
  /\ Idle /\ task[i] # None
  /\ Erase(RejectedObject(i))
  /\ updating' = UpdatingAfter(i)
  /\ task' = [task EXCEPT ![i] = None]
  /\ UNCHANGED <<subscribed, signals, inbox>>

\* processImage accepts the image: the Version is created, the Activation
\* becomes Ready, and is activated at once unless a client has asked for that
AcceptImage(i) ==
  /\ Idle /\ task[i] # None
  /\ IF i \in requested
     THEN /\ act' = [act EXCEPT ![i] = "Ready"]
          /\ path' = [path EXCEPT ![i] = "upload"]
          /\ steps' = [steps EXCEPT ![i] = {}]
          /\ UNCHANGED <<requested, prio, blocks, functional, managers, assocs,
                         systemVars, jobs>>
     ELSE StartActivating(i, [path EXCEPT ![i] = "upload"])
  /\ updating' = UpdatingAfter(i) \cap managers'
  /\ task' = [task EXCEPT ![i] = None]
  /\ UNCHANGED <<signals, inbox>>

\* createActivation: the image manager has announced an image.  It derives
\* the id from the version, so an erased image may come back with its id.
CreateActivation(i, state) ==
  /\ Idle /\ ~UseUpdateDBusInterface /\ act[i] = "absent"
  /\ act' = [act EXCEPT ![i] = state]
  /\ path' = [path EXCEPT ![i] = IF @ = "none" THEN "upload" ELSE @]
  /\ UNCHANGED <<requested, steps, prio, blocks, functional, managers,
                 updating, task, assocs, systemVars, busVars>>

\* When a request starts the activation
StartsEarly(i) == i \notin requested /\ act[i] \in {"NotReady", "Ready", "Failed"}
Starts(i)      == i \notin requested /\ act[i] \in {"Ready", "Failed"}

\* A client writes RequestedActivation = Active
RequestActivation(i) ==
  /\ Idle /\ i \in Objects
  /\ IF Starts(i)
     THEN /\ StartActivating(i, path)
          /\ updating' = updating \cap managers'
     ELSE /\ act[i] \in Rewriting
          /\ requested' = requested \cup {i}
          /\ steps' = [steps EXCEPT ![i] = {}]
          /\ UNCHANGED <<act, prio, blocks, path, functional, managers,
                         updating, assocs, systemVars, jobs>>
  /\ UNCHANGED <<task, signals, inbox>>

\* A client writes RequestedActivation = None
WithdrawRequest(i) ==
  /\ Idle /\ i \in Objects /\ act[i] \in Rewriting
  /\ requested' = requested \ {i}
  /\ steps' = [steps EXCEPT ![i] = {}]
  /\ UNCHANGED <<act, prio, blocks, mapVars, systemVars, busVars>>

\* A client writes Priority
SetPriority(i, value) ==
  /\ Idle /\ i \in Ranked
  /\ AssignPriority(i, value)
  /\ UNCHANGED <<act, requested, steps, blocks, mapVars, guard, subscribed,
                 signals, inbox>>

\* Delete of a Version; a running version has no Delete interface
DeleteVersion(i) ==
  /\ Idle /\ path[i] # "none" /\ i \notin functional
  /\ Erase({i})
  /\ updating' = updating \ {i}
  /\ UNCHANGED <<task, subscribed, signals, inbox>>

\* DeleteAll: every version that is not running
DeleteAll ==
  /\ Idle
  /\ LET V == {i \in Ids : path[i] # "none" /\ i \notin functional}
     IN  Erase(V) /\ updating' = updating \ V
  /\ UNCHANGED <<task, subscribed, signals, inbox>>

-----------------------------------------------------------------------------
(* systemd.                                                                *)

\* The ubiro script names the flash location once the volume exists; busctl
\* fails, and with it the script, when the version has been deleted
SetFlashId(i) ==
  /\ Idle /\ RoUnit(i) \in jobs /\ path[i] = "upload"
  /\ path' = [path EXCEPT ![i] = "flash"]
  /\ UNCHANGED <<objectVars, functional, managers, updating, task, assocs,
                 systemVars, busVars>>

AtAnyTime(u, result)   == TRUE           \* the flash id set by somebody later
EndPossible(u, result) ==
  u[1] = "ro" /\ result = "done" => path[u[2]] # "upload"

\* A unit ends.  ubiro@i does not succeed before SetFlashId.
JobEnd(u, result) ==
  /\ u \in jobs /\ Len(signals) < MaxSignals
  /\ EndPossible(u, result)
  /\ jobs' = jobs \ {u}
  /\ signals' = IF subscribed \/ OthersSubscribed
                THEN Append(signals, [unit |-> u, result |-> result])
                ELSE signals
  /\ UNCHANGED <<objectVars, mapVars, systemVars, inbox>>

\* The daemon reads a signal: unitStateChange returns at once for an image
\* that is not Activating, onStateChanges for a unit that is not its own
Dispatch ==
  /\ Idle /\ signals # <<>>
  /\ inbox' = Delivery(Head(signals).unit, Head(signals).result,
                       {i \in Ids : /\ act[i] = "Activating"
                                    /\ Head(signals).unit \in
                                         {RwUnit, RoUnit(i), EnvUnit(i)}})
  /\ signals' = Tail(signals)
  /\ UNCHANGED <<objectVars, mapVars, systemVars, jobs>>

-----------------------------------------------------------------------------
(* Activation::onStateChanges for one of the activations a signal is       *)
(* handed to.                                                              *)

StepsForgotten(i) ==                     \* ubootEnvVarsUpdated never set
  steps[i] \cup (IF inbox.result = "done" THEN {inbox.unit[1]} \ {"env"} ELSE {})
StepsNow(i) ==
  steps[i] \cup (IF inbox.result = "done" THEN {inbox.unit[1]} ELSE {})

Received(i) ==
  /\ i \in inbox.to
  /\ inbox' = Delivery(inbox.unit, inbox.result, inbox.to \ {i})

\* activationBlocksTransition.reset(): the destructor disables the guard
TransitionHeld(i) == UNCHANGED <<blocks, guard>>
ReleaseTransition(i) ==
  /\ blocks' = blocks \ {i}
  /\ guard' = (guard /\ i \notin blocks)

\* The unit failed, and with it the activation
OnUnitFailed(i) ==
  /\ Received(i)
  /\ inbox.result \in {"failed", "dependency"}
  /\ act' = [act EXCEPT ![i] = "Failed"]
  /\ prio' = [prio EXCEPT ![i] = NoPrio]
  /\ ReleaseTransition(i)
  /\ UNCHANGED <<requested, steps, mapVars, saved, bootRequest, subscribed,
                 jobs, signals>>

\* Not both volumes yet, or the environment update is still to be reported
OnUnitProgress(i) ==
  /\ Received(i)
  /\ inbox.result \notin {"failed", "dependency"}
  /\ \/ ~({"rw", "ro"} \subseteq StepsNow(i))
     \/ "env" \notin StepsNow(i) /\ prio[i] # NoPrio
  /\ steps' = [steps EXCEPT ![i] = StepsNow(i)]
  /\ UNCHANGED <<act, requested, prio, blocks, mapVars, systemVars, jobs,
                 signals>>

\* Both volumes exist: priority 0 is claimed, which updates the environment
OnVolumesCreated(i) ==
  /\ Received(i)
  /\ inbox.result \notin {"failed", "dependency"}
  /\ {"rw", "ro"} \subseteq StepsNow(i) /\ "env" \notin StepsNow(i)
  /\ prio[i] = NoPrio
  /\ steps' = [steps EXCEPT ![i] = StepsNow(i)]
  /\ AssignPriority(i, 0)
  /\ UNCHANGED <<act, requested, blocks, mapVars, guard, subscribed, signals>>

\* onFlashWriteSuccess
OnFlashWriteSuccess(i) ==
  /\ Received(i)
  /\ inbox.result \notin {"failed", "dependency"}
  /\ FlashSteps \subseteq StepsNow(i)
  /\ steps' = [steps EXCEPT ![i] = {}]
  /\ IF prio[i] = NoPrio
     THEN AssignPriority(i, 0)
     ELSE UNCHANGED <<prio, saved, jobs, bootRequest>>
  /\ act' = [act EXCEPT ![i] = "Active"]
  /\ ReleaseTransition(i)
  /\ subscribed' = FALSE
  /\ assocs' = assocs \cup {<<"active", i>>, <<"updateable", i>>}
  /\ managers' = managers \cup {i}
  /\ UNCHANGED <<requested, path, functional, updating, task, signals>>

OnStateChanges(i) ==
  \/ OnUnitFailed(i)
  \/ OnUnitProgress(i)
  \/ OnVolumesCreated(i)
  \/ OnFlashWriteSuccess(i)

-----------------------------------------------------------------------------
Client ==
  \/ \E m, i \in Ids : StartUpdate(m, i)
  \/ \E i \in Ids, s \in {"Ready", "Invalid"} : CreateActivation(i, s)
  \/ \E i \in Ids : RequestActivation(i)
  \/ \E i \in Ids : WithdrawRequest(i)
  \/ \E i \in Ids, v \in ClientPriorities : SetPriority(i, v)
  \/ \E i \in Ids : DeleteVersion(i)
  \/ DeleteAll

Daemon ==
  \/ \E i \in Ids : RejectImage(i)
  \/ \E i \in Ids : AcceptImage(i)
  \/ Dispatch
  \/ \E i \in Ids : OnStateChanges(i)

Systemd ==
  \/ \E i \in Ids : SetFlashId(i)
  \/ \E u \in Units, r \in Results : JobEnd(u, r)

Next == Client \/ Daemon \/ Systemd

Spec == Init /\ [][Next]_vars

\* The event loop serves its sources in turn and systemd ends every unit it
\* starts (Type=oneshot); clients owe nothing.  A source that must wait for
\* the loop to be idle, or for room in the bounded socket, gets strong
\* fairness: in the program it waits in a queue of its own.
Fairness ==
  /\ WF_vars(Dispatch)
  /\ \A i \in Ids : WF_vars(OnStateChanges(i))
  /\ \A i \in Ids : SF_vars(RejectImage(i) \/ AcceptImage(i))
  /\ \A i \in Ids : SF_vars(SetFlashId(i))
  /\ \A u \in Units : SF_vars(\E r \in Results : JobEnd(u, r))

FairSpec == Spec /\ Fairness

-----------------------------------------------------------------------------
(* What makes the daemon correct.                                          *)

TypeOK ==
  /\ act \in [Ids -> ActivationStates]
  /\ requested \in SUBSET Ids
  /\ steps \in [Ids -> SUBSET FlashSteps]
  /\ prio \in [Ids -> Priorities \cup {NoPrio}]
  /\ blocks \in SUBSET Ids
  /\ path \in [Ids -> {"none", "upload", "flash"}]
  /\ functional \in SUBSET Ids
  /\ managers \in SUBSET Ids /\ updating \in SUBSET Ids
  /\ task \in [Ids -> Ids \cup {None}]
  /\ assocs \in SUBSET ({"active", "updateable", "functional"} \X Ids)
  /\ saved \in [Ids -> Priorities \cup {NoPrio}]
  /\ bootRequest \in Ids \cup {None}
  /\ guard \in BOOLEAN /\ subscribed \in BOOLEAN
  /\ jobs \in SUBSET Units
  /\ signals \in Seq([unit : Units, result : Results])
  /\ inbox \in [unit : Units, result : Results, to : SUBSET Ids]

\* Every activation past NotReady has its Version and no other image has one:
\* activation(), unitStateChange, freeSpace and freePriority dereference
\* versions.find(id) without looking at the result.
VersionExists ==
  \A i \in Ids : path[i] # "none" <=> act[i] \notin {"absent", "NotReady"}

\* An image holds the ActivationBlocksTransition interface exactly while it
\* is being written to flash, however the writing ends.
BlocksWhileActivating == blocks = {i \in Ids : act[i] = "Activating"}

\* Only an image that is installed, or about to be, has a priority, every
\* Active one has, and the U-Boot units and priority files that carry its
\* Path name a flash location and never the upload directory.
PriorityOnlyInstalled ==
  \A i \in Ids :
    /\ prio[i] # NoPrio => act[i] \in {"Activating", "Active"}
    /\ act[i] = "Active" => prio[i] # NoPrio
    /\ UseUpdateDBusInterface /\ prio[i] # NoPrio => path[i] = "flash"

\* The priority a restart would restore is the one shown on D-Bus, also for
\* the images that somebody else's request bumped.
SavedPriorityCurrent ==
  \A i \in Ids : prio[i] # NoPrio => saved[i] = prio[i]

Distinct ==
  \A i, j \in Ids : prio[i] = prio[j] /\ prio[i] # NoPrio => i = j

\* No increment wraps
NoneLargest == \A i \in Ids : prio[i] # PrioLimit - 1

\* Freeing a priority never makes two images share one, as long as nobody
\* sits on the largest value, from which the increment wraps to 0.
KeepsDistinct == NoneLargest /\ Distinct => Distinct'
FreePriorityKeepsDistinct == [][KeepsDistinct]_vars

BootRequestIsLowest == bootRequest \in Ranked => bootRequest \in Lowest(Ranked)

\* If the last environment update asked for names an image of the lowest
\* priority, the next one does too, whatever was claimed, bumped, erased or
\* failed, as long as no increment wraps; an image that failed has lost its
\* priority, and nothing is claimed about a request for it.
KeepsBootRequest == NoneLargest /\ BootRequestIsLowest => BootRequestIsLowest'
BootRequestStaysLowest == [][KeepsBootRequest]_vars

\* Starting an activation leaves at most MaxAllowed - 1 other installed
\* images, unless what is left may not be removed.
LeavesRoom(i) ==
  LET left == {j \in Ids \ {i} : act'[j] \in {"Active", "Failed"}}
  IN  \/ Cardinality(left) <= MaxAllowed - 1
      \/ left \subseteq functional /\ MaxAllowed > 1
MakesRoom ==
  \A i \in Ids : act[i] # "Activating" /\ act'[i] = "Activating" => LeavesRoom(i)
FreeSpaceMakesRoom == [][MakesRoom]_vars

\* The running version is never erased, neither to make room nor by request.
KeepsRunning == MaxAllowed > 1 => \A i \in functional : act'[i] # "absent"
RunningVersionKept == [][KeepsRunning]_vars

\* The associations published for the mapper are those of Active images.
AssociationsOfActive ==
  /\ \A a \in assocs : act[a[2]] = "Active"
  /\ \A i \in Ids : act[i] = "Active" => <<"active", i>> \in assocs

\* Reboots are not left disabled when no image is being written.
GuardOnlyWhileActivating == guard => \E i \in Ids : act[i] = "Activating"

\* updateInProgress means an image is waiting or being processed, and a
\* manager that exists has at most one.
OneImagePerManager ==
  /\ \A m \in updating : \E i \in Ids : task[i] = m
  /\ \A i, j \in Ids : task[i] = task[j] /\ task[i] # None => i = j

\* An activation that was started ends: Active, Failed or erased.
ActivationSettles ==
  \A i \in Ids : act[i] = "Activating" ~> act[i] # "Activating"

\* An upload is never left waiting: without any further request it is rejected,
\* reaches Active or Failed, or is erased.  One a client asked to activate before
\* it was ready only becomes Ready: that request started nothing and is not
\* looked at again.
UploadSettles ==
  \A i \in Ids :
    act[i] = "NotReady" ~> \/ act[i] \in {"absent", "Active", "Failed"}
                           \/ act[i] = "Ready" /\ i \in requested

\* A manager that took an image becomes free for the next one.
ManagerBecomesFree == \A m \in Ids : m \in updating ~> m \notin updating

-----------------------------------------------------------------------------
(* What the documentation says and the code does not do.                   *)

\* update_manager.hpp: updateInProgress is "State whether update is in
\* progress", so a manager that is there when processImage starts to run is
\* still there when it ends and clears the flag.
ManagerOutlivesImage ==
  [][\A i \in Ids : task[i] \in managers /\ task'[i] = None
       => task[i] \in managers']_vars
=============================================================================
