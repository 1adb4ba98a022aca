--------------------------- MODULE SoftwareManager ---------------------------
(***************************************************************************)
(* The devices of one updater daemon of the common framework:              *)
(* common/src/software_manager.cpp.  EntityManager announces and withdraws *)
(* configurations; three tasks of the daemon follow it, suspended at each  *)
(* co_await: initDevices, which looks for what was there at start-up, and  *)
(* the loops interfaceAddedMatch and interfaceRemovedMatch, each reading   *)
(* the signals of its own match in order, at any delay.  A device is the   *)
(* object path of its configuration; its updates are those of              *)
(* DeviceUpdate, of which only updateInProgress matters here.              *)
(***************************************************************************)
EXTENDS Naturals, Sequences

CONSTANTS
  Paths,        \* object paths of configurations
  MaxSignals,   \* bound on the signals waiting in each match
  Removable     \* the paths whose configuration may be withdrawn

ASSUME ManagerAssumption == MaxSignals \in Nat \ {0} /\ Removable \subseteq Paths

VARIABLES
  configured,         \* what EntityManager exposes now
  added, removed,     \* the signals waiting in the two matches
  found,              \* what get_sub_tree returned and is still to be handled
  adder,              \* where each task that adds devices is suspended
  initializingPaths,
  devices,            \* the keys of the devices map
  updating,           \* the devices with updateInProgress
  refused             \* paths for which getConfig or initDevice has failed

vars == <<configured, added, removed, found, adder, initializingPaths, devices,
          updating, refused>>

Adders == {"initDevices", "interfaceAddedMatch"}

\* "mapper": in get_sub_tree, "reply" once the mapper has answered; "getConfig"
\* and "initDevice": in those; "device": creating the inventory association of
\* a new device
Suspended == [at : {"getConfig", "initDevice", "device"}, path : Paths]
Waiting(at) == [at |-> at]
Busy == {t \in Adders : adder[t].at \in {"getConfig", "initDevice", "device"}}

Init ==
  /\ configured \in SUBSET Paths
  /\ added = <<>> /\ removed = <<>> /\ found = {}
  /\ adder = [t \in Adders |->
                Waiting(IF t = "initDevices" THEN "mapper" ELSE "idle")]
  /\ initializingPaths = {} /\ devices = {} /\ updating = {} /\ refused = {}

-----------------------------------------------------------------------------
(* EntityManager.                                                          *)

\* The matches are members of SoftwareManager: they are there before anything
\* is looked for
ListeningLate == adder["initDevices"].at \notin {"mapper", "reply"}
Listening     == TRUE

AddConfig(p) ==
  /\ p \notin configured /\ Len(added) < MaxSignals
  /\ configured' = configured \cup {p}
  /\ added' = IF Listening THEN Append(added, p) ELSE added
  /\ UNCHANGED <<removed, found, adder, initializingPaths, devices, updating, refused>>

RemoveConfig(p) ==
  /\ p \in configured \cap Removable /\ Len(removed) < MaxSignals
  /\ configured' = configured \ {p}
  /\ removed' = IF Listening THEN Append(removed, p) ELSE removed
  /\ UNCHANGED <<added, found, adder, initializingPaths, devices, updating, refused>>

-----------------------------------------------------------------------------
(* Adding devices.                                                         *)

\* The mapper answers, then the daemon reads the answer
GetSubTree ==
  /\ \/ /\ adder["initDevices"].at = "mapper"
        /\ found' = configured
        /\ adder' = [adder EXCEPT !["initDevices"] = Waiting("reply")]
     \/ /\ adder["initDevices"].at = "reply"
        /\ found' = found
        /\ adder' = [adder EXCEPT !["initDevices"] = Waiting("idle")]
  /\ UNCHANGED <<configured, added, removed, initializingPaths, devices,
                 updating, refused>>

KnownDevices == devices                 \* initializingPaths not looked at
Known        == devices \cup initializingPaths

\* handleInterfaceAdded, up to its first co_await
HandleInterfaceAdded(t, p) ==
  /\ adder[t].at = "idle"
  /\ IF p \in Known
     THEN UNCHANGED <<adder, initializingPaths>>
     ELSE /\ initializingPaths' = initializingPaths \cup {p}
          /\ adder' = [adder EXCEPT ![t] = [at |-> "getConfig", path |-> p]]
  /\ UNCHANGED <<configured, removed, devices, updating, refused>>

HandleFound(p) ==
  /\ p \in found /\ found' = found \ {p}
  /\ HandleInterfaceAdded("initDevices", p)
  /\ UNCHANGED added

HandleAddedSignal ==
  /\ added # <<>> /\ added' = Tail(added)
  /\ HandleInterfaceAdded("interfaceAddedMatch", Head(added))
  /\ UNCHANGED found

\* The paths that stay marked when the handling of p ends
StillMarked(p)       == initializingPaths
InitializingAfter(p) == initializingPaths \ {p}

EndHandling(t) ==
  /\ adder' = [adder EXCEPT ![t] = Waiting("idle")]
  /\ initializingPaths' = InitializingAfter(adder[t].path)
  /\ UNCHANGED <<configured, added, removed, found, updating>>

\* getConfig fails, always when the configuration has gone, or initDevice
\* rejects what it finds
RefuseConfig(t) ==
  /\ adder[t].at \in {"getConfig", "initDevice"}
  /\ EndHandling(t)
  /\ refused' = refused \cup {adder[t].path}
  /\ UNCHANGED devices

\* The code looks again whether the device is known: it never is, which
\* InitializedOnce says
GetConfig(t) ==
  /\ adder[t].at = "getConfig" /\ adder[t].path \in configured
  /\ adder[t].path \notin devices
  /\ adder' = [adder EXCEPT ![t].at = "initDevice"]
  /\ UNCHANGED <<configured, added, removed, found, initializingPaths, devices,
                 updating, refused>>

InitDevice(t) ==
  /\ adder[t].at = "initDevice"
  /\ devices' = devices \cup {adder[t].path}
  /\ adder' = [adder EXCEPT ![t].at = "device"]
  /\ UNCHANGED <<configured, added, removed, found, initializingPaths, updating,
                 refused>>

\* The association is created and the version set to Active, through the
\* reference taken before the co_await: the device may have been destroyed
\* and the write then goes to freed memory
DeviceAdded(t) ==
  /\ adder[t].at = "device"
  /\ EndHandling(t)
  /\ UNCHANGED <<devices, refused>>

-----------------------------------------------------------------------------
(* Removing devices, and their updates.                                    *)

RemovableAlways(p) == p \in devices     \* updateInProgress not looked at
MayRemove(p)       == p \in devices \ updating

HandleInterfaceRemoved ==
  /\ removed # <<>> /\ removed' = Tail(removed)
  /\ LET p == Head(removed)
     IN  devices' = IF MayRemove(p) THEN devices \ {p} ELSE devices
  /\ UNCHANGED <<configured, added, found, adder, initializingPaths, updating,
                 refused>>

StartUpdate(p) ==
  /\ p \in devices \ updating
  /\ updating' = updating \cup {p}
  /\ UNCHANGED <<configured, added, removed, found, adder, initializingPaths,
                 devices, refused>>

EndUpdate(p) ==
  /\ p \in updating
  /\ updating' = updating \ {p}
  /\ UNCHANGED <<configured, added, removed, found, adder, initializingPaths,
                 devices, refused>>

-----------------------------------------------------------------------------
Resume(t) == RefuseConfig(t) \/ GetConfig(t) \/ InitDevice(t) \/ DeviceAdded(t)

Next ==
  \/ \E p \in Paths : AddConfig(p) \/ RemoveConfig(p)
  \/ GetSubTree
  \/ \E p \in Paths : HandleFound(p)
  \/ HandleAddedSignal
  \/ \E t \in Adders : Resume(t)
  \/ HandleInterfaceRemoved
  \/ \E p \in Paths : StartUpdate(p) \/ EndUpdate(p)

\* Signals are read and calls answered, or they time out; a client need not
\* start updates, and DeviceUpdate ends them.
Spec ==
  /\ Init /\ [][Next]_vars
  /\ WF_vars(GetSubTree)
  /\ WF_vars(\E p \in Paths : HandleFound(p))
  /\ WF_vars(HandleAddedSignal) /\ WF_vars(HandleInterfaceRemoved)
  /\ \A t \in Adders : WF_vars(Resume(t))
  /\ \A p \in Paths : WF_vars(EndUpdate(p))

-----------------------------------------------------------------------------
(* What makes the manager correct.                                         *)

TypeOK ==
  /\ configured \in SUBSET Paths
  /\ added \in Seq(Paths) /\ removed \in Seq(Paths)
  /\ found \in SUBSET Paths
  /\ adder \in [Adders -> Suspended \cup {Waiting(at) : at \in {"idle", "mapper", "reply"}}]
  /\ initializingPaths \in SUBSET Paths /\ devices \in SUBSET Paths
  /\ updating \in SUBSET devices /\ refused \in SUBSET Paths

\* No device is initialised by two tasks at once, which would drive the same
\* hardware twice: initializingPaths is what the suspended tasks work on.
InitializedOnce ==
  /\ initializingPaths = {adder[t].path : t \in Busy}
  /\ \A t, u \in Busy : adder[t].path = adder[u].path => t = u
  /\ \A t \in Busy : adder[t].at # "device" => adder[t].path \notin devices

\* A device that is being updated is never destroyed under its coroutine.
UpdatingDeviceKept == [][updating \subseteq devices']_vars

\* No task is anywhere but waiting for a signal, and no signal waits
Quiet ==
  /\ added = <<>> /\ removed = <<>> /\ found = {}
  /\ \A t \in Adders : adder[t] = Waiting("idle")

\* A configuration that is there to stay gets its device, or is refused for
\* what it says: start-up misses none between its look-up and the signals.
NothingMissed == Quiet => configured \ Removable \subseteq devices \cup refused

\* A path is not left marked as being initialised, which would make every
\* later announcement of it a duplicate.
InitializingEnds == \A p \in Paths : p \in initializingPaths ~> p \notin initializingPaths
=============================================================================
