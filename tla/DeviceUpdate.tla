---------------------------- MODULE DeviceUpdate ----------------------------
(***************************************************************************)
(* One device of the common framework: common/src/device.cpp, software.cpp *)
(* software_update.cpp and events.cpp.  A client calls StartUpdate on the  *)
(* running version; the update is a coroutine of the daemon that is        *)
(* suspended at each co_await, where any other task may run.  Each action  *)
(* is what one task does between two of its co_awaits.                     *)
(*                                                                         *)
(* A Software object is its random id.  Ids of live objects are taken to   *)
(* differ: the code draws one of 10000 and does not check.                 *)
(*                                                                         *)
(* Ready, Invalid and Failed are set and then, without a co_await, changed *)
(* or destroyed with the object: a client sees them in signals only.       *)
(***************************************************************************)
CONSTANTS
  Swids,              \* software ids
  None,               \* a null pointer
  AllowedApplyTimes,  \* what the device allows, of Immediate and OnReset
  LoggingFails        \* committing or resolving a log entry may fail

ASSUME DeviceAssumption ==
  /\ None \notin Swids
  /\ AllowedApplyTimes \subseteq {"Immediate", "OnReset"}
  /\ LoggingFails \in BOOLEAN

\* Other stands for the remaining values of the D-Bus enumeration
RequestedApplyTimes == {"Immediate", "OnReset", "Other"}

VARIABLES
  sw,                \* the interfaces of each Software object
  softwareCurrent,   \* the version running on the device
  softwarePending,   \* the one being written, or waiting for a reset
  updateInProgress,
  step,              \* where the update coroutine of a Software is suspended
  applyTime,         \* its applyTime
  pendingOld,        \* its softwarePendingOld
  announcing,        \* whose association SoftwareManager is creating
  written,           \* what the device holds, None when it is damaged
  misled,            \* what updateDevice returned was not what it had done
  pendingEvents,     \* the errors with an entry in Events::pendingEvents
  orphans            \* errors with an unresolved log entry nobody refers to

slotVars  == <<softwareCurrent, softwarePending, updateInProgress>>
localVars == <<applyTime, pendingOld>>
eventVars == <<pendingEvents, orphans>>
deviceVars == <<written, misled>>
vars == <<sw, slotVars, step, localVars, announcing, deviceVars, eventVars>>

Errors == {"VerificationFailed", "UpdateNotApplicable", "ActivateFailed"}

Steps ==
  {"none",           \* there is no coroutine
   "spawned",        \* startUpdateAsync is about to run
   "unparsable", "parsed", "unmatched", "matched",   \* in getImageInfo
   "targeted",       \* reporting TargetDetermined
   "writing",        \* in updateDevice
   "restoring",      \* in its postUpdate, after it lifted the block
   "failed", "activated", "reporting",               \* reporting how it went
   "resetting", "associating", "resetRequired"}

\* blocks is ActivationBlocksTransition (ActivationProgress comes and goes with
\* it, but for LiftBlock); update is the Update interface.
Object ==
  [activation : {"absent", "NotReady", "Activating", "Active"},
   blocks : BOOLEAN, assoc : {"none", "running", "activating"}, update : BOOLEAN]
NoObject ==
  [activation |-> "absent", blocks |-> FALSE, assoc |-> "none", update |-> FALSE]
NewObject == [NoObject EXCEPT !.activation = "NotReady"]

Live == {s \in Swids : sw[s] # NoObject}
Destroyed(objects, gone) ==
  [s \in Swids |-> IF s \in gone THEN NoObject ELSE objects[s]]

Init ==
  \E s \in Swids :
    /\ sw = [x \in Swids |-> IF x = s THEN [NewObject EXCEPT !.update = TRUE]
                             ELSE NoObject]
    /\ softwareCurrent = s /\ written = s /\ misled = FALSE
    /\ announcing = s
    /\ softwarePending = None /\ updateInProgress = FALSE
    /\ step = [x \in Swids |-> "none"]
    /\ applyTime = [x \in Swids |-> "none"]
    /\ pendingOld = [x \in Swids |-> None]
    /\ pendingEvents = {} /\ orphans = {}

-----------------------------------------------------------------------------
(* Events::generateError, at the end of its co_await.                      *)

\* a log entry of the same error that was still pending is forgotten
RaiseError(e) ==
  \/ /\ pendingEvents' = pendingEvents \cup {e}
     /\ orphans' = orphans \cup ({e} \cap pendingEvents)
  \/ LoggingFails /\ UNCHANGED eventVars

WithdrawError(e) ==
  /\ pendingEvents' = pendingEvents \ {e}
  /\ \/ orphans' = orphans
     \/ LoggingFails /\ orphans' = orphans \cup ({e} \cap pendingEvents)

-----------------------------------------------------------------------------
(* SoftwareUpdate::method_call.  A second update, an apply time that is not *)
(* allowed and a failing dup() leave everything as it was.                 *)

AllowsAnyTime(t) == ~updateInProgress
Available(t)     == ~updateInProgress /\ t \in AllowedApplyTimes

StartUpdate(c, t, s) ==
  /\ sw[c].update /\ Available(t)
  /\ sw[s] = NoObject /\ announcing # s
  /\ updateInProgress' = TRUE
  /\ sw' = [sw EXCEPT ![s] = NewObject]
  /\ step' = [step EXCEPT ![s] = "spawned"]
  /\ applyTime' = [applyTime EXCEPT ![s] = t]
  /\ UNCHANGED <<softwareCurrent, softwarePending, pendingOld, announcing,
                 deviceVars, eventVars>>

-----------------------------------------------------------------------------
(* The update coroutine of s: startUpdateAsync, getImageInfo and           *)
(* continueUpdateWithMappedPackage, and the lambda that awaits them.       *)

Suspend(s, from, to) == step[s] = from /\ step' = [step EXCEPT ![s] = to]

\* The coroutine ends: the flag is cleared and its locals are destroyed
FlagKept == UNCHANGED updateInProgress
ClearFlag == updateInProgress' = FALSE
EndUpdate(s, from) ==
  /\ Suspend(s, from, "none")
  /\ ClearFlag
  /\ applyTime' = [applyTime EXCEPT ![s] = "none"]
  /\ pendingOld' = [pendingOld EXCEPT ![s] = None]
  /\ UNCHANGED announcing

\* The package cannot be mapped, parsed or matched: softwarePendingIn goes
Reject(s, from) ==
  /\ EndUpdate(s, from)
  /\ sw' = Destroyed(sw, {s})
  /\ UNCHANGED <<softwareCurrent, softwarePending, deviceVars>>

RejectUnmapped(s)  == Reject(s, "spawned") /\ UNCHANGED eventVars
RejectUnparsable(s) == Reject(s, "unparsable") /\ RaiseError("VerificationFailed")
RejectUnmatched(s) == Reject(s, "unmatched") /\ RaiseError("UpdateNotApplicable")

ParsePackage(s) ==
  /\ \E to \in {"unparsable", "parsed"} : Suspend(s, "spawned", to)
  /\ UNCHANGED <<sw, slotVars, localVars, announcing, deviceVars, eventVars>>

MatchComponent(s) ==
  /\ \E to \in {"unmatched", "matched"} : Suspend(s, "parsed", to)
  /\ WithdrawError("VerificationFailed")
  /\ UNCHANGED <<sw, slotVars, localVars, announcing, deviceVars>>

DetermineTarget(s) ==
  /\ Suspend(s, "matched", "targeted")
  /\ WithdrawError("UpdateNotApplicable")
  /\ pendingOld' = [pendingOld EXCEPT ![s] = softwarePending]
  /\ softwarePending' = s
  /\ UNCHANGED <<sw, softwareCurrent, updateInProgress, applyTime, announcing,
                 deviceVars>>

BeginWriting(s) ==
  /\ Suspend(s, "targeted", "writing")
  /\ sw' = [sw EXCEPT ![softwarePending] =
                        [@ EXCEPT !.blocks = TRUE, !.activation = "Activating"]]
  /\ UNCHANGED <<slotVars, localVars, announcing, deviceVars, eventVars>>

\* A device writes the image, leaves it as it was (a dry run, an image without
\* data) or damages it, whatever updateDevice is about to return.
Flashed(s) ==
  \/ step[s] = "writing" /\ written' \in {written, softwarePending, None}
  \/ step[s] = "restoring" /\ UNCHANGED written

\* A flash chip lifts the block once it is written: postUpdate asks for the
\* host's power state again, which the block would refuse.
LiftBlock(s) ==
  /\ Suspend(s, "writing", "restoring")
  /\ Flashed(s)
  /\ sw' = [sw EXCEPT ![softwarePending].blocks = FALSE]
  /\ UNCHANGED <<slotVars, localVars, announcing, misled, eventVars>>

\* updateDevice returns false.  It broke its promise when the device holds the
\* image all the same: a step after the write failed.
WriteFails(s) ==
  /\ \E from \in {"writing", "restoring"} : Suspend(s, from, "failed")
  /\ Flashed(s)
  /\ sw' = [sw EXCEPT ![softwarePending].blocks = FALSE]
  /\ misled' = (misled \/ written' = softwarePending)
  /\ UNCHANGED <<slotVars, localVars, announcing, eventVars>>

DropPending(s)    == None               \* the one waiting is not put back
RestorePending(s) == pendingOld[s]

\* softwarePending is reported, set to Failed and replaced by the old one
FailUpdate(s) ==
  /\ EndUpdate(s, "failed")
  /\ RaiseError("ActivateFailed")
  /\ sw' = Destroyed(sw, {softwarePending})
  /\ softwarePending' = RestorePending(s)
  /\ UNCHANGED <<softwareCurrent, deviceVars>>

\* updateDevice returns true.  It broke its promise when the device does not
\* hold the image.
WriteSucceeds(s) ==
  /\ \E from \in {"writing", "restoring"} : Suspend(s, from, "activated")
  /\ Flashed(s)
  /\ sw' = [sw EXCEPT ![softwarePending].activation = "Active"]
  /\ misled' = (written' # softwarePending)
  /\ UNCHANGED <<slotVars, localVars, announcing, eventVars>>

ReportSuccess(s) ==
  /\ Suspend(s, "activated", "reporting")
  /\ WithdrawError("ActivateFailed")
  /\ UNCHANGED <<sw, slotVars, localVars, announcing, deviceVars>>

Unblock(s)    == sw' = [sw EXCEPT ![softwarePending].blocks = FALSE]

EndWriting(s) ==
  /\ Suspend(s, "reporting",
             IF applyTime[s] = "Immediate" THEN "resetting" ELSE "associating")
  /\ Unblock(s)
  /\ UNCHANGED <<slotVars, localVars, announcing, deviceVars, eventVars>>

\* resetDevice returns; its result is not looked at
Reset(s) ==
  /\ Suspend(s, "resetting", "associating")
  /\ UNCHANGED <<sw, slotVars, localVars, announcing, deviceVars, eventVars>>

\* createInventoryAssociation, when the inventory item was found
Associated(object, kind) == {object, [object EXCEPT !.assoc = kind]}

NotEnabled(object)   == object
EnableUpdate(object) == [object EXCEPT !.update = TRUE]

\* The written version becomes the running one; the version that was running
\* and one that waited for a reset are destroyed
ApplyUpdate(s) ==
  /\ applyTime[s] = "Immediate"
  /\ EndUpdate(s, "associating")
  /\ \E object \in Associated(sw[softwarePending], "running") :
       sw' = Destroyed([sw EXCEPT ![softwarePending] = EnableUpdate(object)],
                       {softwareCurrent, pendingOld[s]})
  /\ softwareCurrent' = softwarePending
  /\ softwarePending' = None
  /\ UNCHANGED <<deviceVars, eventVars>>

RequireReset(s) ==
  /\ applyTime[s] = "OnReset"
  /\ Suspend(s, "associating", "resetRequired")
  /\ \E object \in Associated(sw[softwarePending], "activating") :
       sw' = [sw EXCEPT ![softwarePending] = object]
  /\ UNCHANGED <<slotVars, localVars, announcing, deviceVars, eventVars>>

StagedReplaced(s) == {}                 \* the replaced one is leaked
ReplacedBy(s)     == {pendingOld[s]}

StageUpdate(s) ==
  /\ EndUpdate(s, "resetRequired")
  /\ sw' = Destroyed(sw, ReplacedBy(s))
  /\ UNCHANGED <<softwareCurrent, softwarePending, deviceVars, eventVars>>

-----------------------------------------------------------------------------
(* SoftwareManager::handleInterfaceAddedGuarded, after its last co_await:  *)
(* the association is stored in the object it was created for, which an    *)
(* update may have destroyed, and the version now running becomes Active.  *)

Announce ==
  /\ announcing # None
  /\ \E object \in Associated(sw[announcing], "running") :
       sw' = [s \in Swids |->
                LET o == IF s = announcing /\ s \in Live THEN object ELSE sw[s]
                IN  IF s = softwareCurrent THEN [o EXCEPT !.activation = "Active"]
                    ELSE o]
  /\ announcing' = None
  /\ UNCHANGED <<slotVars, step, localVars, deviceVars, eventVars>>

-----------------------------------------------------------------------------
Update(s) ==
  \/ RejectUnmapped(s) \/ RejectUnparsable(s) \/ RejectUnmatched(s)
  \/ ParsePackage(s) \/ MatchComponent(s) \/ DetermineTarget(s)
  \/ BeginWriting(s) \/ LiftBlock(s) \/ WriteFails(s) \/ FailUpdate(s)
  \/ WriteSucceeds(s) \/ ReportSuccess(s) \/ EndWriting(s) \/ Reset(s)
  \/ ApplyUpdate(s) \/ RequireReset(s) \/ StageUpdate(s)

Next ==
  \/ \E c, s \in Swids, t \in RequestedApplyTimes : StartUpdate(c, t, s)
  \/ \E s \in Swids : Update(s)
  \/ Announce

SafeSpec == Init /\ [][Next]_vars

\* A suspended coroutine is resumed: the calls it awaits are answered or time
\* out, and updateDevice ends, as its loops are bounded.
Spec == SafeSpec /\ WF_vars(Announce) /\ \A s \in Swids : WF_vars(Update(s))

-----------------------------------------------------------------------------
(* What makes the framework correct.                                       *)

TypeOK ==
  /\ sw \in [Swids -> Object]
  /\ softwareCurrent \in Swids
  /\ softwarePending \in Swids \cup {None}
  /\ updateInProgress \in BOOLEAN
  /\ step \in [Swids -> Steps]
  /\ applyTime \in [Swids -> AllowedApplyTimes \cup {"none"}]
  /\ pendingOld \in [Swids -> Swids \cup {None}]
  /\ announcing \in Swids \cup {None} /\ written \in Swids \cup {None}
  /\ misled \in BOOLEAN
  /\ pendingEvents \in SUBSET Errors /\ orphans \in SUBSET Errors

Updating == {s \in Swids : step[s] # "none"}

\* The steps before the new Software is moved into softwarePending
Early == {"spawned", "unparsable", "parsed", "unmatched", "matched"}

\* updateInProgress is what keeps two update coroutines of one device, which
\* share softwarePending, from running at once.
OneUpdate ==
  /\ updateInProgress <=> Updating # {}
  /\ \A s, t \in Updating : s = t

\* Every Software on D-Bus is owned by exactly one of the pointers the code
\* moves it between, however updates replace one another and fail: none is
\* leaked and none is destroyed under its owner.
Owned ==
  (({softwareCurrent, softwarePending} \cup {pendingOld[s] : s \in Swids}) \ {None})
    \cup {s \in Swids : step[s] \in Early}
ObjectsOwned ==
  /\ Live = Owned
  /\ softwareCurrent # softwarePending
  /\ \A s \in Updating :
       /\ step[s] \in Early => s \notin {softwareCurrent, softwarePending}
       /\ pendingOld[s] # None => pendingOld[s] \notin {softwareCurrent, softwarePending}

\* Power transitions are blocked while the device is written, until updateDevice
\* lifts the block itself, and not left blocked when the update is over.
BlocksWhileWriting ==
  /\ \A s \in Swids : step[s] = "writing" => sw[s].blocks
  /\ ~updateInProgress => \A s \in Swids : ~sw[s].blocks

\* The running version, and no other, takes the next update.
CurrentUpdatable == {s \in Swids : sw[s].update} = {softwareCurrent}

\* Between updates, an undamaged device holds the version that D-Bus shows as
\* coming with the next reset: the pending one, or the current one.  Excepted is
\* a device that broke the promise of updateDevice, until it succeeds again.
ResetBringsShown ==
  ~updateInProgress /\ ~misled /\ written # None =>
    written = IF softwarePending # None THEN softwarePending ELSE softwareCurrent

\* An update that succeeds has withdrawn the errors of the attempts before it.
SuccessWithdrawsErrors ==
  \A s \in Swids : step[s] \in {"reporting", "resetting", "associating", "resetRequired"}
    => pendingEvents = {}

\* The device keeps the promise of UpdateSlots.
Candidate ==
  IF Updating = {} THEN None ELSE CHOOSE s \in Swids : step[s] # "none"
Staged ==
  IF Candidate # None /\ step[Candidate] \notin Early
  THEN pendingOld[Candidate] ELSE softwarePending

Slots == INSTANCE UpdateSlots
  WITH running <- softwareCurrent, staged <- Staged, candidate <- Candidate
ImplementsSlots == Slots!Spec
=============================================================================
