------------------------- MODULE DeviceUpdateProofs -------------------------
(***************************************************************************)
(* Proofs about DeviceUpdate, for any set of software ids and whatever     *)
(* apply times the device allows: the framework never loses or frees the   *)
(* wrong Software, and a device implements UpdateSlots.                    *)
(***************************************************************************)
EXTENDS DeviceUpdate, TLAPS

Late == Steps \ (Early \cup {"none"})

\* What ties a coroutine to the pointers of the device: from DetermineTarget on
\* softwarePending is its own Software, and only then has it a pendingOld.
Links ==
  /\ \A s \in Swids : step[s] \in Late => softwarePending = s
  /\ \A s \in Swids : step[s] \notin Late => pendingOld[s] = None

\* An object on D-Bus has its Activation interface.
Published == \A s \in Swids : sw[s] # NoObject => sw[s].activation # "absent"

IInv == TypeOK /\ OneUpdate /\ Links /\ Published /\ ObjectsOwned

-----------------------------------------------------------------------------
(* Types.                                                                  *)

LEMMA ObjectTypes ==
  /\ NoObject \in Object /\ NewObject \in Object
  /\ \A o \in Object, kind \in {"running", "activating"} :
       Associated(o, kind) \subseteq Object
  /\ \A o \in Object : EnableUpdate(o) \in Object
  /\ \A o \in Object : \A a \in {"absent", "NotReady", "Activating", "Active"} :
       [o EXCEPT !.activation = a] \in Object
  /\ \A o \in Object : \A b \in BOOLEAN : [o EXCEPT !.blocks = b] \in Object
BY DEF Object, NoObject, NewObject, Associated, EnableUpdate

\* Destroying objects keeps the others as they are.
LEMMA DestroyedType ==
  ASSUME NEW objects \in [Swids -> Object], NEW gone
  PROVE  Destroyed(objects, gone) \in [Swids -> Object]
BY ObjectTypes DEF Destroyed

LEMMA SuspendType ==
  ASSUME TypeOK, NEW s \in Swids, NEW from, NEW to \in Steps, Suspend(s, from, to)
  PROVE  step' \in [Swids -> Steps]
BY DEF Suspend, TypeOK

LEMMA EventTypes ==
  ASSUME TypeOK, NEW e \in Errors, RaiseError(e) \/ WithdrawError(e)
  PROVE  pendingEvents' \in SUBSET Errors /\ orphans' \in SUBSET Errors
BY DEF RaiseError, WithdrawError, TypeOK, eventVars

LEMMA EndUpdateType ==
  ASSUME TypeOK, NEW s \in Swids, NEW from, EndUpdate(s, from)
  PROVE  /\ updateInProgress' \in BOOLEAN /\ step' \in [Swids -> Steps]
         /\ applyTime' \in [Swids -> AllowedApplyTimes \cup {"none"}]
         /\ pendingOld' \in [Swids -> Swids \cup {None}]
         /\ announcing' \in Swids \cup {None}
BY DEF EndUpdate, ClearFlag, Suspend, Steps, TypeOK

\* TypeOK is preserved because a coroutine that writes through softwarePending
\* has put its own Software there.
LEMMA TypeStep == TypeOK /\ Links /\ [Next]_vars => TypeOK'
<1> SUFFICES ASSUME TypeOK, Links, [Next]_vars PROVE TypeOK'
  OBVIOUS
<1> USE DEF slotVars, localVars, deviceVars, eventVars
<1>1. ASSUME NEW c \in Swids, NEW s \in Swids, NEW t \in RequestedApplyTimes,
             StartUpdate(c, t, s)
      PROVE  TypeOK'
  BY <1>1, ObjectTypes DEF StartUpdate, Available, TypeOK, Steps
<1>2. ASSUME NEW s \in Swids, Update(s) PROVE TypeOK'
  <2>1. ASSUME NEW from, Reject(s, from), pendingEvents' \in SUBSET Errors,
               orphans' \in SUBSET Errors
        PROVE  TypeOK'
    <3>1. Destroyed(sw, {s}) \in [Swids -> Object]
      BY DestroyedType DEF TypeOK
    <3> QED
      BY <2>1, <3>1, EndUpdateType DEF Reject, TypeOK
  <2>2. CASE RejectUnmapped(s)
    BY <2>1, <2>2 DEF RejectUnmapped, TypeOK
  <2>3. CASE RejectUnparsable(s)
    BY <2>1, <2>3, EventTypes DEF RejectUnparsable, Errors
  <2>4. CASE RejectUnmatched(s)
    BY <2>1, <2>4, EventTypes DEF RejectUnmatched, Errors
  <2>5. CASE ParsePackage(s)
    <3>1. step' \in [Swids -> Steps]
      BY <2>5, SuspendType DEF ParsePackage, Steps
    <3> QED
      BY <2>5, <3>1 DEF ParsePackage, TypeOK
  <2>6. CASE MatchComponent(s)
    <3>1. step' \in [Swids -> Steps]
      BY <2>6, SuspendType DEF MatchComponent, Steps
    <3>2. pendingEvents' \in SUBSET Errors /\ orphans' \in SUBSET Errors
      BY <2>6, EventTypes DEF MatchComponent, Errors
    <3> QED
      BY <2>6, <3>1, <3>2 DEF MatchComponent, TypeOK
  <2>7. CASE DetermineTarget(s)
    <3>1. step' \in [Swids -> Steps]
      BY <2>7, SuspendType DEF DetermineTarget, Steps
    <3>2. pendingEvents' \in SUBSET Errors /\ orphans' \in SUBSET Errors
      BY <2>7, EventTypes DEF DetermineTarget, Errors
    <3> QED
      BY <2>7, <3>1, <3>2 DEF DetermineTarget, TypeOK
  <2>8. ASSUME step[s] \in Late
        PROVE  softwarePending = s /\ sw[s] \in Object
    BY <2>8 DEF Links, TypeOK
  <2>9. CASE BeginWriting(s)
    <3>1. step' \in [Swids -> Steps]
      BY <2>9, SuspendType DEF BeginWriting, Steps
    <3>2. softwarePending = s /\ sw[s] \in Object
      BY <2>8, <2>9 DEF BeginWriting, Suspend, Late, Steps, Early
    <3>3. [sw[s] EXCEPT !.blocks = TRUE, !.activation = "Activating"] \in Object
      BY <3>2 DEF Object
    <3> QED
      BY <2>9, <3>1, <3>2, <3>3 DEF BeginWriting, TypeOK
  <2>10. CASE WriteFails(s) \/ LiftBlock(s)
    <3>1. step' \in [Swids -> Steps]
      BY <2>10, SuspendType DEF WriteFails, LiftBlock, Steps
    <3>2. softwarePending = s /\ sw[s] \in Object
      BY <2>8, <2>10 DEF WriteFails, LiftBlock, Suspend, Late, Steps, Early
    <3>3. [sw[s] EXCEPT !.blocks = FALSE] \in Object
      BY <3>2, ObjectTypes
    <3>4. written' \in Swids \cup {None} /\ misled' \in BOOLEAN
      BY <2>10, <3>2 DEF WriteFails, LiftBlock, Flashed, TypeOK
    <3>5. sw' = [sw EXCEPT ![s] = [sw[s] EXCEPT !.blocks = FALSE]]
          /\ UNCHANGED <<slotVars, localVars, announcing, eventVars>>
      BY <2>10, <3>2 DEF WriteFails, LiftBlock
    <3> QED
      BY <3>1, <3>3, <3>4, <3>5 DEF TypeOK
  <2>11. CASE FailUpdate(s)
    <3>1. Destroyed(sw, {softwarePending}) \in [Swids -> Object]
      BY DestroyedType DEF TypeOK
    <3>2. pendingEvents' \in SUBSET Errors /\ orphans' \in SUBSET Errors
      BY <2>11, EventTypes DEF FailUpdate, Errors
    <3> QED
      BY <2>11, <3>1, <3>2, EndUpdateType DEF FailUpdate, RestorePending, TypeOK
  <2>12. CASE WriteSucceeds(s)
    <3>1. step' \in [Swids -> Steps]
      BY <2>12, SuspendType DEF WriteSucceeds, Steps
    <3>2. softwarePending = s /\ sw[s] \in Object
      BY <2>8, <2>12 DEF WriteSucceeds, Suspend, Late, Steps, Early
    <3>3. [sw[s] EXCEPT !.activation = "Active"] \in Object
      BY <3>2, ObjectTypes
    <3>4. written' \in Swids \cup {None} /\ misled' \in BOOLEAN
      BY <2>12, <3>2 DEF WriteSucceeds, Flashed, TypeOK
    <3>5. sw' = [sw EXCEPT ![s] = [sw[s] EXCEPT !.activation = "Active"]]
          /\ UNCHANGED <<slotVars, localVars, announcing, eventVars>>
      BY <2>12, <3>2 DEF WriteSucceeds
    <3> QED
      BY <3>1, <3>3, <3>4, <3>5 DEF TypeOK
  <2>13. CASE ReportSuccess(s)
    <3>1. step' \in [Swids -> Steps]
      BY <2>13, SuspendType DEF ReportSuccess, Steps
    <3>2. pendingEvents' \in SUBSET Errors /\ orphans' \in SUBSET Errors
      BY <2>13, EventTypes DEF ReportSuccess, Errors
    <3> QED
      BY <2>13, <3>1, <3>2 DEF ReportSuccess, TypeOK
  <2>14. CASE EndWriting(s)
    <3>1. step' \in [Swids -> Steps]
      BY <2>14, SuspendType DEF EndWriting, Steps
    <3>2. softwarePending = s /\ sw[s] \in Object
      BY <2>8, <2>14 DEF EndWriting, Suspend, Late, Steps, Early
    <3>3. [sw[s] EXCEPT !.blocks = FALSE] \in Object
      BY <3>2, ObjectTypes
    <3> QED
      BY <2>14, <3>1, <3>2, <3>3 DEF EndWriting, Unblock, TypeOK
  <2>15. CASE Reset(s)
    <3>1. step' \in [Swids -> Steps]
      BY <2>15, SuspendType DEF Reset, Steps
    <3> QED
      BY <2>15, <3>1 DEF Reset, TypeOK
  <2>16. CASE ApplyUpdate(s)
    <3>1. softwarePending = s /\ sw[s] \in Object
      BY <2>8, <2>16 DEF ApplyUpdate, EndUpdate, Suspend, Late, Steps, Early
    <3>2. PICK object \in Associated(sw[softwarePending], "running") :
            sw' = Destroyed([sw EXCEPT ![softwarePending] = EnableUpdate(object)],
                            {softwareCurrent, pendingOld[s]})
      BY <2>16 DEF ApplyUpdate
    <3>3. EnableUpdate(object) \in Object
      BY <3>1, <3>2, ObjectTypes
    <3>4. [sw EXCEPT ![softwarePending] = EnableUpdate(object)] \in [Swids -> Object]
      BY <3>3 DEF TypeOK
    <3>5. sw' \in [Swids -> Object]
      BY <3>2, <3>4, DestroyedType
    <3> QED
      BY <2>16, <3>1, <3>5, EndUpdateType DEF ApplyUpdate, TypeOK
  <2>17. CASE RequireReset(s)
    <3>1. softwarePending = s /\ sw[s] \in Object
      BY <2>8, <2>17 DEF RequireReset, Suspend, Late, Steps, Early
    <3>2. PICK object \in Associated(sw[softwarePending], "activating") :
            sw' = [sw EXCEPT ![softwarePending] = object]
      BY <2>17 DEF RequireReset
    <3>3. object \in Object
      BY <3>1, <3>2, ObjectTypes
    <3>4. step' \in [Swids -> Steps]
      BY <2>17, SuspendType DEF RequireReset, Steps
    <3> QED
      BY <2>17, <3>2, <3>3, <3>4 DEF RequireReset, TypeOK
  <2>18. CASE StageUpdate(s)
    <3>1. sw' \in [Swids -> Object]
      BY <2>18, DestroyedType DEF StageUpdate, TypeOK
    <3> QED
      BY <2>18, <3>1, EndUpdateType DEF StageUpdate, TypeOK
  <2> QED
    BY <1>2, <2>2, <2>3, <2>4, <2>5, <2>6, <2>7, <2>9, <2>10, <2>11, <2>12, <2>13,
       <2>14, <2>15, <2>16, <2>17, <2>18 DEF Update
<1>3. CASE Announce
  <2>1. PICK object \in Associated(sw[announcing], "running") :
          sw' = [s \in Swids |->
                   LET o == IF s = announcing /\ s \in Live THEN object ELSE sw[s]
                   IN  IF s = softwareCurrent THEN [o EXCEPT !.activation = "Active"]
                       ELSE o]
    BY <1>3 DEF Announce
  <2>2. announcing \in Swids /\ object \in Object
    BY <1>3, <2>1, ObjectTypes DEF Announce, TypeOK
  <2>3. sw' \in [Swids -> Object]
    <3> SUFFICES ASSUME NEW s \in Swids
                 PROVE  sw'[s] \in Object
      BY <2>1
    <3> DEFINE o == IF s = announcing /\ s \in Live THEN object ELSE sw[s]
    <3>1. o \in Object
      BY <2>2 DEF TypeOK
    <3>2. [o EXCEPT !.activation = "Active"] \in Object
      BY <3>1, ObjectTypes
    <3> QED
      BY <2>1, <3>1, <3>2
  <2> QED
    BY <1>3, <2>3 DEF Announce, TypeOK
<1>4. CASE UNCHANGED vars
  BY <1>4 DEF vars, TypeOK
<1> QED
  BY <1>1, <1>2, <1>3, <1>4 DEF Next

-----------------------------------------------------------------------------
(* One update at a time.  A step of a coroutine either moves it from one   *)
(* co_await to the next, leaving the flag alone, or ends it.               *)

Moves(s) ==
  /\ step[s] # "none"
  /\ \E to \in Steps \ {"none"} : step' = [step EXCEPT ![s] = to]
  /\ UNCHANGED <<updateInProgress, applyTime>>
Ends(s) ==
  /\ step[s] # "none" /\ step' = [step EXCEPT ![s] = "none"]
  /\ updateInProgress' = FALSE

LEMMA UpdateShape ==
  ASSUME NEW s \in Swids, Update(s)
  PROVE  Moves(s) \/ Ends(s)
<1> USE DEF slotVars, localVars, Suspend, Steps, Moves
<1>1. ASSUME NEW from \in Steps \ {"none"}, EndUpdate(s, from) PROVE Ends(s)
  BY <1>1 DEF EndUpdate, ClearFlag, Ends
<1>2. RejectUnmapped(s) \/ RejectUnparsable(s) \/ RejectUnmatched(s) => Ends(s)
  BY <1>1 DEF RejectUnmapped, RejectUnparsable, RejectUnmatched, Reject
<1>3. FailUpdate(s) \/ ApplyUpdate(s) \/ StageUpdate(s) => Ends(s)
  BY <1>1 DEF FailUpdate, ApplyUpdate, StageUpdate
<1>4. ParsePackage(s) => Moves(s)
  BY DEF ParsePackage
<1>5. MatchComponent(s) => Moves(s)
  BY DEF MatchComponent
<1>6. DetermineTarget(s) \/ BeginWriting(s) => Moves(s)
  BY DEF DetermineTarget, BeginWriting
<1>7. LiftBlock(s) \/ WriteFails(s) \/ WriteSucceeds(s) \/ ReportSuccess(s) => Moves(s)
  BY DEF LiftBlock, WriteFails, WriteSucceeds, ReportSuccess
<1>8. EndWriting(s) \/ Reset(s) \/ RequireReset(s) => Moves(s)
  BY DEF EndWriting, Reset, RequireReset
<1> QED
  BY <1>2, <1>3, <1>4, <1>5, <1>6, <1>7, <1>8 DEF Update

LEMMA OneUpdateStep == TypeOK /\ OneUpdate /\ [Next]_vars => OneUpdate'
<1> SUFFICES ASSUME TypeOK, OneUpdate, [Next]_vars PROVE OneUpdate'
  OBVIOUS
<1> USE DEF OneUpdate, Updating, TypeOK
<1>1. ASSUME NEW c \in Swids, NEW s \in Swids, NEW t \in RequestedApplyTimes,
             StartUpdate(c, t, s)
      PROVE  OneUpdate'
  BY <1>1 DEF StartUpdate, Available
<1>2. ASSUME NEW s \in Swids, Update(s) PROVE OneUpdate'
  <2>1. CASE Moves(s)
    BY <2>1 DEF Moves
  <2>2. CASE Ends(s)
    BY <2>2 DEF Ends
  <2> QED
    BY <1>2, <2>1, <2>2, UpdateShape
<1>3. CASE Announce
  BY <1>3 DEF Announce, slotVars
<1>4. CASE UNCHANGED vars
  BY <1>4 DEF vars, slotVars
<1> QED
  BY <1>1, <1>2, <1>3, <1>4 DEF Next

-----------------------------------------------------------------------------
(* The pointers of the running coroutine.                                  *)

\* While s is updated, no other Software has a coroutine.
LEMMA Alone ==
  ASSUME OneUpdate, NEW s \in Swids, step[s] # "none", NEW x \in Swids, x # s
  PROVE  step[x] = "none"
BY DEF OneUpdate, Updating

LEMMA LinksStep == IInv /\ [Next]_vars => Links'
<1> SUFFICES ASSUME IInv, [Next]_vars PROVE Links'
  OBVIOUS
<1> USE DEF IInv, slotVars, localVars
<1>1. ASSUME NEW c \in Swids, NEW s \in Swids, NEW t \in RequestedApplyTimes,
             StartUpdate(c, t, s)
      PROVE  Links'
  <2>1. \A x \in Swids : step[x] = "none"
    BY <1>1 DEF StartUpdate, Available, OneUpdate, Updating
  <2>2. step' = [step EXCEPT ![s] = "spawned"] /\ pendingOld' = pendingOld
    BY <1>1 DEF StartUpdate
  <2> QED
    BY <2>1, <2>2 DEF Links, TypeOK, Late, Steps, Early
<1>2. ASSUME NEW s \in Swids, Update(s) PROVE Links'
  <2>1. step[s] # "none" /\ \A x \in Swids \ {s} : step[x] = "none"
    BY <1>2, UpdateShape, Alone DEF Moves, Ends
  <2>2. ASSUME NEW from, EndUpdate(s, from) PROVE Links'
    BY <2>1, <2>2 DEF EndUpdate, Suspend, Links, TypeOK, Late
  <2>3. ASSUME NEW from, NEW to \in Steps, Suspend(s, from, to),
               from \in Late <=> to \in Late,
               UNCHANGED <<softwarePending, pendingOld>>
        PROVE  Links'
    BY <2>1, <2>3 DEF Suspend, Links, TypeOK
  <2>4. CASE DetermineTarget(s)
    BY <2>1, <2>4 DEF DetermineTarget, Suspend, Links, TypeOK, Late, Steps, Early
  <2>5. RejectUnmapped(s) \/ RejectUnparsable(s) \/ RejectUnmatched(s) => Links'
    BY <2>2 DEF RejectUnmapped, RejectUnparsable, RejectUnmatched, Reject
  <2>6. FailUpdate(s) \/ ApplyUpdate(s) \/ StageUpdate(s) => Links'
    BY <2>2 DEF FailUpdate, ApplyUpdate, StageUpdate
  <2>7. ParsePackage(s) \/ MatchComponent(s) => Links'
    BY <2>3 DEF ParsePackage, MatchComponent, Late, Steps, Early
  <2>8. BeginWriting(s) \/ LiftBlock(s) \/ WriteFails(s) \/ WriteSucceeds(s) => Links'
    BY <2>3 DEF BeginWriting, LiftBlock, WriteFails, WriteSucceeds, Late, Steps, Early
  <2>9. ReportSuccess(s) \/ EndWriting(s) \/ Reset(s) \/ RequireReset(s) => Links'
    BY <2>3 DEF ReportSuccess, EndWriting, Reset, RequireReset, Late, Steps, Early
  <2> QED
    BY <1>2, <2>4, <2>5, <2>6, <2>7, <2>8, <2>9 DEF Update
<1>3. CASE Announce
  BY <1>3 DEF Announce, Links
<1>4. CASE UNCHANGED vars
  BY <1>4 DEF vars, Links
<1> QED
  BY <1>1, <1>2, <1>3, <1>4 DEF Next

-----------------------------------------------------------------------------
(* Who owns the objects.                                                   *)

\* While s is updated: the device's two pointers and the coroutine's own two.
OwnedBy(s) ==
  ({softwareCurrent, softwarePending, pendingOld[s]} \ {None})
    \cup {x \in {s} : step[x] \in Early}
OwnedIdle == {softwareCurrent, softwarePending} \ {None}

LEMMA OwnedIs ==
  /\ \A s \in Swids : OneUpdate /\ Links /\ step[s] # "none" => Owned = OwnedBy(s)
  /\ (\A s \in Swids : step[s] = "none") /\ Links => Owned = OwnedIdle
<1>1. ASSUME NEW s \in Swids, OneUpdate, Links, step[s] # "none"
      PROVE  Owned = OwnedBy(s)
  <2>1. \A x \in Swids \ {s} : step[x] = "none" /\ pendingOld[x] = None
    BY <1>1, Alone DEF Links, Late
  <2> QED
    BY <1>1, <2>1 DEF Owned, OwnedBy, Early
<1>2. ASSUME \A s \in Swids : step[s] = "none", Links PROVE Owned = OwnedIdle
  <2>1. \A x \in Swids : pendingOld[x] = None
    BY <1>2 DEF Links, Late
  <2> QED
    BY <1>2, <2>1 DEF Owned, OwnedIdle, Early
<1> QED
  BY <1>1, <1>2

LEMMA OwnedIsNext ==
  /\ \A s \in Swids :
       (OneUpdate /\ Links /\ step[s] # "none")' => Owned' = OwnedBy(s)'
  /\ (\A s \in Swids : step'[s] = "none") /\ Links' => Owned' = OwnedIdle'
<1>1. ASSUME NEW s \in Swids, OneUpdate', Links', step'[s] # "none"
      PROVE  Owned' = OwnedBy(s)'
  <2>1. \A x \in Swids \ {s} : step'[x] = "none" /\ pendingOld'[x] = None
    BY <1>1 DEF OneUpdate, Updating, Links, Late
  <2> QED
    BY <1>1, <2>1 DEF Owned, OwnedBy, Early
<1>2. ASSUME \A s \in Swids : step'[s] = "none", Links' PROVE Owned' = OwnedIdle'
  <2>1. \A x \in Swids : pendingOld'[x] = None
    BY <1>2 DEF Links, Late
  <2> QED
    BY <1>2, <2>1 DEF Owned, OwnedIdle, Early
<1> QED
  BY <1>1, <1>2

\* Changing an object that is on D-Bus leaves it there.
LEMMA LiveKept ==
  ASSUME TypeOK, Published, NEW s \in Swids, sw[s] # NoObject,
         NEW o \in Object, o.activation # "absent", sw' = [sw EXCEPT ![s] = o]
  PROVE  Published' /\ Live' = Live
<1>1. sw'[s] = o /\ \A x \in Swids \ {s} : sw'[x] = sw[x]
  BY DEF TypeOK
<1>2. o # NoObject
  BY DEF NoObject
<1> QED
  BY <1>1, <1>2 DEF Published, Live

LEMMA LiveDestroyed ==
  ASSUME NEW objects \in [Swids -> Object], NEW gone,
         \A s \in Swids : objects[s] # NoObject => objects[s].activation # "absent",
         sw' = Destroyed(objects, gone)
  PROVE  Published' /\ Live' = {s \in Swids : objects[s] # NoObject} \ gone
BY DEF Published, Live, Destroyed

\* What a step of the coroutine of s, which owns its own Software, leaves live.
LEMMA LiveStep ==
  ASSUME IInv, NEW s \in Swids, Update(s)
  PROVE  /\ Published'
         /\ \/ /\ Moves(s) \/ RejectUnmapped(s) \/ RejectUnparsable(s)
                  \/ RejectUnmatched(s) \/ FailUpdate(s)
               /\ Live' = IF Moves(s) THEN Live ELSE Live \ {s}
            \/ ApplyUpdate(s) /\ Live' = Live \ {softwareCurrent, pendingOld[s]}
            \/ StageUpdate(s) /\ Live' = Live \ {pendingOld[s]}
<1> USE DEF IInv
<1>0. /\ sw \in [Swids -> Object]
      /\ \A x \in Swids : sw[x] # NoObject => sw[x].activation # "absent"
      /\ Live = {x \in Swids : sw[x] # NoObject}
  BY DEF TypeOK, Published, Live
<1>1. sw[s] # NoObject /\ sw[s] \in Object /\ step[s] # "none"
  <2>1. step[s] # "none"
    BY UpdateShape DEF Moves, Ends
  <2>2. s \in Owned
    <3>1. CASE step[s] \in Early
      BY <3>1 DEF Owned
    <3>2. CASE step[s] \notin Early
      <4>1. softwarePending = s
        BY <2>1, <3>2 DEF Links, TypeOK, Late
      <4> QED
        BY <4>1, DeviceAssumption DEF Owned
    <3> QED
      BY <3>1, <3>2
  <2> QED
    BY <1>0, <2>1, <2>2 DEF ObjectsOwned
<1>2. ASSUME UNCHANGED sw PROVE Published' /\ Live' = Live
  BY <1>2 DEF Published, Live
<1>3. ASSUME step[s] \in Late PROVE softwarePending = s
  BY <1>3 DEF Links
<1>4. ASSUME NEW from, Reject(s, from) PROVE Published' /\ Live' = Live \ {s}
  BY <1>0, <1>4, LiveDestroyed DEF Reject
<1>5. CASE RejectUnmapped(s) \/ RejectUnparsable(s) \/ RejectUnmatched(s)
  <2>1. Published' /\ Live' = Live \ {s}
    BY <1>4, <1>5 DEF RejectUnmapped, RejectUnparsable, RejectUnmatched
  <2>2. ~Moves(s)
    BY <1>5 DEF Moves, TypeOK, RejectUnmapped, RejectUnparsable, RejectUnmatched,
                Reject, EndUpdate, Suspend
  <2> QED
    BY <1>5, <2>1, <2>2
<1>6. CASE FailUpdate(s)
  <2>1. softwarePending = s
    BY <1>3, <1>6 DEF FailUpdate, EndUpdate, Suspend, Late, Steps, Early
  <2>2. Published' /\ Live' = Live \ {s}
    BY <1>0, <1>6, <2>1, LiveDestroyed DEF FailUpdate
  <2>3. ~Moves(s)
    BY <1>6 DEF Moves, TypeOK, FailUpdate, EndUpdate, Suspend
  <2> QED
    BY <1>6, <2>2, <2>3
<1>7. CASE ApplyUpdate(s)
  <2>1. softwarePending = s
    BY <1>3, <1>7 DEF ApplyUpdate, EndUpdate, Suspend, Late, Steps, Early
  <2>2. PICK object \in Associated(sw[s], "running") :
          sw' = Destroyed([sw EXCEPT ![s] = EnableUpdate(object)],
                          {softwareCurrent, pendingOld[s]})
    BY <1>7, <2>1 DEF ApplyUpdate
  <2>3. EnableUpdate(object) \in Object
    BY <1>1, <2>2, ObjectTypes
  <2>4. EnableUpdate(object).activation = sw[s].activation
    BY <1>1, <2>2 DEF Associated, EnableUpdate, Object
  <2>5. EnableUpdate(object) # NoObject
    BY <1>0, <1>1, <2>4 DEF NoObject
  <2> DEFINE objects == [sw EXCEPT ![s] = EnableUpdate(object)]
  <2>6. objects \in [Swids -> Object]
    BY <1>0, <2>3
  <2>7. \A x \in Swids : objects[x] # NoObject => objects[x].activation # "absent"
    BY <1>0, <1>1, <2>4
  <2>8. {x \in Swids : objects[x] # NoObject} = Live
    BY <1>0, <1>1, <2>5
  <2> HIDE DEF objects
  <2>9. Published' /\ Live' = Live \ {softwareCurrent, pendingOld[s]}
    BY <2>2, <2>6, <2>7, <2>8, LiveDestroyed DEF objects
  <2> QED
    BY <1>7, <2>9
<1>8. CASE StageUpdate(s)
  <2>1. Published' /\ Live' = Live \ {pendingOld[s]}
    BY <1>0, <1>8, LiveDestroyed DEF StageUpdate, ReplacedBy
  <2> QED
    BY <1>8, <2>1
<1>9. ASSUME Published' /\ Live' = Live, Moves(s)
      PROVE  /\ Published'
             /\ Moves(s) /\ Live' = IF Moves(s) THEN Live ELSE Live \ {s}
  BY <1>9
<1>10. CASE ParsePackage(s) \/ MatchComponent(s) \/ DetermineTarget(s)
              \/ ReportSuccess(s) \/ Reset(s)
  <2>1. UNCHANGED sw /\ Moves(s)
    BY <1>10 DEF ParsePackage, MatchComponent, DetermineTarget, ReportSuccess,
                 Reset, Moves, Suspend, Steps, slotVars, localVars
  <2> QED
    BY <1>2, <2>1
<1>11. CASE BeginWriting(s)
  <2>1. softwarePending = s /\ Moves(s)
    BY <1>3, <1>11 DEF BeginWriting, Suspend, Late, Steps, Early, Moves, slotVars, localVars
  <2> DEFINE o == [sw[s] EXCEPT !.blocks = TRUE, !.activation = "Activating"]
  <2>2. o \in Object /\ o.activation # "absent" /\ sw' = [sw EXCEPT ![s] = o]
    BY <1>1, <1>11, <2>1 DEF BeginWriting, Object
  <2> QED
    BY <1>1, <2>1, <2>2, LiveKept
<1>12. CASE LiftBlock(s) \/ WriteFails(s) \/ EndWriting(s)
  <2>1. softwarePending = s /\ Moves(s)
    BY <1>3, <1>12 DEF LiftBlock, WriteFails, EndWriting, Suspend, Late, Steps, Early, Moves,
                       slotVars, localVars
  <2> DEFINE o == [sw[s] EXCEPT !.blocks = FALSE]
  <2>2. o \in Object /\ o.activation # "absent" /\ sw' = [sw EXCEPT ![s] = o]
    BY <1>0, <1>1, <1>12, <2>1 DEF LiftBlock, WriteFails, EndWriting, Unblock, Object
  <2> QED
    BY <1>1, <2>1, <2>2, LiveKept
<1>13. CASE WriteSucceeds(s)
  <2>1. softwarePending = s /\ Moves(s)
    BY <1>3, <1>13 DEF WriteSucceeds, Suspend, Late, Steps, Early, Moves, slotVars, localVars
  <2> DEFINE o == [sw[s] EXCEPT !.activation = "Active"]
  <2>2. o \in Object /\ o.activation # "absent" /\ sw' = [sw EXCEPT ![s] = o]
    BY <1>1, <1>13, <2>1 DEF WriteSucceeds, Object
  <2> QED
    BY <1>1, <2>1, <2>2, LiveKept
<1>14. CASE RequireReset(s)
  <2>1. softwarePending = s /\ Moves(s)
    BY <1>3, <1>14 DEF RequireReset, Suspend, Late, Steps, Early, Moves, slotVars, localVars
  <2>2. PICK object \in Associated(sw[s], "activating") : sw' = [sw EXCEPT ![s] = object]
    BY <1>14, <2>1 DEF RequireReset
  <2>3. object \in Object /\ object.activation # "absent"
    BY <1>0, <1>1, <2>2 DEF Associated, Object
  <2> QED
    BY <1>1, <2>1, <2>2, <2>3, LiveKept
<1> QED
  BY <1>5, <1>6, <1>7, <1>8, <1>10, <1>11, <1>12, <1>13, <1>14 DEF Update

\* Announce gives a live object an association and makes the current one Active.
LEMMA AnnounceLive == IInv /\ Announce => Published' /\ Live' = Live
<1> SUFFICES ASSUME IInv, Announce PROVE Published' /\ Live' = Live
  OBVIOUS
<1> USE DEF IInv
<1>1. PICK object \in Associated(sw[announcing], "running") :
        sw' = [s \in Swids |->
                 LET o == IF s = announcing /\ s \in Live THEN object ELSE sw[s]
                 IN  IF s = softwareCurrent THEN [o EXCEPT !.activation = "Active"]
                     ELSE o]
  BY DEF Announce
<1>2. announcing \in Swids /\ sw[announcing] \in Object
  BY DEF Announce, TypeOK
<1>3. object \in Object /\ object.activation = sw[announcing].activation
  BY <1>1, <1>2 DEF Associated, Object
<1>4. softwareCurrent \in Live
  BY DeviceAssumption DEF ObjectsOwned, Owned, TypeOK
<1>5. ASSUME NEW s \in Swids
      PROVE  /\ sw[s] # NoObject <=> sw'[s] # NoObject
             /\ sw'[s] # NoObject => sw'[s].activation # "absent"
  <2> DEFINE o == IF s = announcing /\ s \in Live THEN object ELSE sw[s]
  <2>1. o \in Object /\ o.activation = sw[s].activation
    BY <1>3 DEF TypeOK
  <2>2. sw[s] # NoObject => sw[s].activation # "absent"
    BY DEF Published
  <2>3. sw[s] = NoObject => o = NoObject
    BY DEF Live
  <2>4. NoObject.activation = "absent"
    BY DEF NoObject
  <2>5. sw'[s] = IF s = softwareCurrent THEN [o EXCEPT !.activation = "Active"] ELSE o
    BY <1>1
  <2> HIDE DEF o
  <2>6. CASE s = softwareCurrent
    <3>1. sw'[s].activation = "Active"
      BY <2>1, <2>5, <2>6 DEF Object
    <3>2. sw[s] # NoObject
      BY <1>4, <2>6 DEF Live
    <3> QED
      BY <2>4, <3>1, <3>2
  <2>7. CASE s # softwareCurrent
    BY <2>1, <2>2, <2>3, <2>4, <2>5, <2>7
  <2> QED
    BY <2>6, <2>7
<1> QED
  BY <1>5 DEF Published, Live

\* Only DetermineTarget and the end of a coroutine change the pointers.
LEMMA PointersKept ==
  ASSUME TypeOK, NEW s \in Swids, Update(s), Moves(s), ~DetermineTarget(s)
  PROVE  /\ UNCHANGED <<softwareCurrent, softwarePending, pendingOld>>
         /\ step[s] \in Early <=> step'[s] \in Early
<1> USE DEF Suspend, TypeOK, Early, slotVars, localVars
<1>1. step'[s] # "none"
  BY DEF Moves
<1>2. CASE ParsePackage(s) \/ MatchComponent(s)
  BY <1>2 DEF ParsePackage, MatchComponent
<1>3. CASE BeginWriting(s) \/ LiftBlock(s) \/ WriteFails(s) \/ WriteSucceeds(s)
  BY <1>3 DEF BeginWriting, LiftBlock, WriteFails, WriteSucceeds
<1>4. CASE ReportSuccess(s) \/ EndWriting(s) \/ Reset(s) \/ RequireReset(s)
  BY <1>4 DEF ReportSuccess, EndWriting, Reset, RequireReset
<1>5. ASSUME NEW from, EndUpdate(s, from) PROVE FALSE
  BY <1>1, <1>5 DEF EndUpdate
<1> QED
  BY <1>2, <1>3, <1>4, <1>5
     DEF Update, RejectUnmapped, RejectUnparsable, RejectUnmatched, Reject,
         FailUpdate, ApplyUpdate, StageUpdate

\* Each step moves a Software between owners or ends it with its last owner.
LEMMA ObjectsStep ==
  IInv /\ OneUpdate' /\ Links' /\ [Next]_vars => Published' /\ ObjectsOwned'
<1> SUFFICES ASSUME IInv, OneUpdate', Links', [Next]_vars
             PROVE  Published' /\ ObjectsOwned'
  OBVIOUS
<1> USE DEF IInv, slotVars, localVars
<1>1. ASSUME NEW c \in Swids, NEW s \in Swids, NEW t \in RequestedApplyTimes,
             StartUpdate(c, t, s)
      PROVE  Published' /\ ObjectsOwned'
  <2>1. \A x \in Swids : step[x] = "none" /\ pendingOld[x] = None
    BY <1>1 DEF StartUpdate, Available, OneUpdate, Updating, Links, Late
  <2>2. /\ sw' = [sw EXCEPT ![s] = NewObject] /\ step' = [step EXCEPT ![s] = "spawned"]
        /\ UNCHANGED <<softwareCurrent, softwarePending, pendingOld>> /\ s \notin Live
    BY <1>1 DEF StartUpdate, Live
  <2>3. NewObject # NoObject /\ NewObject.activation # "absent"
    BY DEF NewObject, NoObject
  <2>4. Published' /\ Live' = Live \cup {s}
    BY <2>2, <2>3 DEF Published, Live, TypeOK
  <2>5. step'[s] = "spawned" /\ \A x \in Swids \ {s} : step'[x] = "none"
    BY <2>1, <2>2 DEF TypeOK
  <2>6. Live = OwnedIdle
    BY <2>1, OwnedIs DEF ObjectsOwned
  <2>7. Owned' = OwnedIdle \cup {s}
    BY <2>1, <2>2, <2>5, OwnedIsNext DEF OwnedBy, OwnedIdle, Early
  <2>8. s \notin {softwareCurrent, softwarePending}
    BY <2>2, <2>6, DeviceAssumption DEF OwnedIdle
  <2> QED
    BY <2>1, <2>2, <2>4, <2>5, <2>6, <2>7, <2>8 DEF ObjectsOwned, Updating
<1>2. ASSUME NEW s \in Swids, Update(s) PROVE Published' /\ ObjectsOwned'
  <2>1. step[s] # "none" /\ \A x \in Swids \ {s} : step[x] = "none"
    BY <1>2, UpdateShape, Alone DEF Moves, Ends
  <2>2. Live = OwnedBy(s)
    BY <2>1, OwnedIs DEF ObjectsOwned
  <2>3. step[s] \in Late => softwarePending = s
    BY DEF Links
  <2>4. step[s] \notin Late => pendingOld[s] = None /\ step[s] \in Early
    BY <2>1 DEF Links, TypeOK, Late
  <2>5. Published'
    BY <1>2, LiveStep
  <2>6. /\ softwareCurrent # softwarePending
        /\ step[s] \in Early => s \notin {softwareCurrent, softwarePending}
        /\ pendingOld[s] # None => pendingOld[s] \notin {softwareCurrent, softwarePending}
        /\ pendingOld[s] = s => s = None
    BY <2>1, <2>3, <2>4 DEF ObjectsOwned, Updating
  <2>7. CASE Moves(s)
    <3>1. Live' = Live
      <4>1. step'[s] # "none"
        BY <2>7 DEF Moves, TypeOK
      <4>2. ~ApplyUpdate(s)
        BY <4>1 DEF ApplyUpdate, EndUpdate, Suspend, TypeOK
      <4>3. ~StageUpdate(s)
        BY <4>1 DEF StageUpdate, EndUpdate, Suspend, TypeOK
      <4> QED
        BY <1>2, <2>7, <4>2, <4>3, LiveStep
    <3>2. step'[s] # "none" /\ \A x \in Swids \ {s} : step'[x] = "none"
      BY <2>1, <2>7 DEF Moves, TypeOK
    <3>3. Owned' = OwnedBy(s)'
      BY <3>2, OwnedIsNext
    <3>4. CASE DetermineTarget(s)
      <4>1. /\ softwareCurrent' = softwareCurrent /\ softwarePending' = s
            /\ pendingOld'[s] = softwarePending /\ step[s] \in Early
            /\ step'[s] \notin Early
        BY <3>4 DEF DetermineTarget, Suspend, TypeOK, Early
      <4>2. OwnedBy(s)' = OwnedBy(s)
        BY <2>4, <4>1, DeviceAssumption DEF OwnedBy, Late
      <4>3. /\ softwareCurrent # s
            /\ softwarePending # None => softwarePending \notin {softwareCurrent, s}
        BY <2>6, <4>1
      <4>4. Live' = Owned'
        BY <2>2, <3>1, <3>3, <4>2
      <4> QED
        BY <2>5, <3>2, <4>1, <4>3, <4>4 DEF ObjectsOwned, Updating
    <3>5. CASE ~DetermineTarget(s)
      <4>1. /\ UNCHANGED <<softwareCurrent, softwarePending, pendingOld>>
            /\ step[s] \in Early <=> step'[s] \in Early
        BY <1>2, <2>7, <3>5, PointersKept
      <4>2. OwnedBy(s)' = OwnedBy(s)
        BY <4>1 DEF OwnedBy
      <4> QED
        BY <2>2, <2>5, <2>6, <3>1, <3>2, <3>3, <4>1, <4>2 DEF ObjectsOwned, Updating
    <3> QED
      BY <3>4, <3>5
  <2>8. CASE Ends(s)
    <3>1. \A x \in Swids : step'[x] = "none"
      BY <2>1, <2>8 DEF Ends, TypeOK
    <3>2. Owned' = OwnedIdle'
      BY <3>1, OwnedIsNext
    <3>3. ~Moves(s)
      BY <2>8 DEF Moves, Ends, TypeOK
    <3>4. ASSUME Live' = OwnedIdle', softwareCurrent' # softwarePending'
          PROVE  ObjectsOwned'
      BY <3>1, <3>2, <3>4 DEF ObjectsOwned, Updating
    <3>5. CASE RejectUnmapped(s) \/ RejectUnparsable(s) \/ RejectUnmatched(s)
      <4>1. /\ UNCHANGED <<softwareCurrent, softwarePending>> /\ step[s] \notin Late
        BY <3>5 DEF RejectUnmapped, RejectUnparsable, RejectUnmatched, Reject,
                    EndUpdate, Suspend, Late, Early
      <4>2. Live' = Live \ {s}
        BY <1>2, <3>3, <3>5, LiveStep DEF RejectUnmapped, RejectUnparsable,
           RejectUnmatched, Reject, ApplyUpdate, StageUpdate, EndUpdate, Suspend
      <4> QED
        BY <2>2, <2>4, <2>5, <2>6, <3>4, <4>1, <4>2 DEF OwnedBy, OwnedIdle
    <3>6. CASE FailUpdate(s)
      <4>1. /\ softwareCurrent' = softwareCurrent /\ softwarePending' = pendingOld[s]
            /\ softwarePending = s /\ step[s] \notin Early
        BY <2>3, <3>6 DEF FailUpdate, RestorePending, EndUpdate, Suspend, Late, Early, Steps
      <4>2. Live' = Live \ {s}
        BY <1>2, <3>3, <3>6, LiveStep DEF FailUpdate, ApplyUpdate, StageUpdate,
           EndUpdate, Suspend
      <4>3. softwareCurrent \in Swids
        BY DEF TypeOK
      <4> QED
        BY <2>2, <2>5, <2>6, <3>4, <4>1, <4>2, <4>3, DeviceAssumption
           DEF OwnedBy, OwnedIdle
    <3>7. CASE ApplyUpdate(s)
      <4>1. /\ softwareCurrent' = s /\ softwarePending' = None
            /\ softwarePending = s /\ step[s] \notin Early
        BY <2>3, <3>7 DEF ApplyUpdate, EndUpdate, Suspend, Late, Early, Steps
      <4>2. Live' = Live \ {softwareCurrent, pendingOld[s]}
        BY <1>2, <3>3, <3>7, LiveStep DEF RejectUnmapped, RejectUnparsable,
           RejectUnmatched, Reject, FailUpdate, ApplyUpdate, StageUpdate, EndUpdate, Suspend
      <4> QED
        BY <2>2, <2>5, <2>6, <3>4, <4>1, <4>2, DeviceAssumption DEF OwnedBy, OwnedIdle
    <3>8. CASE StageUpdate(s)
      <4>1. /\ UNCHANGED <<softwareCurrent, softwarePending>>
            /\ softwarePending = s /\ step[s] \notin Early
        BY <2>3, <3>8 DEF StageUpdate, EndUpdate, Suspend, Late, Early, Steps
      <4>2. Live' = Live \ {pendingOld[s]}
        BY <1>2, <3>3, <3>8, LiveStep DEF RejectUnmapped, RejectUnparsable,
           RejectUnmatched, Reject, FailUpdate, ApplyUpdate, StageUpdate, EndUpdate, Suspend
      <4> QED
        BY <2>2, <2>5, <2>6, <3>4, <4>1, <4>2, DeviceAssumption DEF OwnedBy, OwnedIdle
    <3> QED
      BY <1>2, <2>5, <3>3, <3>5, <3>6, <3>7, <3>8, LiveStep
  <2> QED
    BY <1>2, <2>7, <2>8, UpdateShape
<1>3. CASE Announce
  <2>1. UNCHANGED <<softwareCurrent, softwarePending, step, pendingOld>>
    BY <1>3 DEF Announce
  <2>2. Owned' = Owned /\ Updating' = Updating
    BY <2>1 DEF Owned, Updating
  <2> QED
    BY <1>3, <2>1, <2>2, AnnounceLive DEF ObjectsOwned
<1>4. CASE UNCHANGED vars
  BY <1>4 DEF vars, Published, ObjectsOwned, Owned, Updating, Live
<1> QED
  BY <1>1, <1>2, <1>3, <1>4 DEF Next

-----------------------------------------------------------------------------
(* The invariant.                                                          *)

LEMMA InitInv == Init => IInv
<1> SUFFICES ASSUME Init PROVE IInv
  OBVIOUS
<1>1. PICK s \in Swids :
        /\ sw = [x \in Swids |-> IF x = s THEN [NewObject EXCEPT !.update = TRUE]
                                 ELSE NoObject]
        /\ softwareCurrent = s /\ written = s /\ misled = FALSE
        /\ announcing = s
        /\ softwarePending = None /\ updateInProgress = FALSE
        /\ step = [x \in Swids |-> "none"]
        /\ applyTime = [x \in Swids |-> "none"]
        /\ pendingOld = [x \in Swids |-> None]
        /\ pendingEvents = {} /\ orphans = {}
  BY DEF Init
<1>2. [NewObject EXCEPT !.update = TRUE] \in Object /\ NoObject \in Object
  BY DEF Object, NewObject, NoObject
<1>3. [NewObject EXCEPT !.update = TRUE].activation = "NotReady"
      /\ NoObject.activation = "absent"
  BY DEF NewObject, NoObject
<1>4. TypeOK
  BY <1>1, <1>2 DEF TypeOK, Steps
<1>5. OneUpdate /\ Links /\ Published
  BY <1>1, <1>3 DEF OneUpdate, Updating, Links, Late, Published
<1>6. Owned = {s}
  BY <1>1, DeviceAssumption DEF Owned, Early
<1>7. Live = {s}
  BY <1>1, <1>3 DEF Live
<1>8. ObjectsOwned
  BY <1>1, <1>6, <1>7, DeviceAssumption DEF ObjectsOwned, Updating
<1> QED
  BY <1>4, <1>5, <1>8 DEF IInv

LEMMA InvStep == IInv /\ [Next]_vars => IInv'
BY TypeStep, OneUpdateStep, LinksStep, ObjectsStep DEF IInv

LEMMA InvHolds == SafeSpec => []IInv
<1>1. IInv /\ [Next]_vars => IInv'
  BY InvStep
<1> QED
  BY <1>1, InitInv, PTL DEF SafeSpec

\* Every variable of a device keeps its type.
THEOREM TypeCorrect == SafeSpec => []TypeOK
<1>1. IInv => TypeOK
  BY DEF IInv
<1> QED
  BY <1>1, InvHolds, PTL

\* A device never runs two updates at once, and updateInProgress says whether
\* it runs one: method_call, continueUpdateWithMappedPackage and the lambda in
\* startUpdateAsync agree on who sets and who clears it.
THEOREM NeverTwoUpdates == SafeSpec => []OneUpdate
<1>1. IInv => OneUpdate
  BY DEF IInv
<1> QED
  BY <1>1, InvHolds, PTL

\* However updates succeed, fail and replace one another, device.cpp leaks no
\* Software and destroys none that something still points to.
THEOREM NothingLeaked == SafeSpec => []ObjectsOwned
<1>1. IInv => ObjectsOwned
  BY DEF IInv
<1> QED
  BY <1>1, InvHolds, PTL

-----------------------------------------------------------------------------
(* A device implements UpdateSlots.                                        *)

LEMMA CandidateIs ==
  ASSUME OneUpdate
  PROVE  /\ \A s \in Swids : step[s] # "none" => Candidate = s
         /\ (\A s \in Swids : step[s] = "none") => Candidate = None
BY DEF OneUpdate, Updating, Candidate

LEMMA CandidateIsNext ==
  ASSUME OneUpdate'
  PROVE  /\ \A s \in Swids : step'[s] # "none" => Candidate' = s
         /\ (\A s \in Swids : step'[s] = "none") => Candidate' = None
BY DEF OneUpdate, Updating, Candidate

LEMMA SlotsInit == Init /\ IInv => Slots!Init
<1> SUFFICES ASSUME Init, IInv PROVE Slots!Init
  OBVIOUS
<1>1. \A s \in Swids : step[s] = "none"
  BY DEF Init
<1>2. softwarePending = None /\ softwareCurrent \in Swids
  BY DEF Init
<1>3. Candidate = None
  BY <1>1, CandidateIs DEF IInv
<1> QED
  BY <1>2, <1>3 DEF Slots!Init, Staged

LEMMA SlotsStep == IInv /\ IInv' /\ [Next]_vars => [Slots!Next]_(Slots!vars)
<1> SUFFICES ASSUME IInv, IInv', [Next]_vars PROVE [Slots!Next]_(Slots!vars)
  OBVIOUS
<1> USE DEF IInv, slotVars, localVars
<1>1. ASSUME NEW c \in Swids, NEW s \in Swids, NEW t \in RequestedApplyTimes,
             StartUpdate(c, t, s)
      PROVE  Slots!Take(s)
  <2>1. \A x \in Swids : step[x] = "none"
    BY <1>1 DEF StartUpdate, Available, OneUpdate, Updating
  <2>2. step'[s] = "spawned" /\ s \notin Live
        /\ UNCHANGED <<softwareCurrent, softwarePending>>
    BY <1>1 DEF StartUpdate, TypeOK, Live
  <2>3. Live = OwnedIdle
    BY <2>1, OwnedIs DEF ObjectsOwned
  <2>4. Candidate = None /\ Candidate' = s
    BY <2>1, <2>2, CandidateIs, CandidateIsNext
  <2>5. Staged = softwarePending /\ Staged' = softwarePending
    BY <2>2, <2>4, DeviceAssumption DEF Staged, Early
  <2>6. s \notin {softwareCurrent, softwarePending}
    BY <2>2, <2>3, DeviceAssumption DEF OwnedIdle
  <2> QED
    BY <2>2, <2>4, <2>5, <2>6 DEF Slots!Take
<1>2. ASSUME NEW s \in Swids, Update(s) PROVE [Slots!Next]_(Slots!vars)
  <2>1. step[s] # "none" /\ s # None
    BY <1>2, UpdateShape, DeviceAssumption DEF Moves, Ends
  <2>2. Candidate = s
    BY <2>1, CandidateIs
  <2>3. Staged = IF step[s] \notin Early THEN pendingOld[s] ELSE softwarePending
    BY <2>1, <2>2 DEF Staged
  <2>4. step[s] \in Late => softwarePending = s
    BY DEF Links
  <2>5. CASE Moves(s)
    <3>1. step'[s] # "none"
      BY <2>5 DEF Moves, TypeOK
    <3>2. Candidate' = s
      BY <3>1, CandidateIsNext
    <3>3. Staged' = IF step'[s] \notin Early THEN pendingOld'[s] ELSE softwarePending'
      BY <2>1, <3>2 DEF Staged
    <3>4. CASE DetermineTarget(s)
      <4>1. /\ softwareCurrent' = softwareCurrent
            /\ pendingOld'[s] = softwarePending /\ step[s] \in Early
            /\ step'[s] \notin Early
        BY <3>4 DEF DetermineTarget, Suspend, TypeOK, Early
      <4> QED
        BY <2>2, <2>3, <3>2, <3>3, <4>1 DEF Slots!vars
    <3>5. CASE ~DetermineTarget(s)
      <4>1. /\ UNCHANGED <<softwareCurrent, softwarePending, pendingOld>>
            /\ step[s] \in Early <=> step'[s] \in Early
        BY <1>2, <2>5, <3>5, PointersKept
      <4> QED
        BY <2>2, <2>3, <3>2, <3>3, <4>1 DEF Slots!vars
    <3> QED
      BY <3>4, <3>5
  <2>6. CASE Ends(s)
    <3>1. \A x \in Swids : step'[x] = "none"
      BY <2>6, Alone DEF Ends, TypeOK
    <3>2. Candidate' = None
      BY <3>1, CandidateIsNext
    <3>3. Staged' = softwarePending'
      BY <3>2 DEF Staged
    <3>4. Slots!Give
      BY <2>1, <2>2, <3>2 DEF Slots!Give
    <3>5. CASE RejectUnmapped(s) \/ RejectUnparsable(s) \/ RejectUnmatched(s)
      <4>1. /\ UNCHANGED <<softwareCurrent, softwarePending>> /\ step[s] \in Early
        BY <3>5 DEF RejectUnmapped, RejectUnparsable, RejectUnmatched, Reject,
                    EndUpdate, Suspend, Early
      <4> QED
        BY <2>3, <3>3, <3>4, <4>1 DEF Slots!Next, Slots!Refuse
    <3>6. CASE FailUpdate(s)
      <4>1. /\ softwareCurrent' = softwareCurrent /\ softwarePending' = pendingOld[s]
            /\ step[s] \notin Early
        BY <3>6 DEF FailUpdate, RestorePending, EndUpdate, Suspend, Early
      <4> QED
        BY <2>3, <3>3, <3>4, <4>1 DEF Slots!Next, Slots!Refuse
    <3>7. CASE ApplyUpdate(s)
      <4>1. softwareCurrent' = s /\ softwarePending' = None
        BY <2>4, <3>7 DEF ApplyUpdate, EndUpdate, Suspend, Late, Early, Steps
      <4> QED
        BY <2>2, <3>3, <3>4, <4>1 DEF Slots!Next, Slots!Apply
    <3>8. CASE StageUpdate(s)
      <4>1. UNCHANGED <<softwareCurrent, softwarePending>> /\ softwarePending = s
        BY <2>4, <3>8 DEF StageUpdate, EndUpdate, Suspend, Late, Early, Steps
      <4> QED
        BY <2>2, <3>3, <3>4, <4>1 DEF Slots!Next, Slots!Stage
    <3>9. ~Moves(s)
      BY <2>6 DEF Moves, Ends, TypeOK
    <3> QED
      BY <1>2, <3>5, <3>6, <3>7, <3>8, <3>9, LiveStep
  <2> QED
    BY <1>2, <2>5, <2>6, UpdateShape
<1>3. CASE Announce
  <2>1. UNCHANGED <<softwareCurrent, softwarePending, step, pendingOld>>
    BY <1>3 DEF Announce
  <2> QED
    BY <2>1 DEF Slots!vars, Candidate, Staged, Updating
<1>4. CASE UNCHANGED vars
  BY <1>4 DEF vars, Slots!vars, Candidate, Staged, Updating
<1> QED
  BY <1>1, <1>2, <1>3, <1>4 DEF Next, Slots!Next

\* Every step of the framework is one UpdateSlots allows, or none: an update
\* replaces the running version, replaces the staged one, or changes neither,
\* in one step at its end.
THEOREM DeviceImplementsSlots == SafeSpec => Slots!SafeSpec
<1>1. Init => Slots!Init
  BY InitInv, SlotsInit
<1>2. IInv /\ IInv' /\ [Next]_vars => [Slots!Next]_(Slots!vars)
  BY SlotsStep
<1> QED
  BY <1>1, <1>2, InvHolds, PTL DEF SafeSpec, Slots!SafeSpec

-----------------------------------------------------------------------------
(* What the objects show, what the device holds and which errors stand.    *)

\* The Software being written blocks transitions, and may until the update is
\* reported; exactly the current one has the Update interface.
Blocking(blocks, at) ==
  /\ at = "writing" => blocks
  /\ blocks => at \in {"writing", "activated", "reporting"}
Flags ==
  \A s \in Swids :
    /\ Blocking(sw[s].blocks, step[s])
    /\ sw[s].update <=> s = softwareCurrent

LEMMA FlagsInit == Init => Flags
<1> SUFFICES ASSUME Init, NEW s \in Swids
             PROVE  /\ Blocking(sw[s].blocks, step[s])
                    /\ sw[s].update <=> s = softwareCurrent
  BY DEF Flags
<1>1. sw[s] = IF s = softwareCurrent THEN [NewObject EXCEPT !.update = TRUE] ELSE NoObject
  BY DEF Init
<1>2. step[s] = "none"
  BY DEF Init
<1> QED
  BY <1>1, <1>2 DEF NewObject, NoObject, Blocking

LEMMA FlagsStep == IInv /\ Flags /\ [Next]_vars => Flags'
<1> SUFFICES ASSUME IInv, Flags, [Next]_vars PROVE Flags'
  OBVIOUS
<1> USE DEF IInv, slotVars, localVars, Blocking
<1>0. NoObject.blocks = FALSE /\ NoObject.update = FALSE
  BY DEF NoObject
<1>1. ASSUME NEW c \in Swids, NEW s \in Swids, NEW t \in RequestedApplyTimes,
             StartUpdate(c, t, s)
      PROVE  Flags'
  <2>1. NewObject.blocks = FALSE /\ NewObject.update = FALSE
    BY DEF NewObject, NoObject
  <2>2. sw[s] = NoObject /\ sw' = [sw EXCEPT ![s] = NewObject]
        /\ step' = [step EXCEPT ![s] = "spawned"] /\ softwareCurrent' = softwareCurrent
    BY <1>1 DEF StartUpdate
  <2> QED
    BY <1>0, <2>1, <2>2 DEF Flags, TypeOK
<1>2. ASSUME NEW s \in Swids, Update(s) PROVE Flags'
  <2>1. step[s] # "none" /\ \A x \in Swids \ {s} : step[x] = "none"
    BY <1>2, UpdateShape, Alone DEF Moves, Ends
  <2>2. step[s] \in Late => softwarePending = s
    BY DEF Links
  <2>3. sw[s] \in Object /\ step \in [Swids -> Steps] /\ sw \in [Swids -> Object]
    BY DEF TypeOK
  <2>4. s # softwareCurrent
    BY <2>1, <2>2 DEF ObjectsOwned, Updating, TypeOK, Late
  \* what a step that keeps softwareCurrent has to show, object by object
  <2>5. ASSUME softwareCurrent' = softwareCurrent,
               \A x \in Swids \ {s} : sw'[x] \in {sw[x], NoObject} /\ step'[x] = "none",
               sw'[softwareCurrent] = sw[softwareCurrent],
               Blocking(sw'[s].blocks, step'[s]),
               sw'[s].update = sw[s].update \/ sw'[s].update = FALSE
        PROVE  Flags'
    BY <1>0, <2>1, <2>4, <2>5 DEF Flags
  <2>6. ASSUME NEW from, NEW to, Suspend(s, from, to), UNCHANGED <<sw, softwareCurrent>>,
               to # "writing",
               from \in {"activated", "reporting"} => to \in {"activated", "reporting"},
               from # "writing"
        PROVE  Flags'
    BY <2>1, <2>3, <2>5, <2>6 DEF Suspend, Flags
  <2>7. CASE ParsePackage(s) \/ MatchComponent(s)
    BY <2>6, <2>7 DEF ParsePackage, MatchComponent
  <2>8. CASE DetermineTarget(s) \/ ReportSuccess(s) \/ Reset(s)
    BY <2>6, <2>8 DEF DetermineTarget, ReportSuccess, Reset
  <2>9. ASSUME NEW from, EndUpdate(s, from), softwareCurrent' = softwareCurrent,
               NEW gone, softwareCurrent \notin gone, sw' = Destroyed(sw, gone),
               s \in gone \/ ~sw[s].blocks
        PROVE  Flags'
    <3>1. \A x \in Swids : sw'[x] = IF x \in gone THEN NoObject ELSE sw[x]
      BY <2>9 DEF Destroyed
    <3>2. step'[s] = "none" /\ \A x \in Swids \ {s} : step'[x] = "none"
      BY <2>1, <2>3, <2>9 DEF EndUpdate, Suspend
    <3>3. ~sw'[s].blocks /\ (sw'[s].update = sw[s].update \/ sw'[s].update = FALSE)
      BY <1>0, <2>9, <3>1
    <3>4. sw'[softwareCurrent] = sw[softwareCurrent]
      BY <2>9, <3>1 DEF TypeOK
    <3> QED
      BY <2>5, <2>9, <3>1, <3>2, <3>3, <3>4
  <2>10. CASE RejectUnmapped(s) \/ RejectUnparsable(s) \/ RejectUnmatched(s)
    <3>1. PICK from : Reject(s, from)
      BY <2>10 DEF RejectUnmapped, RejectUnparsable, RejectUnmatched
    <3> QED
      BY <2>4, <2>9, <3>1 DEF Reject
  <2>11. CASE FailUpdate(s)
    <3>1. softwarePending = s
      BY <2>2, <2>11 DEF FailUpdate, EndUpdate, Suspend, Late, Early, Steps
    <3> QED
      BY <2>4, <2>9, <2>11, <3>1 DEF FailUpdate
  <2>12. CASE StageUpdate(s)
    <3>1. step[s] = "resetRequired"
      BY <2>12 DEF StageUpdate, EndUpdate, Suspend
    <3>2. ~sw[s].blocks
      BY <3>1 DEF Flags
    <3>3. pendingOld[s] # softwareCurrent
      BY <2>1, DeviceAssumption DEF ObjectsOwned, Updating, TypeOK
    <3> QED
      BY <2>9, <2>12, <3>2, <3>3 DEF StageUpdate, ReplacedBy
  <2>13. ASSUME NEW o \in Object, sw' = [sw EXCEPT ![s] = o],
                softwareCurrent' = softwareCurrent, o.update = sw[s].update,
                NEW from, NEW to, Suspend(s, from, to),
                Blocking(o.blocks, to)
         PROVE  Flags'
    <3>1. sw'[s] = o /\ \A x \in Swids \ {s} : sw'[x] = sw[x]
      BY <2>3, <2>13
    <3>2. step'[s] = to /\ \A x \in Swids \ {s} : step'[x] = "none"
      BY <2>1, <2>3, <2>13 DEF Suspend
    <3>3. sw'[softwareCurrent] = sw[softwareCurrent]
      BY <2>4, <3>1 DEF TypeOK
    <3> QED
      BY <2>5, <2>13, <3>1, <3>2, <3>3
  <2>14. CASE BeginWriting(s)
    <3> DEFINE o == [sw[s] EXCEPT !.blocks = TRUE, !.activation = "Activating"]
    <3>1. softwarePending = s
      BY <2>2, <2>14 DEF BeginWriting, Suspend, Late, Early, Steps
    <3>2. o \in Object /\ o.blocks /\ o.update = sw[s].update
      BY <2>3 DEF Object
    <3> HIDE DEF o
    <3> QED
      BY <2>13, <2>14, <3>1, <3>2 DEF BeginWriting, o
  <2>15. CASE LiftBlock(s) \/ WriteFails(s)
    <3> DEFINE o == [sw[s] EXCEPT !.blocks = FALSE]
    <3>1. softwarePending = s
      BY <2>2, <2>15 DEF LiftBlock, WriteFails, Suspend, Late, Early, Steps
    <3>2. o \in Object /\ ~o.blocks /\ o.update = sw[s].update
      BY <2>3 DEF Object
    <3>3. sw' = [sw EXCEPT ![s] = o] /\ softwareCurrent' = softwareCurrent
      BY <2>15, <3>1 DEF LiftBlock, WriteFails
    <3>4. PICK from \in Steps, to \in {"restoring", "failed"} : Suspend(s, from, to)
      BY <2>15 DEF LiftBlock, WriteFails, Steps
    <3> HIDE DEF o
    <3> QED
      BY <2>13, <3>2, <3>3, <3>4
  <2>16. CASE EndWriting(s)
    <3> DEFINE o == [sw[s] EXCEPT !.blocks = FALSE]
    <3>1. softwarePending = s
      BY <2>2, <2>16 DEF EndWriting, Suspend, Late, Early, Steps
    <3>2. o \in Object /\ ~o.blocks /\ o.update = sw[s].update
      BY <2>3 DEF Object
    <3>3. sw' = [sw EXCEPT ![s] = o] /\ softwareCurrent' = softwareCurrent
      BY <2>16, <3>1 DEF EndWriting, Unblock
    <3>4. PICK to \in {"resetting", "associating"} : Suspend(s, "reporting", to)
      BY <2>16 DEF EndWriting
    <3> HIDE DEF o
    <3> QED
      BY <2>13, <3>2, <3>3, <3>4
  <2>17. CASE WriteSucceeds(s)
    <3> DEFINE o == [sw[s] EXCEPT !.activation = "Active"]
    <3>1. softwarePending = s
      BY <2>2, <2>17 DEF WriteSucceeds, Suspend, Late, Early, Steps
    <3>2. o \in Object /\ o.update = sw[s].update
      BY <2>3 DEF Object
    <3>3. sw' = [sw EXCEPT ![s] = o] /\ softwareCurrent' = softwareCurrent
      BY <2>17, <3>1 DEF WriteSucceeds
    <3>4. PICK from \in Steps : Suspend(s, from, "activated")
      BY <2>17 DEF WriteSucceeds, Steps
    <3> HIDE DEF o
    <3> QED
      BY <2>13, <3>2, <3>3, <3>4
  <2>18. CASE RequireReset(s)
    <3>1. softwarePending = s /\ Suspend(s, "associating", "resetRequired")
          /\ softwareCurrent' = softwareCurrent /\ step[s] = "associating"
      BY <2>2, <2>18 DEF RequireReset, Suspend, Late, Early, Steps
    <3>2. PICK o \in Associated(sw[s], "activating") : sw' = [sw EXCEPT ![s] = o]
      BY <2>18, <3>1 DEF RequireReset
    <3>3. o \in Object /\ o.blocks = sw[s].blocks /\ o.update = sw[s].update
      BY <2>3, <3>2 DEF Associated, Object
    <3>4. ~sw[s].blocks
      BY <3>1 DEF Flags
    <3> QED
      BY <2>13, <3>1, <3>2, <3>3, <3>4
  <2>19. CASE ApplyUpdate(s)
    <3>1. softwarePending = s /\ step[s] = "associating"
      BY <2>2, <2>19 DEF ApplyUpdate, EndUpdate, Suspend, Late, Early, Steps
    <3>2. PICK object \in Associated(sw[s], "running") :
            sw' = Destroyed([sw EXCEPT ![s] = EnableUpdate(object)],
                            {softwareCurrent, pendingOld[s]})
      BY <2>19, <3>1 DEF ApplyUpdate
    <3> DEFINE o == EnableUpdate(object)
    <3>3. o.update /\ ~o.blocks
      <4>1. ~sw[s].blocks
        BY <3>1 DEF Flags
      <4> QED
        BY <2>3, <3>2, <4>1 DEF Associated, EnableUpdate, Object
    <3> HIDE DEF o
    <3>4. s # pendingOld[s]
      BY <2>1, <3>1, DeviceAssumption DEF ObjectsOwned, Updating
    <3>5. sw'[s] = o
      BY <2>3, <2>4, <3>2, <3>4 DEF Destroyed, o
    <3>6. \A x \in Swids \ {s} :
            sw'[x] = IF x \in {softwareCurrent, pendingOld[s]} THEN NoObject ELSE sw[x]
      BY <2>3, <3>2 DEF Destroyed
    <3>7. softwareCurrent' = s /\ \A x \in Swids : step'[x] = "none"
      BY <2>1, <2>3, <2>19, <3>1 DEF ApplyUpdate, EndUpdate, Suspend
    <3>8. \A x \in Swids \ {s} : ~sw[x].blocks /\ (sw[x].update => x = softwareCurrent)
      BY <2>1 DEF Flags
    <3> QED
      BY <1>0, <3>3, <3>5, <3>6, <3>7, <3>8 DEF Flags
  <2> QED
    BY <1>2, <2>7, <2>8, <2>10, <2>11, <2>12, <2>14, <2>15, <2>16, <2>17, <2>18, <2>19
       DEF Update
<1>3. CASE Announce
  <2>1. PICK object \in Associated(sw[announcing], "running") :
          sw' = [s \in Swids |->
                   LET o == IF s = announcing /\ s \in Live THEN object ELSE sw[s]
                   IN  IF s = softwareCurrent THEN [o EXCEPT !.activation = "Active"]
                       ELSE o]
    BY <1>3 DEF Announce
  <2>2. announcing \in Swids /\ sw \in [Swids -> Object]
    BY <1>3 DEF Announce, TypeOK
  <2>3. /\ object \in Object
        /\ object.blocks = sw[announcing].blocks /\ object.update = sw[announcing].update
    BY <2>1, <2>2 DEF Associated, Object
  <2>4. ASSUME NEW s \in Swids
        PROVE  sw'[s].blocks = sw[s].blocks /\ sw'[s].update = sw[s].update
    <3> DEFINE o == IF s = announcing /\ s \in Live THEN object ELSE sw[s]
    <3>1. o \in Object /\ o.blocks = sw[s].blocks /\ o.update = sw[s].update
      BY <2>2, <2>3
    <3>2. sw'[s] = IF s = softwareCurrent THEN [o EXCEPT !.activation = "Active"] ELSE o
      BY <2>1
    <3> HIDE DEF o
    <3> QED
      BY <3>1, <3>2 DEF Object
  <2> QED
    BY <1>3, <2>4 DEF Announce, Flags
<1>4. CASE UNCHANGED vars
  BY <1>4 DEF vars, Flags
<1> QED
  BY <1>1, <1>2, <1>3, <1>4 DEF Next

\* What the device holds, as long as updateDevice keeps its promise: what comes
\* with the next reset while the candidate is not yet written, either of them
\* in postUpdate, and the candidate once updateDevice has returned true.
Unwritten == {"targeted", "writing", "failed"}
Done == {"activated", "reporting", "resetting", "associating", "resetRequired"}
OrCurrent(pending) == IF pending # None THEN pending ELSE softwareCurrent
Held ==
  written # None /\ ~misled =>
    /\ (\A s \in Swids : step[s] = "none") => written = OrCurrent(softwarePending)
    /\ \A s \in Swids :
         /\ step[s] \in Early => written = OrCurrent(softwarePending)
         /\ step[s] \in Unwritten => written = OrCurrent(pendingOld[s])
         /\ step[s] = "restoring" => written \in {s, OrCurrent(pendingOld[s])}
         /\ step[s] \in Done => written = s

LEMMA HeldStep == IInv /\ Held /\ [Next]_vars => Held'
<1> SUFFICES ASSUME IInv, Held, [Next]_vars PROVE Held'
  OBVIOUS
<1> USE DEF IInv, slotVars, localVars, deviceVars, TypeOK
<1>1. ASSUME NEW c \in Swids, NEW s \in Swids, NEW t \in RequestedApplyTimes,
             StartUpdate(c, t, s)
      PROVE  Held'
  <2>1. \A x \in Swids : step[x] = "none"
    BY <1>1 DEF StartUpdate, Available, OneUpdate, Updating
  <2>2. step' = [step EXCEPT ![s] = "spawned"]
        /\ UNCHANGED <<softwareCurrent, softwarePending, pendingOld, written, misled>>
    BY <1>1 DEF StartUpdate
  <2> QED
    BY <2>1, <2>2 DEF Held, OrCurrent, Early, Unwritten, Done
<1>2. ASSUME NEW s \in Swids, Update(s) PROVE Held'
  <2>1. step[s] # "none" /\ \A x \in Swids \ {s} : step[x] = "none"
    BY <1>2, UpdateShape, Alone DEF Moves, Ends
  <2>2. step[s] \in Late => softwarePending = s
    BY DEF Links
  \* a step between two co_awaits on the same side of the write
  <2>3. ASSUME Moves(s), ~DetermineTarget(s), UNCHANGED <<written, misled>>,
               \E side \in {Early, Unwritten, Done} : step[s] \in side /\ step'[s] \in side
        PROVE  Held'
    <3>1. UNCHANGED <<softwareCurrent, softwarePending, pendingOld>>
      BY <1>2, <2>3, PointersKept
    <3>2. step'[s] \in Steps \ {"none"} /\ \A x \in Swids \ {s} : step'[x] = "none"
      BY <2>1, <2>3 DEF Moves
    <3> QED
      BY <2>1, <2>3, <3>1, <3>2 DEF Held, OrCurrent, Done, Unwritten, Early
  <2>4. CASE ParsePackage(s) \/ MatchComponent(s)
    <3>1. Moves(s) /\ ~DetermineTarget(s) /\ UNCHANGED <<written, misled>>
          /\ step[s] \in Early /\ step'[s] \in Early
      BY <2>4 DEF ParsePackage, MatchComponent, Moves, Suspend, Steps,
                  Early, DetermineTarget
    <3> QED
      BY <2>3, <3>1
  <2>5. CASE BeginWriting(s)
    <3>1. Moves(s) /\ ~DetermineTarget(s) /\ UNCHANGED <<written, misled>>
          /\ step[s] \in Unwritten /\ step'[s] \in Unwritten
      BY <2>5 DEF BeginWriting, Moves, Suspend, Steps, Unwritten, DetermineTarget
    <3> QED
      BY <2>3, <3>1
  <2>6. CASE ReportSuccess(s) \/ EndWriting(s) \/ Reset(s) \/ RequireReset(s)
    <3>1. Moves(s) /\ ~DetermineTarget(s) /\ UNCHANGED <<written, misled>>
          /\ step[s] \in Done /\ step'[s] \in Done
      BY <2>6 DEF ReportSuccess, EndWriting, Reset, RequireReset, Moves, Suspend,
                  Steps, Done, DetermineTarget
    <3> QED
      BY <2>3, <3>1
  <2>7. CASE DetermineTarget(s)
    <3>1. /\ step[s] = "matched" /\ step'[s] = "targeted"
          /\ \A x \in Swids \ {s} : step'[x] = "none"
          /\ pendingOld'[s] = softwarePending
          /\ UNCHANGED <<softwareCurrent, written, misled>>
      BY <2>1, <2>7 DEF DetermineTarget, Suspend
    <3> QED
      BY <3>1 DEF Held, OrCurrent, Done, Unwritten, Early
  <2>8. CASE LiftBlock(s) \/ WriteFails(s) \/ WriteSucceeds(s)
    <3>1. /\ softwarePending = s /\ step[s] \in {"writing", "restoring"}
          /\ Flashed(s) /\ UNCHANGED <<softwareCurrent, softwarePending, pendingOld>>
      BY <2>2, <2>8 DEF LiftBlock, WriteFails, WriteSucceeds, Suspend, Late, Early, Steps
    <3>2. written' # None /\ ~misled =>
            written' \in {s, OrCurrent(pendingOld[s])}
      BY <3>1 DEF Flashed, Held, Unwritten
    <3>3. OrCurrent(pendingOld[s])' = OrCurrent(pendingOld[s])
      BY <3>1 DEF OrCurrent
    <3>4. \A x \in Swids \ {s} : step'[x] = "none"
      BY <2>1, <2>8 DEF LiftBlock, WriteFails, WriteSucceeds, Suspend
    <3>5. CASE LiftBlock(s)
      <4>1. step'[s] = "restoring" /\ misled' = misled
        BY <3>5 DEF LiftBlock, Suspend
      <4> QED
        BY <3>2, <3>3, <3>4, <4>1 DEF Held, Done, Unwritten, Early
    <3>6. CASE WriteFails(s)
      <4>1. step'[s] = "failed" /\ misled' = (misled \/ written' = s)
        BY <3>1, <3>6 DEF WriteFails, Suspend
      <4> QED
        BY <3>2, <3>3, <3>4, <4>1 DEF Held, Done, Unwritten, Early
    <3>7. CASE WriteSucceeds(s)
      <4>1. step'[s] = "activated" /\ misled' = (written' # s)
        BY <3>1, <3>7 DEF WriteSucceeds, Suspend
      <4> QED
        BY <3>4, <4>1 DEF Held, Done, Unwritten, Early
    <3> QED
      BY <2>8, <3>5, <3>6, <3>7
  <2>9. ASSUME Ends(s), written' # None /\ ~misled' =>
               written' = IF softwarePending' # None THEN softwarePending'
                          ELSE softwareCurrent'
        PROVE  Held'
    <3>1. \A x \in Swids : step'[x] = "none"
      BY <2>1, <2>9 DEF Ends
    <3> QED
      BY <2>9, <3>1 DEF Held, OrCurrent, Early, Unwritten, Done
  <2>10. ASSUME NEW from \in Early, Reject(s, from) PROVE Held'
    <3>1. Ends(s) /\ step[s] \in Early
          /\ UNCHANGED <<softwareCurrent, softwarePending, written, misled>>
      BY <2>1, <2>10 DEF Reject, EndUpdate, Suspend, ClearFlag, Ends
    <3> QED
      BY <2>9, <3>1 DEF Held, OrCurrent
  <2>11. CASE RejectUnmapped(s) \/ RejectUnparsable(s) \/ RejectUnmatched(s)
    BY <2>10, <2>11 DEF RejectUnmapped, RejectUnparsable, RejectUnmatched, Early
  <2>12. CASE FailUpdate(s)
    <3>1. Ends(s) /\ step[s] \in Unwritten /\ softwarePending' = pendingOld[s]
          /\ UNCHANGED <<softwareCurrent, written, misled>>
      BY <2>1, <2>12 DEF FailUpdate, RestorePending, EndUpdate, Suspend, ClearFlag,
                         Ends, Unwritten
    <3> QED
      BY <2>9, <3>1 DEF Held, OrCurrent
  <2>13. CASE ApplyUpdate(s)
    <3>1. Ends(s) /\ step[s] \in Done /\ softwarePending' = None
          /\ softwareCurrent' = s /\ UNCHANGED <<written, misled>>
      BY <2>1, <2>2, <2>13 DEF ApplyUpdate, EndUpdate, Suspend, ClearFlag,
                         Ends, Done, Early, Late, Steps
    <3> QED
      BY <2>9, <3>1 DEF Held
  <2>14. CASE StageUpdate(s)
    <3>1. Ends(s) /\ step[s] \in Done /\ softwarePending' = s
          /\ UNCHANGED <<written, misled>>
      BY <2>1, <2>2, <2>14 DEF StageUpdate, EndUpdate, Suspend, ClearFlag,
                         Ends, Done, Early, Late, Steps
    <3> QED
      BY <2>9, <3>1, DeviceAssumption DEF Held
  <2> QED
    BY <1>2, <2>4, <2>5, <2>6, <2>7, <2>8, <2>11, <2>12, <2>13, <2>14 DEF Update
<1>3. CASE Announce
  BY <1>3 DEF Announce, Held, OrCurrent
<1>4. CASE UNCHANGED vars
  BY <1>4 DEF vars, Held, OrCurrent
<1> QED
  BY <1>1, <1>2, <1>3, <1>4 DEF Next

\* An error is withdrawn where the attempt gets past it, and no error is
\* raised again before the coroutine ends.
Withdrawn ==
  \A s \in Swids :
    /\ step[s] \in Late \cup {"unmatched", "matched"} =>
         "VerificationFailed" \notin pendingEvents
    /\ step[s] \in Late => "UpdateNotApplicable" \notin pendingEvents
    /\ step[s] \in {"reporting", "resetting", "associating", "resetRequired"} =>
         "ActivateFailed" \notin pendingEvents

LEMMA WithdrawnStep == IInv /\ Withdrawn /\ [Next]_vars => Withdrawn'
<1> SUFFICES ASSUME IInv, Withdrawn, [Next]_vars PROVE Withdrawn'
  OBVIOUS
<1> USE DEF IInv, slotVars, localVars, eventVars, TypeOK
<1>1. ASSUME NEW c \in Swids, NEW s \in Swids, NEW t \in RequestedApplyTimes,
             StartUpdate(c, t, s)
      PROVE  Withdrawn'
  BY <1>1 DEF StartUpdate, Withdrawn, Late, Early
<1>2. ASSUME NEW s \in Swids, Update(s) PROVE Withdrawn'
  <2>1. step[s] # "none" /\ \A x \in Swids \ {s} : step[x] = "none"
    BY <1>2, UpdateShape, Alone DEF Moves, Ends
  <2>2. CASE Ends(s)
    <3>1. \A x \in Swids : step'[x] = "none"
      BY <2>1, <2>2 DEF Ends
    <3> QED
      BY <3>1 DEF Withdrawn, Late
  <2>3. CASE Moves(s)
    <3>1. \A x \in Swids \ {s} : step'[x] = "none"
      BY <2>1, <2>3 DEF Moves
    <3>2. CASE ParsePackage(s)
      BY <3>1, <3>2 DEF ParsePackage, Suspend, Withdrawn, Late, Early
    <3>3. CASE MatchComponent(s)
      BY <3>1, <3>3 DEF MatchComponent, Suspend, WithdrawError, Withdrawn, Late, Early
    <3>4. CASE DetermineTarget(s)
      BY <3>1, <3>4 DEF DetermineTarget, Suspend, WithdrawError, Withdrawn, Late, Early
    <3>5. CASE BeginWriting(s) \/ LiftBlock(s) \/ WriteFails(s) \/ WriteSucceeds(s)
      <4>1. /\ step[s] \in {"targeted", "writing", "restoring"}
            /\ step'[s] \in {"writing", "restoring", "failed", "activated"}
            /\ pendingEvents' = pendingEvents
        BY <3>5 DEF BeginWriting, LiftBlock, WriteFails, WriteSucceeds, Suspend
      <4> QED
        BY <3>1, <4>1 DEF Withdrawn, Late, Early, Steps
    <3>6. CASE ReportSuccess(s)
      BY <3>1, <3>6 DEF ReportSuccess, Suspend, WithdrawError, Withdrawn, Late, Early, Steps
    <3>7. CASE EndWriting(s) \/ Reset(s) \/ RequireReset(s)
      <4>1. /\ step[s] \in {"reporting", "resetting", "associating"}
            /\ step'[s] \in {"resetting", "associating", "resetRequired"}
            /\ pendingEvents' = pendingEvents
        BY <3>7 DEF EndWriting, Reset, RequireReset, Suspend
      <4> QED
        BY <3>1, <4>1 DEF Withdrawn, Late, Early, Steps
    <3>8. ASSUME NEW from, EndUpdate(s, from) PROVE FALSE
      BY <2>3, <3>8 DEF Moves, EndUpdate, Suspend
    <3> QED
      BY <1>2, <3>2, <3>3, <3>4, <3>5, <3>6, <3>7, <3>8
         DEF Update, RejectUnmapped, RejectUnparsable, RejectUnmatched, Reject,
             FailUpdate, ApplyUpdate, StageUpdate
  <2> QED
    BY <1>2, <2>2, <2>3, UpdateShape
<1>3. CASE Announce
  BY <1>3 DEF Announce, Withdrawn
<1>4. CASE UNCHANGED vars
  BY <1>4 DEF vars, Withdrawn
<1> QED
  BY <1>1, <1>2, <1>3, <1>4 DEF Next

-----------------------------------------------------------------------------
FullInv == IInv /\ Flags /\ Held /\ Withdrawn

LEMMA FullInvHolds == SafeSpec => []FullInv
<1>1. Init => FullInv
  <2>1. Init => Held /\ Withdrawn
    BY DEF Init, Held, OrCurrent, Withdrawn, Late, Early, Unwritten, Done
  <2> QED
    BY <2>1, InitInv, FlagsInit DEF FullInv
<1>2. FullInv /\ [Next]_vars => FullInv'
  BY InvStep, FlagsStep, HeldStep, WithdrawnStep DEF FullInv
<1> QED
  BY <1>1, <1>2, PTL DEF SafeSpec

\* ActivationBlocksTransition is there from the call of updateDevice until
\* updateDevice lifts it, after the write, or returns, and is gone when the update
\* is over, on every path through continueUpdateWithMappedPackage.
THEOREM PowerBlocked == SafeSpec => []BlocksWhileWriting
<1>1. FullInv => BlocksWhileWriting
  BY DEF FullInv, IInv, OneUpdate, Updating, Flags, Blocking, BlocksWhileWriting
<1> QED
  BY <1>1, FullInvHolds, PTL

\* Software::enableUpdate is called for the version that becomes current and
\* for no other, so a client can always start the next update.
THEOREM OneUpdateInterface == SafeSpec => []CurrentUpdatable
<1>1. FullInv => CurrentUpdatable
  BY DEF FullInv, IInv, TypeOK, Flags, CurrentUpdatable
<1> QED
  BY <1>1, FullInvHolds, PTL

\* Whatever sequence of updates fails or succeeds, D-Bus shows what a reset of
\* an undamaged device brings, except from an updateDevice that returned true
\* without the image, or false with it, to one that returned true with it: the
\* slots of device.cpp add no error of their own.
THEOREM ShownIsHeld == SafeSpec => []ResetBringsShown
<1>1. FullInv => ResetBringsShown
  BY DEF FullInv, IInv, OneUpdate, Updating, Held, OrCurrent, ResetBringsShown
<1> QED
  BY <1>1, FullInvHolds, PTL

\* After updateDevice succeeds no error of an earlier attempt is pending.
THEOREM ErrorsWithdrawn == SafeSpec => []SuccessWithdrawsErrors
<1>1. FullInv => SuccessWithdrawsErrors
  BY DEF FullInv, IInv, TypeOK, Errors, Withdrawn, SuccessWithdrawsErrors, Late, Steps, Early
<1> QED
  BY <1>1, FullInvHolds, PTL
=============================================================================
