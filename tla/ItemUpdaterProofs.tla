------------------------- MODULE ItemUpdaterProofs -------------------------
(***************************************************************************)
(* What ItemUpdater guarantees for every set of images, every number of    *)
(* allowed images and every range of priorities: its safety invariants,    *)
(* the update managers, the order in which images are booted (what         *)
(* freePriority and erase do to the priorities and to the image U-Boot is  *)
(* pointed at) and how much room freeSpace makes.                          *)
(***************************************************************************)
EXTENDS PriorityLoop, SequenceTheorems, FiniteSetTheorems, WellFoundedInduction,
        TLAPS

-----------------------------------------------------------------------------
(* Type correctness.  Erasing and starting an activation are shared by     *)
(* several actions: a lemma each says that what they assign is well typed. *)

ObjectTypes ==
  /\ act \in [Ids -> ActivationStates]
  /\ requested \in SUBSET Ids
  /\ steps \in [Ids -> SUBSET FlashSteps]
  /\ prio \in [Ids -> Priorities \cup {NoPrio}]
  /\ blocks \in SUBSET Ids

ErasableTypes ==
  /\ ObjectTypes
  /\ path \in [Ids -> {"none", "upload", "flash"}]
  /\ functional \in SUBSET Ids
  /\ managers \in SUBSET Ids
  /\ assocs \in SUBSET ({"active", "updateable", "functional"} \X Ids)
  /\ saved \in [Ids -> Priorities \cup {NoPrio}]
  /\ bootRequest \in Ids \cup {None}
  /\ guard \in BOOLEAN
  /\ jobs \in SUBSET Units

\* Erasing versions leaves well-typed maps and asks for units that exist.
LEMMA EraseVersionsType ==
  ASSUME TypeOK, NEW V \in SUBSET Ids, NEW order, NEW targets \in ResetChoices(V, order),
         EraseVersions(V, order, targets)
  PROVE  /\ functional' \in SUBSET Ids
         /\ saved' \in [Ids -> Priorities \cup {NoPrio}]
         /\ bootRequest' \in Ids \cup {None}
         /\ EraseJobs(V, targets) \subseteq Units
<1>1. targets \in [V -> Ids \cup {None}]
  BY DEF ResetChoices
<1>2. EraseJobs(V, targets) \subseteq Units
  BY <1>1 DEF EraseJobs, EnvUnit, Units
<1>3. bootRequest' \in Ids \cup {None}
  <2> DEFINE last == {i \in V : order[i] = Cardinality(V) /\ targets[i] # None}
  <2>1. CASE last = {}
    BY <2>1 DEF EraseVersions, LastTarget, TypeOK
  <2>2. CASE last # {}
    <3>1. (CHOOSE i \in last : TRUE) \in V
      BY <2>2
    <3>2. bootRequest' = targets[CHOOSE i \in last : TRUE]
      BY <2>2 DEF EraseVersions, LastTarget
    <3> QED
      BY <3>1, <3>2, <1>1
  <2> QED
    BY <2>1, <2>2
<1> QED
  BY <1>2, <1>3 DEF EraseVersions, TypeOK

\* Erasing as an action of its own keeps every variable it changes well typed.
LEMMA EraseType ==
  ASSUME TypeOK, NEW V \in SUBSET Ids, Erase(V)
  PROVE  ErasableTypes'
<1>1. PICK order \in Orders(V) :
        \E targets \in ResetChoices(V, order) : EraseInOrder(V, order, targets)
  BY DEF Erase
<1>2. PICK targets \in ResetChoices(V, order) : EraseInOrder(V, order, targets)
  BY <1>1
<1>3. /\ functional' \in SUBSET Ids
      /\ saved' \in [Ids -> Priorities \cup {NoPrio}]
      /\ bootRequest' \in Ids \cup {None}
      /\ EraseJobs(V, targets) \subseteq Units
  BY <1>2, EraseVersionsType DEF EraseInOrder
<1>4. ObjectTypes'
  BY <1>2 DEF EraseInOrder, TypeOK, ObjectTypes, Without, ActivationStates
<1>5. path' \in [Ids -> {"none", "upload", "flash"}]
  BY <1>2 DEF EraseInOrder, TypeOK, Without
<1>6. assocs' \in SUBSET ({"active", "updateable", "functional"} \X Ids)
  BY <1>2 DEF EraseInOrder, TypeOK, AssocsWithout
<1>7. managers' \in SUBSET Ids /\ guard' \in BOOLEAN /\ jobs' \in SUBSET Units
  BY <1>2, <1>3 DEF EraseInOrder, TypeOK
<1> QED
  BY <1>3, <1>4, <1>5, <1>6, <1>7 DEF ErasableTypes

\* Claiming a priority keeps priorities and saved priorities in the range of
\* the uint8_t, whatever is bumped, and asks U-Boot for an image.
LEMMA AssignPriorityType ==
  ASSUME TypeOK, NEW i \in Ids, NEW value \in Priorities, AssignPriority(i, value)
  PROVE  /\ prio' \in [Ids -> Priorities \cup {NoPrio}]
         /\ saved' \in [Ids -> Priorities \cup {NoPrio}]
         /\ bootRequest' \in Ids
         /\ jobs' \in SUBSET Units
<1>1. PICK B \in Bumps(i, value), t \in FreePriorityTargets(i, value) :
        ClaimPriority(i, value, B, t)
  BY DEF AssignPriority
<1>2. t \in Ids
  BY DEF FreePriorityTargets, Lowest, Others, Ranked
<1>3. \A j \in B : prio[j] \in Priorities
  BY DEF Bumps, Others, Ranked, TypeOK
<1>4. \A p \in Priorities : (p + 1) % PrioLimit \in Priorities
  BY ConstantsAssumption DEF Priorities
<1>5. prio' \in [Ids -> Priorities \cup {NoPrio}]
  BY <1>1, <1>3, <1>4 DEF ClaimPriority, Bumped, TypeOK
<1>6. saved' \in [Ids -> Priorities \cup {NoPrio}]
  BY <1>1, <1>5 DEF ClaimPriority, TypeOK
<1>7. jobs' \in SUBSET Units
  BY <1>1, <1>2 DEF ClaimPriority, TypeOK, EnvUnit, Units
<1> QED
  BY <1>1, <1>2, <1>5, <1>6, <1>7 DEF ClaimPriority

\* Starting an activation, whether it is refused or the units are started,
\* keeps every variable it changes well typed.
LEMMA StartActivatingType ==
  ASSUME TypeOK, NEW i \in Ids,
         NEW paths \in [Ids -> {"none", "upload", "flash"}],
         StartActivating(i, paths)
  PROVE  ErasableTypes' /\ subscribed' \in BOOLEAN
<1>1. CASE Refuse(i, paths)
  BY <1>1 DEF Refuse, TypeOK, ErasableTypes, ObjectTypes, ActivationStates
<1>2. ASSUME NEW V \in FreeSpaceVictims(i), NEW order,
             NEW targets \in ResetChoices(V, order),
             StartWriting(i, paths, V, order, targets)
      PROVE  ErasableTypes' /\ subscribed' \in BOOLEAN
  <2>1. V \in SUBSET Ids
    BY DEF FreeSpaceVictims, Queue, Occupying
  <2>2. /\ functional' \in SUBSET Ids
        /\ saved' \in [Ids -> Priorities \cup {NoPrio}]
        /\ bootRequest' \in Ids \cup {None}
        /\ EraseJobs(V, targets) \subseteq Units
    BY <1>2, <2>1, EraseVersionsType DEF StartWriting
  <2>3. ObjectTypes'
    BY <1>2 DEF StartWriting, TypeOK, ObjectTypes, Without, ActivationStates
  <2>4. path' \in [Ids -> {"none", "upload", "flash"}]
    BY <1>2 DEF StartWriting, Without
  <2>5. assocs' \in SUBSET ({"active", "updateable", "functional"} \X Ids)
    BY <1>2 DEF StartWriting, TypeOK, AssocsWithout
  <2>6. jobs' \in SUBSET Units
    BY <1>2, <2>2 DEF StartWriting, TypeOK, RwUnit, RoUnit, Units
  <2>7. managers' \in SUBSET Ids /\ guard' \in BOOLEAN /\ subscribed' \in BOOLEAN
    BY <1>2 DEF StartWriting, TypeOK
  <2> QED
    BY <2>2, <2>3, <2>4, <2>5, <2>6, <2>7 DEF ErasableTypes
<1> QED
  BY <1>1, <1>2 DEF StartActivating

\* A signal handed out, or kept for later, is well typed.
LEMMA DeliveryType ==
  ASSUME NEW unit \in Units, NEW result \in Results, NEW to \in SUBSET Ids
  PROVE  Delivery(unit, result, to) \in [unit : Units, result : Results, to : SUBSET Ids]
BY ConstantsAssumption DEF Delivery, NoSignal, RwUnit, Units

\* Every variable keeps its type: in particular priorities stay in a uint8_t,
\* and units and boot requests name images and never a destroyed one's path.
LEMMA TypeStep == TypeOK /\ [Next]_vars => TypeOK'
<1> SUFFICES ASSUME TypeOK, [Next]_vars PROVE TypeOK'
  OBVIOUS
<1> USE DEF systemVars, busVars, objectVars, mapVars
<1>1. ASSUME NEW k \in Ids, NEW i \in Ids, StartUpdate(k, i) PROVE TypeOK'
  BY <1>1 DEF StartUpdate, TypeOK, ActivationStates
<1>2. ASSUME NEW i \in Ids, NEW state \in {"Ready", "Invalid"}, CreateActivation(i, state)
      PROVE  TypeOK'
  BY <1>2 DEF CreateActivation, TypeOK, ActivationStates
<1>3. ASSUME NEW i \in Ids, RequestActivation(i) PROVE TypeOK'
  <2>1. CASE Starts(i)
    <3>1. ErasableTypes' /\ subscribed' \in BOOLEAN
      BY <1>3, <2>1, StartActivatingType DEF RequestActivation, TypeOK
    <3> QED
      BY <1>3, <2>1, <3>1 DEF RequestActivation, TypeOK, ErasableTypes, ObjectTypes
  <2>2. CASE ~Starts(i)
    BY <1>3, <2>2 DEF RequestActivation, TypeOK
  <2> QED
    BY <2>1, <2>2
<1>4. ASSUME NEW i \in Ids, WithdrawRequest(i) PROVE TypeOK'
  BY <1>4 DEF WithdrawRequest, TypeOK
<1>5. ASSUME NEW i \in Ids, NEW value \in ClientPriorities, SetPriority(i, value)
      PROVE  TypeOK'
  <2>1. value \in Priorities
    BY ConstantsAssumption
  <2>2. /\ prio' \in [Ids -> Priorities \cup {NoPrio}]
        /\ saved' \in [Ids -> Priorities \cup {NoPrio}]
        /\ bootRequest' \in Ids
        /\ jobs' \in SUBSET Units
    BY <1>5, <2>1, AssignPriorityType DEF SetPriority
  <2> QED
    BY <1>5, <2>2 DEF SetPriority, TypeOK
<1>6. ASSUME NEW i \in Ids, DeleteVersion(i) PROVE TypeOK'
  <2>1. ErasableTypes'
    BY <1>6, EraseType DEF DeleteVersion
  <2> QED
    BY <1>6, <2>1 DEF DeleteVersion, TypeOK, ErasableTypes, ObjectTypes
<1>7. ASSUME DeleteAll PROVE TypeOK'
  <2> DEFINE V == {i \in Ids : path[i] # "none" /\ i \notin functional}
  <2>1. ErasableTypes'
    BY <1>7, EraseType DEF DeleteAll
  <2>2. /\ updating' = updating \ V
        /\ UNCHANGED <<task, subscribed, signals, inbox>>
    BY <1>7 DEF DeleteAll
  <2> QED
    BY <2>1, <2>2 DEF TypeOK, ErasableTypes, ObjectTypes
<1>8. ASSUME NEW i \in Ids, RejectImage(i) PROVE TypeOK'
  <2>1. RejectedObject(i) \in SUBSET Ids
    BY DEF RejectedObject
  <2>2. ErasableTypes'
    BY <1>8, <2>1, EraseType DEF RejectImage
  <2> QED
    BY <1>8, <2>2 DEF RejectImage, UpdatingAfter, TypeOK, ErasableTypes, ObjectTypes
<1>9. ASSUME NEW i \in Ids, AcceptImage(i) PROVE TypeOK'
  <2>1. CASE i \in requested
    BY <1>9, <2>1 DEF AcceptImage, UpdatingAfter, TypeOK, ActivationStates
  <2>2. CASE i \notin requested
    <3>1. [path EXCEPT ![i] = "upload"] \in [Ids -> {"none", "upload", "flash"}]
      BY DEF TypeOK
    <3>2. ErasableTypes' /\ subscribed' \in BOOLEAN
      BY <1>9, <2>2, <3>1, StartActivatingType DEF AcceptImage
    <3> QED
      BY <1>9, <3>2 DEF AcceptImage, UpdatingAfter, TypeOK, ErasableTypes, ObjectTypes
  <2> QED
    BY <2>1, <2>2
<1>10. ASSUME Dispatch PROVE TypeOK'
  <2>1. Head(signals) \in [unit : Units, result : Results]
    BY <1>10, HeadTailProperties DEF Dispatch, TypeOK
  <2>2. inbox' \in [unit : Units, result : Results, to : SUBSET Ids]
    BY <1>10, <2>1, DeliveryType DEF Dispatch
  <2>3. signals' \in Seq([unit : Units, result : Results])
    BY <1>10, HeadTailProperties DEF Dispatch, TypeOK
  <2> QED
    BY <1>10, <2>2, <2>3 DEF Dispatch, TypeOK
<1>11. ASSUME NEW i \in Ids, OnStateChanges(i) PROVE TypeOK'
  <2>1. inbox' \in [unit : Units, result : Results, to : SUBSET Ids]
    <3>1. Received(i)
      BY <1>11 DEF OnStateChanges, OnUnitFailed, OnUnitProgress, OnVolumesCreated,
                   OnFlashWriteSuccess
    <3> QED
      BY <3>1, DeliveryType DEF Received, TypeOK
  <2>2. StepsNow(i) \in SUBSET FlashSteps
    BY DEF StepsNow, FlashSteps, TypeOK, Units, RwUnit
  <2>3. ReleaseTransition(i) => blocks' \in SUBSET Ids /\ guard' \in BOOLEAN
    BY DEF ReleaseTransition, TypeOK
  <2>4. 0 \in Priorities
    BY ConstantsAssumption DEF Priorities
  <2>5. AssignPriority(i, 0) =>
          /\ prio' \in [Ids -> Priorities \cup {NoPrio}]
          /\ saved' \in [Ids -> Priorities \cup {NoPrio}]
          /\ bootRequest' \in Ids
          /\ jobs' \in SUBSET Units
    BY <2>4, AssignPriorityType
  <2>6. CASE OnUnitFailed(i)
    BY <2>1, <2>3, <2>6 DEF OnUnitFailed, TypeOK, ActivationStates
  <2>7. CASE OnUnitProgress(i)
    BY <2>1, <2>2, <2>7 DEF OnUnitProgress, TypeOK
  <2>8. CASE OnVolumesCreated(i)
    BY <2>1, <2>2, <2>5, <2>8 DEF OnVolumesCreated, TypeOK
  <2>9. CASE OnFlashWriteSuccess(i)
    <3>1. /\ prio' \in [Ids -> Priorities \cup {NoPrio}]
          /\ saved' \in [Ids -> Priorities \cup {NoPrio}]
          /\ bootRequest' \in Ids \cup {None}
          /\ jobs' \in SUBSET Units
      BY <2>5, <2>9 DEF OnFlashWriteSuccess, TypeOK
    <3>2. /\ act' \in [Ids -> ActivationStates]
          /\ steps' \in [Ids -> SUBSET FlashSteps]
      BY <2>9 DEF OnFlashWriteSuccess, TypeOK, ActivationStates
    <3>3. assocs' \in SUBSET ({"active", "updateable", "functional"} \X Ids)
      <4>1. assocs' = assocs \cup {<<"active", i>>, <<"updateable", i>>}
        BY <2>9 DEF OnFlashWriteSuccess
      <4> QED
        BY <4>1 DEF TypeOK
    <3>4. /\ requested' \in SUBSET Ids /\ path' \in [Ids -> {"none", "upload", "flash"}]
          /\ functional' \in SUBSET Ids /\ updating' \in SUBSET Ids
          /\ managers' \in SUBSET Ids /\ subscribed' \in BOOLEAN
      BY <2>9 DEF OnFlashWriteSuccess, TypeOK
    <3>5. /\ task' \in [Ids -> Ids \cup {None}]
          /\ signals' \in Seq([unit : Units, result : Results])
      BY <2>9 DEF OnFlashWriteSuccess, TypeOK
    <3>6. blocks' \in SUBSET Ids /\ guard' \in BOOLEAN
      BY <2>3, <2>9 DEF OnFlashWriteSuccess
    <3> QED
      BY <2>1, <3>1, <3>2, <3>3, <3>4, <3>5, <3>6 DEF TypeOK
  <2> QED
    BY <1>11, <2>6, <2>7, <2>8, <2>9 DEF OnStateChanges
<1>12. ASSUME NEW i \in Ids, SetFlashId(i) PROVE TypeOK'
  BY <1>12 DEF SetFlashId, TypeOK
<1>13. ASSUME NEW u \in Units, NEW r \in Results, JobEnd(u, r) PROVE TypeOK'
  <2>1. signals' \in Seq([unit : Units, result : Results])
    <3>1. [unit |-> u, result |-> r] \in [unit : Units, result : Results]
      OBVIOUS
    <3> QED
      BY <1>13, <3>1, AppendProperties DEF JobEnd, TypeOK
  <2> QED
    BY <1>13, <2>1 DEF JobEnd, TypeOK
<1>14. CASE UNCHANGED vars
  BY <1>14 DEF vars, TypeOK
<1> QED
  BY <1>1, <1>2, <1>3, <1>4, <1>5, <1>6, <1>7, <1>8, <1>9, <1>10, <1>11, <1>12,
     <1>13, <1>14 DEF Next, Client, Daemon, Systemd

\* The start-up scan leaves well-typed maps.
LEMMA TypeInit == Init => TypeOK
<1> SUFFICES ASSUME Init PROVE TypeOK
  OBVIOUS
<1>1. \E installed \in SUBSET Ids : \E restored \in [installed -> Priorities] :
        /\ prio = [i \in Ids |-> IF i \in installed THEN restored[i] ELSE NoPrio]
        /\ saved = prio
  BY DEF Init
<1>2. prio \in [Ids -> Priorities \cup {NoPrio}] /\ saved = prio
  BY <1>1
<1>3. inbox \in [unit : Units, result : Results, to : SUBSET Ids]
  BY ConstantsAssumption DEF Init, NoSignal, RwUnit, Units
<1>4. signals \in Seq([unit : Units, result : Results])
  BY DEF Init
<1>5. /\ act \in [Ids -> ActivationStates]
      /\ path \in [Ids -> {"none", "upload", "flash"}]
      /\ functional \in SUBSET Ids /\ managers \in SUBSET Ids
      /\ assocs \in SUBSET ({"active", "updateable", "functional"} \X Ids)
  BY DEF Init, ActivationStates
<1>6. /\ requested \in SUBSET Ids /\ steps \in [Ids -> SUBSET FlashSteps]
      /\ blocks \in SUBSET Ids /\ updating \in SUBSET Ids
      /\ task \in [Ids -> Ids \cup {None}] /\ bootRequest \in Ids \cup {None}
      /\ guard \in BOOLEAN /\ subscribed \in BOOLEAN /\ jobs \in SUBSET Units
  <2>1. /\ requested = {} /\ steps = [i \in Ids |-> {}] /\ blocks = {}
        /\ updating = {} /\ task = [i \in Ids |-> None]
        /\ bootRequest = None /\ guard = FALSE /\ subscribed = FALSE /\ jobs = {}
    BY DEF Init
  <2> QED
    BY <2>1
<1> QED
  BY <1>2, <1>3, <1>4, <1>5, <1>6 DEF TypeOK

\* TypeOK holds in every reachable state.
THEOREM TypeCorrect == Spec => []TypeOK
BY TypeInit, TypeStep, PTL DEF Spec

-----------------------------------------------------------------------------
(* The inductive invariant: what the maps say about one image together.    *)
(* VersionExists needs to know which images processImage is working on,    *)
(* BlocksWhileActivating whom a signal is being handed to, and the rest    *)
(* that only installed images are running or published.                    *)

ImageInv(i) ==
  /\ path[i] # "none" <=> act[i] \notin {"absent", "NotReady"}
  /\ i \in blocks <=> act[i] = "Activating"
  /\ prio[i] # NoPrio => act[i] \in {"Activating", "Active"}
  /\ act[i] = "Active" => prio[i] # NoPrio
  /\ prio[i] # NoPrio => saved[i] = prio[i]
  /\ i \in inbox.to => act[i] = "Activating"
  /\ task[i] # None => act[i] = "NotReady"
  /\ i \in functional => act[i] = "Active"
  /\ act[i] = "Active" => <<"active", i>> \in assocs

Published == \A a \in assocs : act[a[2]] = "Active"

Consistent ==
  /\ \A i \in Ids : ImageInv(i)
  /\ Published
  /\ GuardOnlyWhileActivating

LEMMA DeliveryTo ==
  ASSUME NEW unit, NEW result, NEW to
  PROVE  Delivery(unit, result, to).to = to
BY DEF Delivery, NoSignal

\* What erase() leaves of an image, erased or not.
LEMMA EraseImage ==
  ASSUME TypeOK, NEW V \in SUBSET Ids, Erase(V), NEW j \in Ids
  PROVE  /\ j \in V =>
              /\ act'[j] = "absent" /\ path'[j] = "none" /\ prio'[j] = NoPrio
              /\ j \notin blocks' /\ j \notin functional' /\ j \notin managers'
         /\ j \notin V =>
              /\ act'[j] = act[j] /\ path'[j] = path[j] /\ prio'[j] = prio[j]
              /\ saved'[j] = saved[j] /\ (j \in blocks' <=> j \in blocks)
              /\ (j \in functional' <=> j \in functional)
              /\ (<<"active", j>> \in assocs' <=> <<"active", j>> \in assocs)
BY DEF Erase, EraseInOrder, EraseVersions, Without, AssocsWithout, TypeOK

\* Erasing images that processImage is not working on keeps the maps consistent.
LEMMA EraseConsistent ==
  ASSUME TypeOK, Consistent, NEW V \in SUBSET Ids, Erase(V), Idle, inbox' = inbox,
         \A j \in V : task'[j] = None, \A j \in Ids : task'[j] \in {task[j], None}
  PROVE  Consistent'
<1>1. ASSUME NEW j \in Ids PROVE ImageInv(j)'
  <2>1. j \notin inbox'.to
    BY DEF Idle
  <2>2. CASE j \in V
    BY <2>1, <2>2, EraseImage DEF ImageInv
  <2>3. CASE j \notin V
    BY <2>1, <2>3, EraseImage DEF ImageInv, Consistent
  <2> QED
    BY <2>2, <2>3
<1>2. Published'
  <2> SUFFICES ASSUME NEW a \in assocs' PROVE act'[a[2]] = "Active"
    BY DEF Published
  <2>1. a \in assocs /\ a[2] \notin V /\ a[2] \in Ids
    BY DEF Erase, EraseInOrder, AssocsWithout, TypeOK
  <2>2. act[a[2]] = "Active"
    BY <2>1 DEF Consistent, Published
  <2> QED
    BY <2>1, <2>2 DEF Erase, EraseInOrder, Without
<1>3. GuardOnlyWhileActivating'
  <2> SUFFICES ASSUME guard' PROVE \E i \in Ids : act'[i] = "Activating"
    BY DEF GuardOnlyWhileActivating
  <2>1. guard /\ blocks \cap V = {}
    BY DEF Erase, EraseInOrder
  <2>2. PICK i \in Ids : act[i] = "Activating"
    BY <2>1 DEF Consistent, GuardOnlyWhileActivating
  <2>3. i \notin V
    BY <2>1, <2>2 DEF Consistent, ImageInv
  <2> QED
    BY <2>2, <2>3, EraseImage
<1> QED
  BY <1>1, <1>2, <1>3 DEF Consistent

\* What claiming a priority changes: the priority of the image itself and of
\* images that have one, each saved as it is set.
LEMMA AssignPriorityImage ==
  ASSUME TypeOK, NEW i \in Ids, NEW value \in Priorities, AssignPriority(i, value),
         NEW j \in Ids
  PROVE  /\ prio'[j] # prio[j] => saved'[j] = prio'[j]
         /\ prio'[j] = prio[j] => saved'[j] \in {saved[j], prio'[j]}
         /\ (prio'[j] # NoPrio <=> prio[j] # NoPrio \/ j = i)
         /\ saved'[i] = prio'[i]
<1>1. PICK B \in Bumps(i, value), t \in FreePriorityTargets(i, value) :
        ClaimPriority(i, value, B, t)
  BY DEF AssignPriority
<1>2. B \subseteq Ids \ {i} /\ \A k \in B : prio[k] # NoPrio
  BY DEF Bumps, Others, Ranked
<1>3. \A p \in Priorities : p # NoPrio /\ (p + 1) % PrioLimit \in Priorities
  BY ConstantsAssumption DEF Priorities, NoPrio
<1>4. prio'[j] = IF j = i THEN value
                 ELSE IF j \in B THEN (prio[j] + 1) % PrioLimit ELSE prio[j]
  BY <1>1 DEF ClaimPriority, Bumped
<1>5. prio'[j] # NoPrio <=> prio[j] # NoPrio \/ j = i
  BY <1>2, <1>3, <1>4 DEF TypeOK
<1> QED
  BY <1>1, <1>4, <1>5 DEF ClaimPriority, SavedFor

\* Starting the activation of an image that is not being written, whether it
\* is refused or other images are erased for it, keeps the maps consistent.
LEMMA StartConsistent ==
  ASSUME TypeOK, Consistent, Idle, inbox' = inbox, NEW i \in Ids,
         act[i] \in {"NotReady", "Ready", "Failed"},
         NEW paths \in [Ids -> {"none", "upload", "flash"}], paths[i] # "none",
         \A j \in Ids \ {i} : paths[j] = path[j],
         task'[i] = None, \A j \in Ids : task'[j] \in {task[j], None},
         StartActivating(i, paths)
  PROVE  Consistent'
<1>1. ImageInv(i) /\ prio[i] = NoPrio /\ i \notin blocks /\ i \notin functional
  BY DEF Consistent, ImageInv
<1>2. CASE Refuse(i, paths)
  <2>1. ASSUME NEW j \in Ids PROVE ImageInv(j)'
    <3>1. ImageInv(j) /\ j \notin inbox'.to
      BY DEF Consistent, Idle
    <3>2. CASE j = i
      BY <1>1, <1>2, <3>1, <3>2 DEF Refuse, ImageInv, TypeOK
    <3>3. CASE j # i
      BY <1>2, <3>1, <3>3 DEF Refuse, ImageInv, TypeOK
    <3> QED
      BY <3>2, <3>3
  <2>2. Published'
    BY <1>2 DEF Refuse, Consistent, Published, TypeOK
  <2>3. GuardOnlyWhileActivating'
    BY <1>2 DEF Refuse, Consistent, GuardOnlyWhileActivating, TypeOK
  <2> QED
    BY <2>1, <2>2, <2>3 DEF Consistent
<1>3. ASSUME NEW V \in FreeSpaceVictims(i), NEW order, NEW targets,
             StartWriting(i, paths, V, order, targets)
      PROVE  Consistent'
  <2>1. V \subseteq Ids \ {i} /\ \A j \in V : act[j] \in {"Active", "Failed"}
    BY DEF FreeSpaceVictims, Queue, Occupying
  <2>2. act'[i] = "Activating"
    BY <1>3 DEF StartWriting, Without
  <2>3. ASSUME NEW j \in Ids PROVE ImageInv(j)'
    <3>1. ImageInv(j) /\ j \notin inbox'.to
      BY DEF Consistent, Idle
    <3>2. CASE j = i
      BY <1>1, <1>3, <2>1, <2>2, <3>1, <3>2
         DEF StartWriting, EraseVersions, Without, ImageInv, TypeOK
    <3>3. CASE j \in V
      BY <1>3, <2>1, <3>1, <3>3
         DEF StartWriting, EraseVersions, Without, ImageInv, TypeOK
    <3>4. CASE j # i /\ j \notin V
      BY <1>3, <3>1, <3>4
         DEF StartWriting, EraseVersions, Without, AssocsWithout, ImageInv, TypeOK
    <3> QED
      BY <3>2, <3>3, <3>4
  <2>4. Published'
    <3> SUFFICES ASSUME NEW a \in assocs' PROVE act'[a[2]] = "Active"
      BY DEF Published
    <3>1. a \in assocs /\ a[2] \notin V /\ a[2] \in Ids
      BY <1>3 DEF StartWriting, AssocsWithout, TypeOK
    <3>2. act[a[2]] = "Active"
      BY <3>1 DEF Consistent, Published
    <3> QED
      BY <1>3, <3>1, <3>2 DEF StartWriting, Without
  <2>5. GuardOnlyWhileActivating'
    BY <2>2 DEF GuardOnlyWhileActivating
  <2> QED
    BY <2>3, <2>4, <2>5 DEF Consistent
<1> QED
  BY <1>2, <1>3 DEF StartActivating

\* Every step keeps the maps consistent.
LEMMA ConsistentStep == TypeOK /\ Consistent /\ [Next]_vars => Consistent'
<1> SUFFICES ASSUME TypeOK, Consistent, [Next]_vars PROVE Consistent'
  OBVIOUS
<1> USE DEF systemVars, busVars, objectVars, mapVars
<1>1. ASSUME NEW k \in Ids, NEW i \in Ids, StartUpdate(k, i) PROVE Consistent'
  <2>1. ASSUME NEW j \in Ids PROVE ImageInv(j)'
    BY <1>1 DEF StartUpdate, Fresh, Idle, TypeOK, Consistent, ImageInv
  <2>2. Published'
    BY <1>1 DEF StartUpdate, Fresh, TypeOK, Consistent, Published
  <2>3. GuardOnlyWhileActivating'
    BY <1>1 DEF StartUpdate, Fresh, TypeOK, Consistent, GuardOnlyWhileActivating
  <2> QED
    BY <2>1, <2>2, <2>3 DEF Consistent
<1>2. ASSUME NEW i \in Ids, NEW state \in {"Ready", "Invalid"}, CreateActivation(i, state)
      PROVE  Consistent'
  <2>1. ASSUME NEW j \in Ids PROVE ImageInv(j)'
    BY <1>2 DEF CreateActivation, Idle, TypeOK, Consistent, ImageInv
  <2>2. Published'
    BY <1>2 DEF CreateActivation, TypeOK, Consistent, Published
  <2>3. GuardOnlyWhileActivating'
    BY <1>2 DEF CreateActivation, TypeOK, Consistent, GuardOnlyWhileActivating
  <2> QED
    BY <2>1, <2>2, <2>3 DEF Consistent
<1>3. ASSUME NEW i \in Ids, RequestActivation(i) PROVE Consistent'
  <2>1. CASE Starts(i)
    <3>1. /\ Idle /\ UNCHANGED <<task, inbox>> /\ StartActivating(i, path)
          /\ act[i] \in {"Ready", "Failed"}
      BY <1>3, <2>1 DEF RequestActivation, Starts
    <3>2. path[i] # "none" /\ task[i] = None
      BY <3>1 DEF Consistent, ImageInv
    <3> QED
      BY <3>1, <3>2, StartConsistent DEF TypeOK
  <2>2. CASE ~Starts(i)
    BY <1>3, <2>2 DEF RequestActivation, Consistent, ImageInv, Published, GuardOnlyWhileActivating
  <2> QED
    BY <2>1, <2>2
<1>4. ASSUME NEW i \in Ids, WithdrawRequest(i) PROVE Consistent'
  BY <1>4 DEF WithdrawRequest, Consistent, ImageInv, Published, GuardOnlyWhileActivating
<1>5. ASSUME NEW i \in Ids, NEW value \in ClientPriorities, SetPriority(i, value)
      PROVE  Consistent'
  <2>1. /\ AssignPriority(i, value) /\ value \in Priorities /\ prio[i] # NoPrio
        /\ UNCHANGED <<act, blocks, path, functional, task, assocs, guard, inbox>>
    BY <1>5, ConstantsAssumption DEF SetPriority, Ranked
  <2>2. ASSUME NEW j \in Ids PROVE ImageInv(j)'
    BY <2>1, AssignPriorityImage DEF Consistent, ImageInv
  <2> QED
    BY <2>1, <2>2 DEF Consistent, Published, GuardOnlyWhileActivating
<1>6. ASSUME NEW i \in Ids, DeleteVersion(i) PROVE Consistent'
  <2>1. Idle /\ Erase({i}) /\ UNCHANGED <<task, inbox>> /\ path[i] # "none"
    BY <1>6 DEF DeleteVersion
  <2>2. task[i] = None
    BY <2>1 DEF Consistent, ImageInv
  <2> QED
    BY <2>1, <2>2, EraseConsistent
<1>7. ASSUME DeleteAll PROVE Consistent'
  <2> DEFINE V == {i \in Ids : path[i] # "none" /\ i \notin functional}
  <2>1. Idle /\ Erase(V) /\ UNCHANGED <<task, inbox>>
    BY <1>7 DEF DeleteAll
  <2>2. \A i \in V : task[i] = None
    BY DEF Consistent, ImageInv
  <2> HIDE DEF V
  <2>3. V \in SUBSET Ids
    BY DEF V
  <2> QED
    BY <2>1, <2>2, <2>3, EraseConsistent
<1>8. ASSUME NEW i \in Ids, RejectImage(i) PROVE Consistent'
  <2>1. /\ Idle /\ Erase(RejectedObject(i)) /\ inbox' = inbox
        /\ RejectedObject(i) \in SUBSET Ids /\ RejectedObject(i) \subseteq {i}
    BY <1>8 DEF RejectImage, RejectedObject
  <2>2. task'[i] = None /\ \A j \in Ids : task'[j] \in {task[j], None}
    BY <1>8 DEF RejectImage, TypeOK
  <2> QED
    BY <2>1, <2>2, EraseConsistent
<1>9. ASSUME NEW i \in Ids, AcceptImage(i) PROVE Consistent'
  <2>1. /\ Idle /\ inbox' = inbox /\ task[i] # None /\ task'[i] = None
        /\ \A j \in Ids : task'[j] \in {task[j], None}
    BY <1>9 DEF AcceptImage, TypeOK
  <2>2. act[i] = "NotReady"
    BY <2>1 DEF Consistent, ImageInv
  <2>3. CASE i \in requested
    <3>1. /\ act' = [act EXCEPT ![i] = "Ready"] /\ path' = [path EXCEPT ![i] = "upload"]
          /\ UNCHANGED <<prio, blocks, functional, assocs, saved, guard>>
      BY <1>9, <2>3 DEF AcceptImage
    <3>2. ASSUME NEW j \in Ids PROVE ImageInv(j)'
      BY <2>1, <2>2, <3>1 DEF Idle, TypeOK, Consistent, ImageInv
    <3>3. Published'
      BY <2>2, <3>1 DEF TypeOK, Consistent, Published
    <3>4. GuardOnlyWhileActivating'
      BY <2>2, <3>1 DEF TypeOK, Consistent, GuardOnlyWhileActivating
    <3> QED
      BY <3>2, <3>3, <3>4 DEF Consistent
  <2>4. CASE i \notin requested
    <3> DEFINE paths == [path EXCEPT ![i] = "upload"]
    <3>1. StartActivating(i, paths)
      BY <1>9, <2>4 DEF AcceptImage
    <3>2. /\ paths \in [Ids -> {"none", "upload", "flash"}] /\ paths[i] # "none"
          /\ \A j \in Ids \ {i} : paths[j] = path[j]
      BY DEF TypeOK
    <3> HIDE DEF paths
    <3> QED
      BY <2>1, <2>2, <3>1, <3>2, StartConsistent
  <2> QED
    BY <2>3, <2>4
<1>10. ASSUME Dispatch PROVE Consistent'
  <2>1. inbox'.to \subseteq {i \in Ids : act[i] = "Activating"}
    BY <1>10, DeliveryTo DEF Dispatch
  <2>2. UNCHANGED <<act, prio, blocks, path, functional, task, assocs, saved, guard>>
    BY <1>10 DEF Dispatch
  <2> QED
    BY <2>1, <2>2 DEF Consistent, ImageInv, Published, GuardOnlyWhileActivating
<1>11. ASSUME NEW i \in Ids, OnStateChanges(i) PROVE Consistent'
  <2>1. Received(i)
    BY <1>11 DEF OnStateChanges, OnUnitFailed, OnUnitProgress, OnVolumesCreated,
                 OnFlashWriteSuccess
  <2>2. /\ act[i] = "Activating" /\ i \in blocks /\ path[i] # "none"
        /\ task[i] = None /\ i \notin functional
        /\ \A a \in assocs : a[2] # i
    BY <2>1 DEF Received, Consistent, ImageInv, Published
  <2>3. i \notin inbox'.to /\ \A j \in Ids : j \in inbox'.to => j \in inbox.to
    BY <2>1, DeliveryTo DEF Received
  <2>4. ReleaseTransition(i) => blocks' = blocks \ {i} /\ ~guard'
    BY <2>2 DEF ReleaseTransition
  <2>5. 0 \in Priorities
    BY ConstantsAssumption DEF Priorities
  <2>6. CASE OnUnitFailed(i)
    <3>1. /\ act' = [act EXCEPT ![i] = "Failed"] /\ prio' = [prio EXCEPT ![i] = NoPrio]
          /\ blocks' = blocks \ {i} /\ ~guard'
          /\ UNCHANGED <<path, functional, task, assocs, saved>>
      BY <2>4, <2>6 DEF OnUnitFailed
    <3>2. ASSUME NEW j \in Ids PROVE ImageInv(j)'
      <4>1. ImageInv(j)
        BY DEF Consistent
      <4> QED
        BY <2>2, <2>3, <3>1, <4>1 DEF TypeOK, ImageInv
    <3>3. Published'
      BY <2>2, <3>1 DEF TypeOK, Consistent, Published
    <3> QED
      BY <3>1, <3>2, <3>3 DEF Consistent, GuardOnlyWhileActivating
  <2>7. CASE OnUnitProgress(i)
    <3>1. UNCHANGED <<act, prio, blocks, path, functional, task, assocs, saved, guard>>
      BY <2>7 DEF OnUnitProgress
    <3> QED
      BY <2>3, <3>1 DEF Consistent, ImageInv, Published, GuardOnlyWhileActivating
  <2>8. CASE OnVolumesCreated(i)
    <3>1. /\ AssignPriority(i, 0)
          /\ UNCHANGED <<act, blocks, path, functional, task, assocs, guard>>
      BY <2>8 DEF OnVolumesCreated
    <3>2. ASSUME NEW j \in Ids PROVE ImageInv(j)'
      <4>1. ImageInv(j)
        BY DEF Consistent
      <4> QED
        BY <2>2, <2>3, <2>5, <3>1, <4>1, AssignPriorityImage DEF ImageInv
    <3> QED
      BY <3>1, <3>2 DEF Consistent, Published, GuardOnlyWhileActivating
  <2>9. CASE OnFlashWriteSuccess(i)
    <3>1. /\ act' = [act EXCEPT ![i] = "Active"] /\ blocks' = blocks \ {i} /\ ~guard'
          /\ assocs' = assocs \cup {<<"active", i>>, <<"updateable", i>>}
          /\ UNCHANGED <<path, functional, task>>
      BY <2>4, <2>9 DEF OnFlashWriteSuccess
    <3>2. /\ prio'[i] # NoPrio /\ saved'[i] = prio'[i]
          /\ \A j \in Ids \ {i} : /\ prio'[j] # NoPrio <=> prio[j] # NoPrio
                                  /\ prio[j] # NoPrio /\ saved[j] = prio[j]
                                       => saved'[j] = prio'[j]
      <4>1. CASE prio[i] = NoPrio
        BY <2>5, <2>9, <4>1, AssignPriorityImage DEF OnFlashWriteSuccess
      <4>2. CASE prio[i] # NoPrio
        BY <2>9, <4>2 DEF OnFlashWriteSuccess, Consistent, ImageInv
      <4> QED
        BY <4>1, <4>2
    <3>3. ASSUME NEW j \in Ids PROVE ImageInv(j)'
      <4>1. ImageInv(j)
        BY DEF Consistent
      <4>2. CASE j = i
        BY <2>2, <2>3, <3>1, <3>2, <4>2 DEF TypeOK, ImageInv
      <4>3. CASE j # i
        BY <2>3, <3>1, <3>2, <4>1, <4>3 DEF TypeOK, ImageInv
      <4> QED
        BY <4>2, <4>3
    <3>4. Published'
      BY <2>2, <3>1 DEF TypeOK, Consistent, Published
    <3> QED
      BY <3>1, <3>3, <3>4 DEF Consistent, GuardOnlyWhileActivating
  <2> QED
    BY <1>11, <2>6, <2>7, <2>8, <2>9 DEF OnStateChanges
<1>12. ASSUME NEW i \in Ids, SetFlashId(i) PROVE Consistent'
  <2>1. ASSUME NEW j \in Ids PROVE ImageInv(j)'
    BY <1>12 DEF SetFlashId, TypeOK, Consistent, ImageInv
  <2>2. Published' /\ GuardOnlyWhileActivating'
    BY <1>12 DEF SetFlashId, Consistent, Published, GuardOnlyWhileActivating
  <2> QED
    BY <2>1, <2>2 DEF Consistent
<1>13. ASSUME NEW u \in Units, NEW r \in Results, JobEnd(u, r) PROVE Consistent'
  BY <1>13 DEF JobEnd, Consistent, ImageInv, Published, GuardOnlyWhileActivating
<1>14. CASE UNCHANGED vars
  BY <1>14 DEF vars, Consistent, ImageInv, Published, GuardOnlyWhileActivating
<1> QED
  BY <1>1, <1>2, <1>3, <1>4, <1>5, <1>6, <1>7, <1>8, <1>9, <1>10, <1>11, <1>12,
     <1>13, <1>14 DEF Next, Client, Daemon, Systemd

\* The start-up scan finds consistent maps.
LEMMA ConsistentInit == Init => Consistent
<1> SUFFICES ASSUME Init PROVE Consistent
  OBVIOUS
<1>1. PICK running \in Ids, installed \in SUBSET Ids :
        \E restored \in [installed -> Priorities] :
          /\ running \in installed
          /\ act = [i \in Ids |-> IF i \in installed THEN "Active" ELSE "absent"]
          /\ prio = [i \in Ids |-> IF i \in installed THEN restored[i] ELSE NoPrio]
          /\ path = [i \in Ids |-> IF i \in installed THEN "flash" ELSE "none"]
          /\ functional = {running}
          /\ assocs = ({"active"} \X installed)
                       \cup ({"updateable"} \X (IF installed = {running} THEN installed
                                                ELSE installed \ {running}))
                       \cup {<<"functional", running>>}
          /\ saved = prio
  BY DEF Init
<1>2. \A p \in Priorities : p # NoPrio
  BY ConstantsAssumption DEF Priorities, NoPrio
<1>3. blocks = {} /\ inbox.to = {} /\ ~guard /\ task = [i \in Ids |-> None]
  BY DEF Init, NoSignal
<1>4. \A i \in Ids : ImageInv(i)
  BY <1>1, <1>2, <1>3 DEF ImageInv
<1>5. Published
  BY <1>1 DEF Published
<1> QED
  BY <1>3, <1>4, <1>5 DEF Consistent, GuardOnlyWhileActivating

LEMMA InvariantHolds == Spec => [](TypeOK /\ Consistent)
BY TypeInit, TypeStep, ConsistentInit, ConsistentStep, PTL DEF Spec

-----------------------------------------------------------------------------
(* Where an image is installed.  With the Update interface an id is drawn   *)
(* afresh, so what systemd still has to say of a ubiro unit is about the    *)
(* image whose volume it wrote; the unit succeeds only after it has set the *)
(* flash id, and a priority is claimed only after it is known to have.      *)

RoReported(i, result) ==
  \E n \in DOMAIN signals : signals[n].unit = RoUnit(i) /\ signals[n].result = result

LocatedInv(i) ==
  /\ "ro" \in steps[i] \/ prio[i] # NoPrio => path[i] = "flash"
  /\ i \in inbox.to => /\ inbox.unit \in {RwUnit, RoUnit(i), EnvUnit(i)}
                       /\ inbox.unit = RoUnit(i) /\ inbox.result = "done"
                            => path[i] = "flash"
  /\ RoReported(i, "done") => path[i] # "upload"
  /\ task[i] # None => RoUnit(i) \notin jobs /\ \A r : ~RoReported(i, r)

Located == UseUpdateDBusInterface => \A i \in Ids : LocatedInv(i)

\* What a step that reads no signal owes an image: an upload directory only
\* for the image processImage brings, and a ubiro unit only once it is done.
LEMMA LocatedKept ==
  ASSUME Idle, inbox' = inbox, signals' = signals, NEW j \in Ids, LocatedInv(j),
         path'[j] = "upload" => path[j] = "upload" \/ task[j] # None,
         task'[j] \in {task[j], None},
         RoUnit(j) \in jobs' => RoUnit(j) \in jobs \/ task'[j] = None,
         "ro" \in steps'[j] \/ prio'[j] # NoPrio => path'[j] = "flash"
  PROVE  LocatedInv(j)'
<1>1. \A r : RoReported(j, r)' <=> RoReported(j, r)
  BY DEF RoReported
<1>2. j \notin inbox'.to
  BY DEF Idle
<1> QED
  BY <1>1, <1>2 DEF LocatedInv

\* Erasing starts environment updates only, and takes the steps and the
\* priority of an image along with its path.
LEMMA EraseLocated ==
  ASSUME TypeOK, NEW V \in SUBSET Ids, Erase(V), Idle, inbox' = inbox,
         signals' = signals, NEW j \in Ids, LocatedInv(j), task'[j] \in {task[j], None}
  PROVE  LocatedInv(j)'
<1>1. RoUnit(j) \in jobs' => RoUnit(j) \in jobs
  BY DEF Erase, EraseInOrder, EraseJobs, EnvUnit, RoUnit
<1>2. steps'[j] = IF j \in V THEN {} ELSE steps[j]
  BY DEF Erase, EraseInOrder, Without
<1>3. /\ path'[j] = "upload" => path[j] = "upload"
      /\ "ro" \in steps'[j] \/ prio'[j] # NoPrio => path'[j] = "flash"
  BY <1>2, EraseImage DEF LocatedInv
<1> QED
  BY <1>1, <1>3, LocatedKept

\* An activation starts with no step taken and no priority, and its ubiro
\* unit is the only one that is asked for.
LEMMA StartLocated ==
  ASSUME TypeOK, Consistent, Idle, inbox' = inbox, signals' = signals, NEW i \in Ids,
         act[i] \in {"NotReady", "Ready", "Failed"},
         NEW paths \in [Ids -> {"none", "upload", "flash"}],
         paths[i] = "upload" => path[i] = "upload" \/ task[i] # None,
         \A j \in Ids \ {i} : paths[j] = path[j],
         task'[i] = None, StartActivating(i, paths),
         NEW j \in Ids, LocatedInv(j), task'[j] \in {task[j], None}
  PROVE  LocatedInv(j)'
<1>1. prio[i] = NoPrio
  BY DEF Consistent, ImageInv
<1>2. CASE Refuse(i, paths)
  <2>1. /\ path' = paths /\ prio' = prio /\ jobs' = jobs
        /\ steps'[j] = IF j = i THEN {} ELSE steps[j]
    BY <1>2 DEF Refuse, TypeOK
  <2> QED
    BY <1>1, <2>1, LocatedKept DEF LocatedInv
<1>3. ASSUME NEW V \in FreeSpaceVictims(i), NEW order, NEW targets,
             StartWriting(i, paths, V, order, targets)
      PROVE  LocatedInv(j)'
  <2>1. i \notin V
    BY DEF FreeSpaceVictims, Queue
  <2>2. /\ path'[j] = IF j \in V THEN "none" ELSE paths[j]
        /\ prio'[j] = IF j \in V THEN NoPrio ELSE prio[j]
        /\ steps'[j] = IF j \in V \cup {i} THEN {} ELSE steps[j]
    BY <1>3 DEF StartWriting, Without, TypeOK
  <2>3. RoUnit(j) \in jobs' => RoUnit(j) \in jobs \/ j = i
    BY <1>3 DEF StartWriting, EraseJobs, EnvUnit, RoUnit, RwUnit
  <2> QED
    BY <1>1, <2>1, <2>2, <2>3, LocatedKept DEF LocatedInv
<1> QED
  BY <1>2, <1>3 DEF StartActivating

\* A unit result that an activation is handed is about its own volumes: the
\* read-only volume is known to be there only when the image is on flash.
LEMMA StepsLocated ==
  ASSUME TypeOK, NEW i \in Ids, i \in inbox.to, LocatedInv(i), "ro" \in StepsNow(i)
  PROVE  path[i] = "flash"
BY DEF StepsNow, LocatedInv, RwUnit, RoUnit, EnvUnit

\* Every step keeps the images where their priorities and steps say they are.
LEMMA LocatedStep == TypeOK /\ Consistent /\ Located /\ [Next]_vars => Located'
<1> SUFFICES ASSUME TypeOK, Consistent, Located, [Next]_vars,
                    UseUpdateDBusInterface, NEW j \in Ids
             PROVE  LocatedInv(j)'
  BY DEF Located
<1> USE DEF systemVars, busVars, objectVars, mapVars
<1>0. LocatedInv(j)
  BY DEF Located
<1>1. ASSUME NEW k \in Ids, NEW i \in Ids, StartUpdate(k, i) PROVE LocatedInv(j)'
  <2>1. /\ Idle /\ UNCHANGED <<steps, prio, path, inbox, signals, jobs>>
        /\ j # i => task'[j] = task[j]
    BY <1>1 DEF StartUpdate, TypeOK
  <2>2. CASE j = i
    <3>1. RoUnit(i) \notin jobs /\ \A r : ~RoReported(i, r)
      BY <1>1 DEF StartUpdate, Fresh, RoUnit, RoReported
    <3> QED
      BY <1>0, <2>1, <2>2, <3>1 DEF LocatedInv, RoReported, Idle
  <2>3. CASE j # i
    BY <1>0, <2>1, <2>3, LocatedKept DEF LocatedInv
  <2> QED
    BY <2>2, <2>3
<1>2. ASSUME NEW i \in Ids, NEW state \in {"Ready", "Invalid"}, CreateActivation(i, state)
      PROVE  LocatedInv(j)'
  BY <1>2 DEF CreateActivation
<1>3. ASSUME NEW i \in Ids, RequestActivation(i) PROVE LocatedInv(j)'
  <2>1. Idle /\ UNCHANGED <<task, inbox, signals>>
    BY <1>3 DEF RequestActivation
  <2>2. CASE Starts(i)
    <3>1. StartActivating(i, path) /\ act[i] \in {"Ready", "Failed"}
      BY <1>3, <2>2 DEF RequestActivation, Starts
    <3>2. task[i] = None
      BY <3>1 DEF Consistent, ImageInv
    <3> QED
      BY <1>0, <2>1, <3>1, <3>2, StartLocated DEF TypeOK
  <2>3. CASE ~Starts(i)
    <3>1. /\ UNCHANGED <<path, prio, jobs>>
          /\ steps'[j] \in {{}, steps[j]}
      BY <1>3, <2>3 DEF RequestActivation, TypeOK
    <3> QED
      BY <1>0, <2>1, <3>1, LocatedKept DEF LocatedInv
  <2> QED
    BY <2>2, <2>3
<1>4. ASSUME NEW i \in Ids, WithdrawRequest(i) PROVE LocatedInv(j)'
  <2>1. /\ Idle /\ UNCHANGED <<path, prio, jobs, task, inbox, signals>>
        /\ steps'[j] \in {{}, steps[j]}
    BY <1>4 DEF WithdrawRequest, TypeOK
  <2> QED
    BY <1>0, <2>1, LocatedKept DEF LocatedInv
<1>5. ASSUME NEW i \in Ids, NEW value \in ClientPriorities, SetPriority(i, value)
      PROVE  LocatedInv(j)'
  <2>1. /\ Idle /\ AssignPriority(i, value) /\ value \in Priorities /\ prio[i] # NoPrio
        /\ UNCHANGED <<steps, path, task, inbox, signals>>
    BY <1>5, ConstantsAssumption DEF SetPriority, Ranked
  <2>2. prio'[j] # NoPrio <=> prio[j] # NoPrio
    BY <2>1, AssignPriorityImage
  <2>3. RoUnit(j) \in jobs' => RoUnit(j) \in jobs
    BY <2>1 DEF AssignPriority, ClaimPriority, RoUnit, EnvUnit
  <2> QED
    BY <1>0, <2>1, <2>2, <2>3, LocatedKept DEF LocatedInv
<1>6. ASSUME NEW i \in Ids, DeleteVersion(i) PROVE LocatedInv(j)'
  <2>1. Idle /\ Erase({i}) /\ {i} \in SUBSET Ids /\ UNCHANGED <<task, inbox, signals>>
    BY <1>6 DEF DeleteVersion
  <2> QED
    BY <1>0, <2>1, EraseLocated
<1>7. CASE DeleteAll
  <2> DEFINE V == {i \in Ids : path[i] # "none" /\ i \notin functional}
  <2>1. Idle /\ Erase(V) /\ V \in SUBSET Ids /\ UNCHANGED <<task, inbox, signals>>
    BY <1>7 DEF DeleteAll
  <2> HIDE DEF V
  <2> QED
    BY <1>0, <2>1, EraseLocated
<1>8. ASSUME NEW i \in Ids, RejectImage(i) PROVE LocatedInv(j)'
  <2>1. /\ Idle /\ Erase(RejectedObject(i)) /\ UNCHANGED <<inbox, signals>>
        /\ RejectedObject(i) \in SUBSET Ids /\ task'[j] \in {task[j], None}
    BY <1>8 DEF RejectImage, RejectedObject, TypeOK
  <2> QED
    BY <1>0, <2>1, EraseLocated
<1>9. ASSUME NEW i \in Ids, AcceptImage(i) PROVE LocatedInv(j)'
  <2>1. /\ Idle /\ UNCHANGED <<inbox, signals>> /\ task[i] # None /\ task'[i] = None
        /\ task'[j] \in {task[j], None}
    BY <1>9 DEF AcceptImage, TypeOK
  <2>2. act[i] = "NotReady" /\ prio[i] = NoPrio
    BY <2>1 DEF Consistent, ImageInv
  <2>3. CASE i \in requested
    <3>1. /\ UNCHANGED <<prio, jobs>>
          /\ path'[j] = IF j = i THEN "upload" ELSE path[j]
          /\ steps'[j] = IF j = i THEN {} ELSE steps[j]
      BY <1>9, <2>3 DEF AcceptImage, TypeOK
    <3> QED
      BY <1>0, <2>1, <2>2, <3>1, LocatedKept DEF LocatedInv
  <2>4. CASE i \notin requested
    <3> DEFINE paths == [path EXCEPT ![i] = "upload"]
    <3>1. StartActivating(i, paths)
      BY <1>9, <2>4 DEF AcceptImage
    <3>2. /\ paths \in [Ids -> {"none", "upload", "flash"}]
          /\ \A k \in Ids \ {i} : paths[k] = path[k]
      BY DEF TypeOK
    <3> HIDE DEF paths
    <3> QED
      BY <1>0, <2>1, <2>2, <3>1, <3>2, StartLocated
  <2> QED
    BY <2>3, <2>4
<1>10. CASE Dispatch
  <2>1. /\ signals # <<>> /\ signals \in Seq([unit : Units, result : Results])
        /\ signals' = Tail(signals) /\ UNCHANGED <<act, steps, prio, path, task, jobs>>
    BY <1>10 DEF Dispatch, TypeOK
  <2>2. ASSUME NEW r, RoReported(j, r)' PROVE RoReported(j, r)
    <3>1. PICK n \in DOMAIN Tail(signals) :
             Tail(signals)[n].unit = RoUnit(j) /\ Tail(signals)[n].result = r
      BY <2>1, <2>2 DEF RoReported
    <3>2. n + 1 \in DOMAIN signals /\ signals[n + 1] = Tail(signals)[n]
      BY <2>1, <3>1
    <3> QED
      BY <3>1, <3>2 DEF RoReported
  <2>3. 1 \in DOMAIN signals /\ Head(signals) = signals[1]
    BY <2>1
  <2>4. j \in inbox'.to =>
          /\ act[j] = "Activating"
          /\ inbox'.unit = Head(signals).unit /\ inbox'.result = Head(signals).result
          /\ inbox'.unit \in {RwUnit, RoUnit(j), EnvUnit(j)}
    BY <1>10 DEF Dispatch, Delivery, NoSignal
  <2>5. act[j] = "Activating" => path[j] # "none"
    BY DEF Consistent, ImageInv
  <2>6. j \in inbox'.to /\ inbox'.unit = RoUnit(j) /\ inbox'.result = "done"
          => path[j] = "flash"
    BY <1>0, <2>3, <2>4, <2>5 DEF LocatedInv, RoReported, TypeOK
  <2> QED
    BY <1>0, <2>1, <2>2, <2>4, <2>6 DEF LocatedInv
<1>11. ASSUME NEW i \in Ids, OnStateChanges(i) PROVE LocatedInv(j)'
  <2>1. Received(i) /\ UNCHANGED <<path, task, signals>>
    BY <1>11 DEF OnStateChanges, OnUnitFailed, OnUnitProgress, OnVolumesCreated,
                 OnFlashWriteSuccess
  <2>2. j \in inbox'.to =>
          j \in inbox.to /\ inbox'.unit = inbox.unit /\ inbox'.result = inbox.result
    BY <2>1 DEF Received, Delivery, NoSignal
  <2>3. \A r : RoReported(j, r)' <=> RoReported(j, r)
    BY <2>1 DEF RoReported
  <2>4. 0 \in Priorities
    BY ConstantsAssumption DEF Priorities
  <2>5. AssignPriority(i, 0) => /\ RoUnit(j) \in jobs' => RoUnit(j) \in jobs
                                /\ prio'[j] # NoPrio => prio[j] # NoPrio \/ j = i
    BY <2>4, AssignPriorityImage DEF AssignPriority, ClaimPriority, RoUnit, EnvUnit
  <2>6. /\ RoUnit(j) \in jobs' => RoUnit(j) \in jobs
        /\ prio'[j] # NoPrio => prio[j] # NoPrio \/ (j = i /\ "ro" \in StepsNow(i))
        /\ steps'[j] \in {{}, steps[j]} \/ (j = i /\ steps'[i] = StepsNow(i))
    <3>1. CASE OnUnitFailed(i)
      BY <3>1 DEF OnUnitFailed, TypeOK
    <3>2. CASE OnUnitProgress(i)
      BY <3>2 DEF OnUnitProgress, TypeOK
    <3>3. CASE OnVolumesCreated(i)
      BY <2>5, <3>3 DEF OnVolumesCreated, TypeOK
    <3>4. CASE OnFlashWriteSuccess(i)
      BY <2>5, <3>4 DEF OnFlashWriteSuccess, TypeOK, FlashSteps
    <3> QED
      BY <1>11, <3>1, <3>2, <3>3, <3>4 DEF OnStateChanges
  <2>7. j = i /\ "ro" \in StepsNow(i) => path[j] = "flash"
    BY <1>0, <2>1, StepsLocated DEF Received
  <2>8. "ro" \in steps'[j] \/ prio'[j] # NoPrio => path'[j] = "flash"
    BY <1>0, <2>1, <2>6, <2>7 DEF LocatedInv
  <2> QED
    BY <1>0, <2>1, <2>2, <2>3, <2>6, <2>8 DEF LocatedInv
<1>12. ASSUME NEW i \in Ids, SetFlashId(i) PROVE LocatedInv(j)'
  <2>1. /\ Idle /\ UNCHANGED <<steps, prio, task, inbox, signals, jobs>>
        /\ path'[j] \in {path[j], "flash"}
    BY <1>12 DEF SetFlashId, TypeOK
  <2> QED
    BY <1>0, <2>1, LocatedKept DEF LocatedInv
<1>13. ASSUME NEW u \in Units, NEW r \in Results, JobEnd(u, r) PROVE LocatedInv(j)'
  <2>1. /\ UNCHANGED <<steps, prio, path, task, inbox>>
        /\ jobs' \subseteq jobs /\ u \in jobs /\ EndPossible(u, r)
        /\ signals' \in {signals, Append(signals, [unit |-> u, result |-> r])}
    BY <1>13 DEF JobEnd
  <2>2. ASSUME NEW s, RoReported(j, s)'
        PROVE  RoReported(j, s) \/ (u = RoUnit(j) /\ s = r)
    <3>1. CASE signals' = signals
      BY <2>2, <3>1 DEF RoReported
    <3>2. CASE signals' = Append(signals, [unit |-> u, result |-> r])
      <4>1. PICK n \in DOMAIN signals' :
               signals'[n].unit = RoUnit(j) /\ signals'[n].result = s
        BY <2>2 DEF RoReported
      <4>2. CASE n \in DOMAIN signals
        <5>1. signals'[n] = signals[n]
          BY <3>2, <4>2, AppendProperties DEF TypeOK
        <5> QED
          BY <4>1, <4>2, <5>1 DEF RoReported
      <4>3. CASE n \notin DOMAIN signals
        <5>1. signals'[n] = [unit |-> u, result |-> r]
          BY <3>2, <4>1, <4>3, AppendProperties DEF TypeOK
        <5> QED
          BY <4>1, <5>1
      <4> QED
        BY <4>2, <4>3
    <3> QED
      BY <2>1, <3>1, <3>2
  <2>3. u = RoUnit(j) /\ r = "done" => path[j] # "upload"
    BY <2>1 DEF EndPossible, RoUnit
  <2>4. task[j] # None => u # RoUnit(j)
    BY <1>0, <2>1 DEF LocatedInv
  <2> QED
    BY <1>0, <2>1, <2>2, <2>3, <2>4 DEF LocatedInv
<1>14. CASE UNCHANGED vars
  BY <1>0, <1>14 DEF vars, LocatedInv, RoReported
<1> QED
  BY <1>1, <1>2, <1>3, <1>4, <1>5, <1>6, <1>7, <1>8, <1>9, <1>10, <1>11, <1>12,
     <1>13, <1>14 DEF Next, Client, Daemon, Systemd

\* At start-up every image is on flash and nothing is under way.
LEMMA LocatedInit == Init => Located
<1> SUFFICES ASSUME Init, NEW i \in Ids PROVE LocatedInv(i)
  BY DEF Located
<1>1. prio[i] # NoPrio => path[i] = "flash"
  BY DEF Init
<1>2. /\ steps[i] = {} /\ inbox.to = {} /\ task[i] = None
      /\ \A r : ~RoReported(i, r)
  BY DEF Init, NoSignal, RoReported
<1> QED
  BY <1>1, <1>2 DEF LocatedInv

\* PriorityOnlyInstalled: whichever unit ends first and whatever failed before,
\* a priority is claimed for an image whose Path is its flash location.
THEOREM OnlyInstalledRanked == Spec => []PriorityOnlyInstalled
<1>1. Consistent /\ Located => PriorityOnlyInstalled
  BY DEF Consistent, ImageInv, Located, LocatedInv, PriorityOnlyInstalled
<1> QED
  BY <1>1, TypeInit, TypeStep, ConsistentInit, ConsistentStep, LocatedInit, LocatedStep,
     PTL DEF Spec

-----------------------------------------------------------------------------
(* The theorems.                                                           *)

\* VersionExists: the code's unchecked versions.find(id)->second never
\* dereferences end(), for an image that an activation, a unit result, a
\* priority or freeing space is about.
THEOREM VersionAlwaysExists == Spec => []VersionExists
<1>1. Consistent => VersionExists
  BY DEF Consistent, ImageInv, VersionExists
<1> QED
  BY <1>1, InvariantHolds, PTL

\* BlocksWhileActivating: activationBlocksTransition is set and reset with the
\* Activating state, on success, failure, refusal and erasure.
THEOREM BlocksExactly == Spec => []BlocksWhileActivating
<1>1. TypeOK /\ Consistent => BlocksWhileActivating
  BY DEF TypeOK, Consistent, ImageInv, BlocksWhileActivating
<1> QED
  BY <1>1, InvariantHolds, PTL

\* SavedPriorityCurrent: savePriority is called for every priority that
\* changes, the requested one and those freePriority bumps.
THEOREM SavedPriorities == Spec => []SavedPriorityCurrent
<1>1. Consistent => SavedPriorityCurrent
  BY DEF Consistent, ImageInv, SavedPriorityCurrent
<1> QED
  BY <1>1, InvariantHolds, PTL

\* AssociationsOfActive: what the ItemUpdater publishes for the mapper follows
\* the activations, through erasure by another image's activation as well.
THEOREM PublishedActive == Spec => []AssociationsOfActive
<1>1. Consistent => AssociationsOfActive
  BY DEF Consistent, ImageInv, Published, AssociationsOfActive
<1> QED
  BY <1>1, InvariantHolds, PTL

\* GuardOnlyWhileActivating: the reboot guard is not left enabled when the
\* last activation has ended or was erased.
THEOREM GuardReleased == Spec => []GuardOnlyWhileActivating
<1>1. Consistent => GuardOnlyWhileActivating
  BY DEF Consistent
<1> QED
  BY <1>1, InvariantHolds, PTL

\* freeSpace never chooses a version that is running.
LEMMA StartKeepsRunning ==
  ASSUME TypeOK, MaxAllowed > 1, NEW i \in Ids, NEW paths, StartActivating(i, paths),
         NEW j \in functional, act[j] # "absent"
  PROVE  act'[j] # "absent"
<1>1. CASE Refuse(i, paths)
  BY <1>1 DEF Refuse, TypeOK
<1>2. ASSUME NEW V \in FreeSpaceVictims(i), NEW order, NEW targets,
             StartWriting(i, paths, V, order, targets)
      PROVE  act'[j] # "absent"
  <2>1. j \notin V
    BY DEF FreeSpaceVictims, Queue, Protected
  <2> QED
    BY <1>2, <2>1 DEF StartWriting, Without, TypeOK
<1> QED
  BY <1>1, <1>2 DEF StartActivating

\* RunningVersionKept: no way to erase() reaches the running version when more
\* than one is allowed.
THEOREM RunningKept == Spec => RunningVersionKept
<1>1. TypeOK /\ Consistent /\ [Next]_vars
        => KeepsRunning
  <2> SUFFICES ASSUME TypeOK, Consistent, [Next]_vars, MaxAllowed > 1,
                      NEW j \in functional
               PROVE  act'[j] # "absent"
    BY DEF KeepsRunning
  <2>1. j \in Ids /\ act[j] = "Active" /\ path[j] # "none"
    BY DEF TypeOK, Consistent, ImageInv
  <2>2. ASSUME NEW i \in Ids,
               \/ RequestActivation(i) \/ WithdrawRequest(i) \/ OnStateChanges(i)
               \/ SetFlashId(i) \/ \E k \in Ids : StartUpdate(k, i)
               \/ \E state \in {"Ready", "Invalid"} : CreateActivation(i, state)
               \/ \E value \in ClientPriorities : SetPriority(i, value)
        PROVE  act'[j] # "absent"
    BY <2>1, <2>2, StartKeepsRunning
       DEF RequestActivation, WithdrawRequest, OnStateChanges, OnUnitFailed, OnUnitProgress,
           OnVolumesCreated, OnFlashWriteSuccess, SetFlashId, StartUpdate,
           CreateActivation, SetPriority, objectVars, TypeOK
  <2>3. ASSUME NEW i \in Ids, AcceptImage(i) PROVE act'[j] # "absent"
    BY <2>1, <2>3, StartKeepsRunning DEF AcceptImage, TypeOK
  <2>4. ASSUME NEW i \in Ids, RejectImage(i) PROVE act'[j] # "absent"
    <3>1. j \notin RejectedObject(i)
      BY <2>1, <2>4 DEF RejectImage, RejectedObject, Consistent, ImageInv
    <3>2. Erase(RejectedObject(i)) /\ RejectedObject(i) \in SUBSET Ids
      BY <2>4 DEF RejectImage, RejectedObject
    <3> QED
      BY <2>1, <3>1, <3>2, EraseImage
  <2>5. ASSUME NEW i \in Ids, DeleteVersion(i) PROVE act'[j] # "absent"
    <3>1. Erase({i}) /\ j \notin {i} /\ {i} \in SUBSET Ids
      BY <2>5 DEF DeleteVersion
    <3> QED
      BY <2>1, <3>1, EraseImage
  <2>6. CASE DeleteAll
    <3> DEFINE V == {i \in Ids : path[i] # "none" /\ i \notin functional}
    <3>1. Erase(V) /\ j \notin V /\ V \in SUBSET Ids
      BY <2>6 DEF DeleteAll
    <3> HIDE DEF V
    <3> QED
      BY <2>1, <3>1, EraseImage
  <2>7. CASE Dispatch \/ (\E u \in Units, r \in Results : JobEnd(u, r)) \/ UNCHANGED vars
    BY <2>1, <2>7 DEF Dispatch, JobEnd, vars, objectVars
  <2> QED
    BY <2>2, <2>3, <2>4, <2>5, <2>6, <2>7 DEF Next, Client, Daemon, Systemd
<1> QED
  BY <1>1, InvariantHolds, PTL DEF Spec, RunningVersionKept

-----------------------------------------------------------------------------
(* One image at a time goes through each update manager, although erasing  *)
(* a version destroys its manager while processImage still refers to it.   *)

(* A manager that processes an image is marked as busy or has been         *)
(* destroyed with its version.  That version does not come back: startUpdate *)
(* draws a new id, and with the Update interface nothing else adds one.    *)
ManagerInv(m) ==
  /\ m \in managers => act[m] = "Active"
  /\ m \in updating => m \in managers /\ \E i \in Ids : task[i] = m
  /\ \A i \in Ids : task[i] = m => m \in updating \/ act[m] = "absent"

TasksDiffer == \A i, j \in Ids : task[i] = task[j] /\ task[i] # None => i = j

ManagersOK == (\A m \in Ids : ManagerInv(m)) /\ TasksDiffer

\* Erasing versions, with their managers, leaves the others' tasks as they are.
LEMMA EraseManagers ==
  ASSUME TypeOK, ManagersOK, NEW V \in SUBSET Ids, Erase(V), task' = task,
         updating' = updating \ V
  PROVE  ManagersOK'
<1>1. ASSUME NEW m \in Ids PROVE ManagerInv(m)'
  <2>1. ManagerInv(m) /\ (m \in managers' <=> m \in managers /\ m \notin V)
    BY DEF ManagersOK, Erase, EraseInOrder
  <2>2. CASE m \in V
    BY <2>1, <2>2, EraseImage DEF ManagerInv
  <2>3. CASE m \notin V
    BY <2>1, <2>3, EraseImage DEF ManagerInv
  <2> QED
    BY <2>2, <2>3
<1> QED
  BY <1>1 DEF ManagersOK, TasksDiffer

\* Managers while an activation is started: those erased to make room go, with
\* their busy flag, and the rest keep their versions.
LEMMA StartManagers ==
  ASSUME TypeOK, ManagersOK, NEW i \in Ids, act[i] \in {"NotReady", "Ready", "Failed"},
         NEW paths, StartActivating(i, paths), NEW m \in Ids
  PROVE  /\ m \in managers' => m \in managers /\ act'[m] = "Active"
         /\ m \in managers /\ m \notin managers' => act'[m] = "absent"
         /\ act[m] = "absent" => act'[m] = "absent"
<1>1. m \in managers => act[m] = "Active" /\ m # i
  BY DEF ManagersOK, ManagerInv
<1>2. CASE Refuse(i, paths)
  BY <1>1, <1>2 DEF Refuse, TypeOK
<1>3. ASSUME NEW V \in FreeSpaceVictims(i), NEW order, NEW targets,
             StartWriting(i, paths, V, order, targets)
      PROVE  /\ m \in managers' => m \in managers /\ act'[m] = "Active"
             /\ m \in managers /\ m \notin managers' => act'[m] = "absent"
             /\ act[m] = "absent" => act'[m] = "absent"
  BY <1>1, <1>3 DEF StartWriting, Without, TypeOK
<1> QED
  BY <1>2, <1>3 DEF StartActivating

LEMMA ManagersStep ==
  ASSUME UseUpdateDBusInterface
  PROVE  TypeOK /\ Consistent /\ ManagersOK /\ [Next]_vars => ManagersOK'
<1> SUFFICES ASSUME TypeOK, Consistent, ManagersOK, [Next]_vars PROVE ManagersOK'
  OBVIOUS
<1> USE DEF systemVars, busVars, objectVars, mapVars
<1>1. ASSUME NEW k \in Ids, NEW i \in Ids, StartUpdate(k, i) PROVE ManagersOK'
  <2>1. /\ k \in managers /\ k \notin updating /\ act[i] = "absent" /\ k # i
        /\ \A j \in Ids : task[j] # i
        /\ act' = [act EXCEPT ![i] = "NotReady"] /\ managers' = managers
        /\ updating' = updating \cup {k} /\ task' = [task EXCEPT ![i] = k]
    BY <1>1 DEF StartUpdate, Available, Fresh, ManagersOK, ManagerInv
  <2>2. /\ task[i] = None
        /\ \A j \in Ids : task[j] # k
    BY <2>1 DEF ManagersOK, ManagerInv, Consistent, ImageInv
  <2>3. ASSUME NEW m \in Ids PROVE ManagerInv(m)'
    <3>1. ManagerInv(m)
      BY DEF ManagersOK
    <3>2. task'[i] = k /\ \A j \in Ids \ {i} : task'[j] = task[j]
      BY <2>1 DEF TypeOK
    <3>3. m # i => act'[m] = act[m]
      BY <2>1 DEF TypeOK
    <3>4. i \notin managers /\ i \notin updating
      BY <2>1 DEF ManagersOK, ManagerInv
    <3>5. m \in managers' => act'[m] = "Active"
      BY <2>1, <3>1, <3>3, <3>4 DEF ManagerInv
    <3>6. m \in updating' => m \in managers' /\ \E j \in Ids : task'[j] = m
      <4>1. CASE m = k
        BY <2>1, <3>2, <4>1
      <4>2. CASE m # k
        <5>1. m \in updating' => m \in managers /\ \E j \in Ids : task[j] = m /\ j # i
          BY <2>1, <2>2, <3>1, <4>2, ConstantsAssumption DEF ManagerInv
        <5> QED
          BY <2>1, <3>2, <5>1
      <4> QED
        BY <4>1, <4>2
    <3>7. ASSUME NEW j \in Ids, task'[j] = m PROVE m \in updating' \/ act'[m] = "absent"
      BY <2>1, <3>1, <3>2, <3>3, <3>7 DEF ManagerInv
    <3> QED
      BY <3>5, <3>6, <3>7 DEF ManagerInv
  <2>4. TasksDiffer'
    BY <2>1, <2>2 DEF TasksDiffer, ManagersOK, TypeOK
  <2> QED
    BY <2>3, <2>4 DEF ManagersOK
<1>2. ASSUME NEW i \in Ids, NEW state \in {"Ready", "Invalid"}, CreateActivation(i, state)
      PROVE  ManagersOK'
  BY <1>2 DEF CreateActivation
<1>3. ASSUME NEW i \in Ids, RequestActivation(i) PROVE ManagersOK'
  <2>1. CASE Starts(i)
    <3>1. /\ StartActivating(i, path) /\ task' = task
          /\ updating' = updating \cap managers' /\ act[i] \in {"Ready", "Failed"}
      BY <1>3, <2>1 DEF RequestActivation, Starts
    <3>2. ASSUME NEW m \in Ids PROVE ManagerInv(m)'
      <4>1. ManagerInv(m)
        BY DEF ManagersOK
      <4>2. /\ m \in managers' => m \in managers /\ act'[m] = "Active"
            /\ m \in managers /\ m \notin managers' => act'[m] = "absent"
            /\ act[m] = "absent" => act'[m] = "absent"
        BY <3>1, StartManagers
      <4> QED
        BY <3>1, <4>1, <4>2 DEF ManagerInv
    <3> QED
      BY <3>1, <3>2 DEF ManagersOK, TasksDiffer
  <2>2. CASE ~Starts(i)
    BY <1>3, <2>2 DEF RequestActivation, ManagersOK, ManagerInv, TasksDiffer
  <2> QED
    BY <2>1, <2>2
<1>4. ASSUME NEW i \in Ids, WithdrawRequest(i) PROVE ManagersOK'
  BY <1>4 DEF WithdrawRequest, ManagersOK, ManagerInv, TasksDiffer
<1>5. ASSUME NEW i \in Ids, NEW value \in ClientPriorities, SetPriority(i, value)
      PROVE  ManagersOK'
  BY <1>5 DEF SetPriority, ManagersOK, ManagerInv, TasksDiffer
<1>6. ASSUME NEW i \in Ids, DeleteVersion(i) PROVE ManagersOK'
  BY <1>6, EraseManagers DEF DeleteVersion
<1>7. ASSUME DeleteAll PROVE ManagersOK'
  BY <1>7, EraseManagers DEF DeleteAll
<1>8. ASSUME NEW i \in Ids, RejectImage(i) PROVE ManagersOK'
  <2>1. /\ Erase(RejectedObject(i)) /\ RejectedObject(i) \in SUBSET Ids
        /\ task[i] # None /\ task' = [task EXCEPT ![i] = None]
        /\ updating' = updating \ {task[i]} /\ RejectedObject(i) \subseteq {i}
    BY <1>8 DEF RejectImage, RejectedObject, UpdatingAfter
  <2>2. act[i] = "NotReady"
    BY <2>1 DEF Consistent, ImageInv
  <2>3. ASSUME NEW m \in Ids PROVE ManagerInv(m)'
    <3>1. ManagerInv(m) /\ ManagerInv(i) /\ TasksDiffer
      BY DEF ManagersOK
    <3>2. m \in managers' <=> m \in managers
      <4>1. managers' = managers \ RejectedObject(i)
        BY <2>1 DEF Erase, EraseInOrder
      <4> QED
        BY <2>1, <2>2, <3>1, <4>1 DEF ManagerInv
    <3>3. m # i => act'[m] = act[m]
      BY <2>1, EraseImage
    <3>4. m = i => m \notin managers /\ (act[m] = "absent" \/ act'[m] = "absent")
      <4>1. m = i => m \in RejectedObject(i) \/ act[m] = "absent"
        BY DEF RejectedObject, Objects
      <4> QED
        BY <2>1, <2>2, <3>1, <4>1, EraseImage DEF ManagerInv
    <3>5. \A j \in Ids : task'[j] = m => task[j] = m /\ j # i
      BY <2>1, ConstantsAssumption DEF TypeOK
    <3>6. m \in updating' => m \in updating /\ task[i] # m
      BY <2>1
    <3>7. \A j \in Ids : task[j] = m /\ j # i => task'[j] = m /\ task[i] # m
      BY <2>1, <3>1 DEF TasksDiffer, TypeOK
    <3>8. \A j \in Ids : task'[j] = m => m \in updating' \/ act'[m] = "absent"
      BY <2>1, <2>2, <3>1, <3>3, <3>4, <3>5, <3>7 DEF ManagerInv
    <3>9. m \in updating' => \E j \in Ids : task'[j] = m
      BY <3>1, <3>6, <3>7 DEF ManagerInv
    <3> QED
      BY <2>2, <3>1, <3>2, <3>3, <3>4, <3>6, <3>8, <3>9 DEF ManagerInv
  <2>4. TasksDiffer'
    BY <2>1 DEF ManagersOK, TasksDiffer, TypeOK
  <2> QED
    BY <2>3, <2>4 DEF ManagersOK
<1>9. ASSUME NEW i \in Ids, AcceptImage(i) PROVE ManagersOK'
  <2>1. /\ task[i] # None /\ task' = [task EXCEPT ![i] = None]
        /\ updating' = (updating \ {task[i]}) \cap managers'
    BY <1>9 DEF AcceptImage, UpdatingAfter
  <2>2. act[i] = "NotReady"
    BY <2>1 DEF Consistent, ImageInv
  <2>3. ASSUME NEW m \in Ids
        PROVE  /\ m \in managers' => m \in managers /\ act'[m] = "Active"
               /\ m \in managers /\ m \notin managers' => act'[m] = "absent"
               /\ act[m] = "absent" => act'[m] = "absent"
    <3>1. CASE i \in requested
      BY <1>9, <2>2, <3>1 DEF AcceptImage, ManagersOK, ManagerInv, TypeOK
    <3>2. CASE i \notin requested
      <4>1. StartActivating(i, [path EXCEPT ![i] = "upload"])
        BY <1>9, <3>2 DEF AcceptImage
      <4> QED
        BY <2>2, <4>1, StartManagers
    <3> QED
      BY <3>1, <3>2
  <2>4. ASSUME NEW m \in Ids PROVE ManagerInv(m)'
    <3>1. ManagerInv(m) /\ TasksDiffer
      BY DEF ManagersOK
    <3>2. \A j \in Ids : task'[j] = m => task[j] = m /\ j # i
      BY <2>1, ConstantsAssumption DEF TypeOK
    <3>3. \A j \in Ids : task[j] = m /\ j # i => task'[j] = m /\ task[i] # m
      BY <2>1, <3>1 DEF TasksDiffer, TypeOK
    <3>4. \A j \in Ids : task'[j] = m => m \in updating' \/ act'[m] = "absent"
      BY <2>1, <2>3, <3>1, <3>2, <3>3 DEF ManagerInv
    <3>5. m \in updating' => \E j \in Ids : task'[j] = m
      BY <2>1, <3>1, <3>3 DEF ManagerInv
    <3> QED
      BY <2>1, <2>3, <3>4, <3>5 DEF ManagerInv
  <2>5. TasksDiffer'
    BY <2>1 DEF ManagersOK, TasksDiffer, TypeOK
  <2> QED
    BY <2>4, <2>5 DEF ManagersOK
<1>10. ASSUME NEW i \in Ids, OnStateChanges(i) PROVE ManagersOK'
  <2>1. i \in Ids /\ act[i] = "Activating" /\ i \notin managers
    BY <1>10 DEF OnStateChanges, OnUnitFailed, OnUnitProgress, OnVolumesCreated,
                 OnFlashWriteSuccess, Received, Consistent, ImageInv, ManagersOK, ManagerInv
  <2>2. /\ \A m \in Ids \ {i} : act'[m] = act[m] /\ (m \in managers' <=> m \in managers)
        /\ act'[i] # "absent" /\ (i \in managers' => act'[i] = "Active")
        /\ UNCHANGED <<task, updating>>
    <3>1. CASE OnUnitFailed(i)
      BY <2>1, <3>1 DEF OnUnitFailed, TypeOK
    <3>2. CASE OnUnitProgress(i)
      BY <2>1, <3>2 DEF OnUnitProgress
    <3>3. CASE OnVolumesCreated(i)
      BY <2>1, <3>3 DEF OnVolumesCreated
    <3>4. CASE OnFlashWriteSuccess(i)
      BY <2>1, <3>4 DEF OnFlashWriteSuccess, TypeOK
    <3> QED
      BY <1>10, <3>1, <3>2, <3>3, <3>4 DEF OnStateChanges
  <2>3. ASSUME NEW m \in Ids PROVE ManagerInv(m)'
    <3>1. ManagerInv(m)
      BY DEF ManagersOK
    <3>2. CASE m = i
      BY <2>1, <2>2, <3>1, <3>2 DEF ManagerInv
    <3>3. CASE m # i
      BY <2>2, <3>1, <3>3 DEF ManagerInv
    <3> QED
      BY <3>2, <3>3
  <2> QED
    BY <2>2, <2>3 DEF ManagersOK, TasksDiffer
<1>11. CASE \/ Dispatch \/ (\E i \in Ids : SetFlashId(i))
            \/ (\E u \in Units, r \in Results : JobEnd(u, r)) \/ UNCHANGED vars
  BY <1>11 DEF Dispatch, SetFlashId, JobEnd, vars, ManagersOK, ManagerInv, TasksDiffer
<1> QED
  BY <1>1, <1>2, <1>3, <1>4, <1>5, <1>6, <1>7, <1>8, <1>9, <1>10, <1>11
     DEF Next, Client, Daemon, Systemd

\* At start-up nothing is being processed, and managers belong to versions.
LEMMA ManagersInit == Init => ManagersOK
<1> SUFFICES ASSUME Init PROVE ManagersOK
  OBVIOUS
<1>1. updating = {} /\ task = [i \in Ids |-> None]
  BY DEF Init
<1>2. \A m \in managers : act[m] = "Active"
  <2>1. PICK running \in Ids, installed \in SUBSET Ids :
          /\ act = [i \in Ids |-> IF i \in installed THEN "Active" ELSE "absent"]
          /\ managers = IF UseUpdateDBusInterface
                        THEN IF installed = {running} THEN installed
                             ELSE installed \ {running}
                        ELSE {}
    BY DEF Init
  <2> QED
    BY <2>1
<1> QED
  BY <1>1, <1>2, ConstantsAssumption DEF ManagersOK, ManagerInv, TasksDiffer

\* OneImagePerManager: startUpdate refuses a manager that is busy, and every
\* end of processImage frees exactly the manager it belongs to.
THEOREM OneImageAtATime ==
  ASSUME UseUpdateDBusInterface
  PROVE  Spec => []OneImagePerManager
<1>1. TypeOK /\ ManagersOK => OneImagePerManager
  BY DEF TypeOK, ManagersOK, ManagerInv, TasksDiffer, OneImagePerManager
<1>2. TypeOK /\ Consistent /\ ManagersOK /\ [Next]_vars => ManagersOK'
  BY ManagersStep
<1> QED
  BY <1>1, <1>2, ManagersInit, InvariantHolds, PTL DEF Spec

-----------------------------------------------------------------------------
(* Claiming a priority.                                                    *)

\* Below the largest value nothing wraps: the images of B go up by one, B has
\* one of each value of the chain, and no other image is in the chain.
LEMMA BumpedUp ==
  ASSUME TypeOK, NoneLargest, NEW i \in Ids, NEW value \in Priorities,
         NEW B \in Bumps(i, value), NEW t, ClaimPriority(i, value, B, t)
  PROVE  /\ B \subseteq Others(i) /\ prio'[i] = value
         /\ \A j \in B : prio[j] >= value /\ prio'[j] = prio[j] + 1
         /\ \A j \in Ids \ (B \cup {i}) : prio'[j] = prio[j]
<1>1. B \subseteq Others(i) /\ \A j \in B : prio[j] \in Chain(i, value)
  BY DEF Bumps
<1>2. \A j \in B : prio[j] \in Priorities /\ prio[j] # PrioLimit - 1 /\ prio[j] >= value
  BY <1>1 DEF Others, Ranked, TypeOK, NoneLargest, Chain
<1>3. \A p \in Priorities : p # PrioLimit - 1 => (p + 1) % PrioLimit = p + 1
  BY ConstantsAssumption DEF Priorities
<1>4. \A j \in B : (prio[j] + 1) % PrioLimit = prio[j] + 1
  BY <1>2, <1>3
<1> QED
  BY <1>1, <1>2, <1>4 DEF ClaimPriority, Bumped, Others, Ranked

\* The value after a bumped image's is free, or its image is bumped as well.
LEMMA ClaimDistinct ==
  ASSUME TypeOK, NoneLargest, Distinct, NEW i \in Ids, NEW value \in Priorities,
         AssignPriority(i, value)
  PROVE  Distinct'
<1>1. PICK B \in Bumps(i, value), t \in FreePriorityTargets(i, value) :
        ClaimPriority(i, value, B, t)
  BY DEF AssignPriority
<1>2. /\ B \subseteq Others(i) /\ prio'[i] = value
      /\ \A j \in B : prio[j] >= value /\ prio'[j] = prio[j] + 1
      /\ \A j \in Ids \ (B \cup {i}) : prio'[j] = prio[j]
  BY <1>1, BumpedUp
<1>3. \A j \in Others(i) : prio[j] \in Priorities /\ prio[j] # PrioLimit - 1
  BY DEF Others, Ranked, TypeOK, NoneLargest
<1>4. ASSUME NEW k \in Others(i), prio[k] \in Chain(i, value) PROVE k \in B
  <2>1. PICK b \in B : prio[b] = prio[k]
    BY <1>4 DEF Bumps
  <2> QED
    BY <1>2, <2>1 DEF Distinct, Others, Ranked
<1>5. ASSUME NEW k \in Others(i), prio[k] = value PROVE k \in B
  <2>1. prio[k] \in Chain(i, value)
    BY <1>3, <1>5 DEF Chain, Priorities
  <2> QED
    BY <1>4, <2>1
<1>6. ASSUME NEW j \in B, NEW k \in Others(i), prio[k] = prio[j] + 1 PROVE k \in B
  <2>1. prio[j] \in Chain(i, value)
    BY DEF Bumps
  <2>2. prio[k] \in value .. PrioLimit - 1
    BY <1>2, <1>3, <1>6 DEF Priorities
  <2>3. \A m \in value .. prio[k] : m \in value .. prio[j] \/ m = prio[k]
    BY <1>2, <1>3, <1>6 DEF Priorities
  <2>4. prio[k] \in Chain(i, value)
    BY <2>1, <2>2, <2>3 DEF Chain
  <2> QED
    BY <1>4, <2>4
<1>7. \A j \in Ids \ {i} : prio'[j] # NoPrio => j \in Others(i)
  BY <1>2 DEF Others, Ranked
<1>8. ASSUME NEW j \in Ids, NEW k \in Ids, j # k, prio'[j] # NoPrio, prio'[j] = prio'[k]
      PROVE  FALSE
  <2>1. CASE j = i \/ k = i
    <3>1. PICK l \in Others(i) : prio'[l] = value /\ l # i
      BY <1>2, <1>7, <1>8, <2>1 DEF Others
    <3> QED
      BY <1>2, <1>3, <1>5, <3>1 DEF Others, Ranked, Priorities
  <2>2. CASE j # i /\ k # i
    <3>1. j \in Others(i) /\ k \in Others(i) /\ prio[j] # prio[k]
      BY <1>7, <1>8, <2>2 DEF Distinct, Others, Ranked
    <3>2. j \in B <=> k \notin B
      BY <1>2, <1>3, <1>8, <3>1 DEF Priorities, Others, Ranked
    <3>3. CASE j \in B
      BY <1>2, <1>3, <1>6, <1>8, <3>1, <3>2, <3>3 DEF Others, Ranked
    <3>4. CASE k \in B
      BY <1>2, <1>3, <1>6, <1>8, <3>1, <3>2, <3>4 DEF Others, Ranked
    <3> QED
      BY <3>2, <3>3, <3>4
  <2> QED
    BY <2>1, <2>2
<1> QED
  BY <1>8 DEF Distinct

\* The image chosen before anything is bumped is still the lowest afterwards:
\* only images at or above the requested value move.
LEMMA ClaimLowest ==
  ASSUME TypeOK, NoneLargest, NEW i \in Ids, NEW value \in Priorities,
         AssignPriority(i, value)
  PROVE  BootRequestIsLowest'
<1>1. PICK B \in Bumps(i, value), t \in FreePriorityTargets(i, value) :
        ClaimPriority(i, value, B, t)
  BY DEF AssignPriority
<1>2. /\ B \subseteq Others(i) /\ prio'[i] = value
      /\ \A j \in B : prio[j] >= value /\ prio'[j] = prio[j] + 1
      /\ \A j \in Ids \ (B \cup {i}) : prio'[j] = prio[j]
  BY <1>1, BumpedUp
<1>3. bootRequest' = t
  BY <1>1 DEF ClaimPriority
<1>4. \A j \in Others(i) : prio[j] \in Priorities
  BY DEF Others, Ranked, TypeOK
<1>5. \A j \in Others(i) : prio'[j] \in Nat /\ prio'[j] >= prio[j]
  BY <1>2, <1>4 DEF Others, Ranked, Priorities
<1>6. Ranked' \subseteq Others(i) \cup {i}
  BY <1>2 DEF Others, Ranked
<1>7. CASE \A j \in Others(i) : value <= prio[j]
  <2>1. t = i
    BY <1>1, <1>7 DEF FreePriorityTargets
  <2>2. \A j \in Ranked' : value <= prio'[j]
    BY <1>2, <1>4, <1>5, <1>6, <1>7 DEF Priorities
  <2> QED
    BY <1>2, <1>3, <2>1, <2>2 DEF BootRequestIsLowest, Lowest
<1>8. CASE ~ \A j \in Others(i) : value <= prio[j]
  <2>1. t \in Lowest(Others(i))
    BY <1>1, <1>8 DEF FreePriorityTargets
  <2>2. t \in Others(i) /\ \A j \in Others(i) : prio[t] <= prio[j]
    BY <2>1 DEF Lowest
  <2>3. prio[t] < value
    BY <1>4, <1>8, <2>2 DEF Priorities
  <2>4. prio'[t] = prio[t]
    BY <1>2, <1>4, <2>2, <2>3 DEF Others, Ranked, Priorities
  <2>5. \A j \in Ranked' : prio'[t] <= prio'[j]
    BY <1>2, <1>4, <1>5, <1>6, <2>2, <2>3, <2>4 DEF Priorities
  <2> QED
    BY <1>3, <2>5 DEF BootRequestIsLowest, Lowest
<1> QED
  BY <1>7, <1>8

-----------------------------------------------------------------------------
(* Erasing.  Every erase asks for a boot target; the one asked for by the  *)
(* last stands, and by then all the others have lost their priority.       *)

LEMMA LastTargetLowest ==
  ASSUME NEW V \in SUBSET Ids, NEW order \in Orders(V),
         NEW targets \in ResetChoices(V, order)
  PROVE  \/ LastTarget(V, order, targets) \in Lowest(Ranked \ V)
         \/ LastTarget(V, order, targets) = bootRequest /\ (V = {} \/ Ranked \ V = {})
<1> DEFINE n == Cardinality(V)
           last == {i \in V : order[i] = n /\ targets[i] # None}
<1>1. CASE V = {}
  BY <1>1 DEF LastTarget
<1>2. CASE V # {}
  <2>1. IsFiniteSet(V) /\ n \in Nat
    BY IdsAssumption, FS_Subset, FS_CardinalityType
  <2>2. n # 0
    BY <1>2, <2>1, FS_EmptySet
  <2>3. IsFiniteSet(1 .. n) /\ Cardinality(1 .. n) = n
    BY <2>1, <2>2, FS_Interval
  <2>4. order \in Injection(V, 1 .. n)
    BY DEF Orders, Injection, IsInjective
  <2>5. order \in Surjection(V, 1 .. n)
    BY <2>3, <2>4, FS_Injection
  <2>6. PICK i \in V : order[i] = n
    BY <2>1, <2>2, <2>5 DEF Surjection
  <2>7. ASSUME NEW k \in V, order[k] = n PROVE targets[k] \in ResetTargets(V)
    <3>1. \A j \in V : order[j] <= order[k]
      BY <2>1, <2>7 DEF Orders
    <3>2. {j \in V : order[j] <= order[k]} = V
      BY <3>1
    <3> QED
      BY <3>2 DEF ResetChoices
  <2>8. LastTarget(V, order, targets) =
          IF last = {} THEN bootRequest ELSE targets[CHOOSE k \in last : TRUE]
    BY DEF LastTarget
  <2>9. CASE Ranked \ V = {}
    <3>1. last = {}
      BY <2>7, <2>9 DEF ResetTargets
    <3> QED
      BY <2>8, <2>9, <3>1
  <2>10. CASE Ranked \ V # {}
    <3>1. \A k \in V : order[k] = n => targets[k] \in Lowest(Ranked \ V) /\ targets[k] # None
      BY <2>7, <2>10, ConstantsAssumption DEF ResetTargets, Lowest, Ranked
    <3>2. i \in last
      BY <2>6, <3>1
    <3>3. (CHOOSE k \in last : TRUE) \in last
      BY <3>2
    <3> QED
      BY <2>8, <3>1, <3>2, <3>3
  <2> QED
    BY <2>9, <2>10
<1> QED
  BY <1>1, <1>2

\* Both properties survive when images only lose their priority and the boot
\* target stays, or becomes the lowest of what is left.
LEMMA LossKeeps ==
  ASSUME NEW V \in SUBSET Ids,
         \A j \in Ids : prio'[j] = IF j \in V THEN NoPrio ELSE prio[j],
         \/ bootRequest' \in Lowest(Ranked \ V)
         \/ bootRequest' = bootRequest
  PROVE  KeepsDistinct /\ KeepsBootRequest
<1>1. Ranked' = Ranked \ V /\ \A j \in Ranked' : prio'[j] = prio[j]
  BY DEF Ranked
<1>2. Distinct => Distinct'
  BY DEF Distinct
<1>3. BootRequestIsLowest => BootRequestIsLowest'
  BY <1>1 DEF BootRequestIsLowest, Lowest
<1> QED
  BY <1>2, <1>3 DEF KeepsDistinct, KeepsBootRequest

LEMMA NoLossKeeps ==
  ASSUME UNCHANGED <<prio, bootRequest>>
  PROVE  KeepsDistinct /\ KeepsBootRequest
<1>1. {} \in SUBSET Ids /\ \A j \in Ids : prio'[j] = IF j \in {} THEN NoPrio ELSE prio[j]
  OBVIOUS
<1> QED
  BY <1>1, LossKeeps

LEMMA EraseKeeps ==
  ASSUME TypeOK, NEW V \in SUBSET Ids, Erase(V)
  PROVE  KeepsDistinct /\ KeepsBootRequest
<1>1. PICK order \in Orders(V) :
        \E targets \in ResetChoices(V, order) : EraseInOrder(V, order, targets)
  BY DEF Erase
<1>2. PICK targets \in ResetChoices(V, order) : EraseInOrder(V, order, targets)
  BY <1>1
<1>3. /\ bootRequest' = LastTarget(V, order, targets)
      /\ \A j \in Ids : prio'[j] = IF j \in V THEN NoPrio ELSE prio[j]
  BY <1>2 DEF EraseInOrder, EraseVersions, Without
<1> QED
  BY <1>3, LastTargetLowest, LossKeeps

LEMMA StartKeeps ==
  ASSUME TypeOK, NEW i \in Ids, NEW paths, StartActivating(i, paths)
  PROVE  KeepsDistinct /\ KeepsBootRequest
<1>1. CASE Refuse(i, paths)
  <2>1. UNCHANGED <<prio, bootRequest>>
    BY <1>1 DEF Refuse
  <2> QED
    BY <2>1, NoLossKeeps
<1>2. ASSUME NEW V \in FreeSpaceVictims(i), NEW order \in FreeSpaceOrders(V),
             NEW targets \in ResetChoices(V, order),
             StartWriting(i, paths, V, order, targets)
      PROVE  KeepsDistinct /\ KeepsBootRequest
  <2>1. V \in SUBSET Ids /\ order \in Orders(V)
    BY DEF FreeSpaceVictims, Queue, Occupying, FreeSpaceOrders
  <2>2. /\ bootRequest' = LastTarget(V, order, targets)
        /\ \A j \in Ids : prio'[j] = IF j \in V THEN NoPrio ELSE prio[j]
    BY <1>2 DEF StartWriting, EraseVersions, Without
  <2> QED
    BY <2>1, <2>2, LastTargetLowest, LossKeeps
<1> QED
  BY <1>1, <1>2 DEF StartActivating

\* Every step keeps the priorities apart and the boot target the lowest.
LEMMA PriorityStep == TypeOK /\ [Next]_vars => KeepsDistinct /\ KeepsBootRequest
<1> SUFFICES ASSUME TypeOK, [Next]_vars PROVE KeepsDistinct /\ KeepsBootRequest
  OBVIOUS
<1> USE DEF systemVars, busVars, objectVars, mapVars
<1>1. ASSUME UNCHANGED <<prio, bootRequest>> PROVE KeepsDistinct /\ KeepsBootRequest
  BY <1>1, NoLossKeeps
<1>2. ASSUME NEW i \in Ids, NEW value \in Priorities, AssignPriority(i, value)
      PROVE  KeepsDistinct /\ KeepsBootRequest
  BY <1>2, ClaimDistinct, ClaimLowest DEF KeepsDistinct, KeepsBootRequest
<1>3. ASSUME NEW i \in Ids,
             \/ WithdrawRequest(i) \/ SetFlashId(i) \/ \E k \in Ids : StartUpdate(k, i)
             \/ \E state \in {"Ready", "Invalid"} : CreateActivation(i, state)
      PROVE  KeepsDistinct /\ KeepsBootRequest
  BY <1>1, <1>3 DEF WithdrawRequest, SetFlashId, StartUpdate, CreateActivation
<1>4. ASSUME NEW i \in Ids, RequestActivation(i) PROVE KeepsDistinct /\ KeepsBootRequest
  BY <1>1, <1>4, StartKeeps DEF RequestActivation
<1>5. ASSUME NEW i \in Ids, NEW value \in ClientPriorities, SetPriority(i, value)
      PROVE  KeepsDistinct /\ KeepsBootRequest
  BY <1>2, <1>5, ConstantsAssumption DEF SetPriority
<1>6. ASSUME NEW i \in Ids, DeleteVersion(i) PROVE KeepsDistinct /\ KeepsBootRequest
  BY <1>6, EraseKeeps DEF DeleteVersion
<1>7. CASE DeleteAll
  BY <1>7, EraseKeeps DEF DeleteAll
<1>8. ASSUME NEW i \in Ids, RejectImage(i) PROVE KeepsDistinct /\ KeepsBootRequest
  BY <1>8, EraseKeeps DEF RejectImage, RejectedObject
<1>9. ASSUME NEW i \in Ids, AcceptImage(i) PROVE KeepsDistinct /\ KeepsBootRequest
  BY <1>1, <1>9, StartKeeps DEF AcceptImage
<1>10. ASSUME NEW i \in Ids, OnStateChanges(i) PROVE KeepsDistinct /\ KeepsBootRequest
  <2>1. 0 \in Priorities
    BY ConstantsAssumption DEF Priorities
  <2>2. CASE OnUnitFailed(i)
    <3>1. /\ \A j \in Ids : prio'[j] = IF j \in {i} THEN NoPrio ELSE prio[j]
          /\ bootRequest' = bootRequest
      BY <2>2 DEF OnUnitFailed, TypeOK
    <3> QED
      BY <3>1, LossKeeps
  <2>3. CASE OnUnitProgress(i) \/ OnVolumesCreated(i) \/ OnFlashWriteSuccess(i)
    BY <1>1, <1>2, <2>1, <2>3 DEF OnUnitProgress, OnVolumesCreated, OnFlashWriteSuccess
  <2> QED
    BY <1>10, <2>2, <2>3 DEF OnStateChanges
<1>11. CASE Dispatch \/ (\E u \in Units, r \in Results : JobEnd(u, r)) \/ UNCHANGED vars
  BY <1>1, <1>11 DEF Dispatch, JobEnd, vars
<1> QED
  BY <1>3, <1>4, <1>5, <1>6, <1>7, <1>8, <1>9, <1>10, <1>11
     DEF Next, Client, Daemon, Systemd

\* FreePriorityKeepsDistinct: for any number of images and any requested value,
\* freePriority's bumping leaves no two images with one priority.
THEOREM PrioritiesApart == Spec => FreePriorityKeepsDistinct
<1>1. TypeOK /\ [Next]_vars => KeepsDistinct
  BY PriorityStep
<1> QED
  BY <1>1, TypeCorrect, PTL DEF Spec, FreePriorityKeepsDistinct

\* BootRequestStaysLowest: the image freePriority and resetUbootEnvVars choose
\* before they change anything is the one with the lowest priority afterwards.
THEOREM LowestBoots == Spec => BootRequestStaysLowest
<1>1. TypeOK /\ [Next]_vars => KeepsBootRequest
  BY PriorityStep
<1> QED
  BY <1>1, TypeCorrect, PTL DEF Spec, BootRequestStaysLowest

-----------------------------------------------------------------------------
(* Making room.                                                            *)

\* Of the other installed images freeSpace leaves at most MaxAllowed - 1, or
\* only what it may not remove.
LEMMA VictimsLeaveRoom ==
  ASSUME NEW i \in Ids, NEW V \in FreeSpaceVictims(i)
  PROVE  LET left == (Occupying \ {i}) \ V
         IN  \/ Cardinality(left) <= MaxAllowed - 1
             \/ left \subseteq functional /\ MaxAllowed > 1
<1> DEFINE C    == Occupying \ {i}
           left == C \ V
<1>1. IsFiniteSet(Occupying) /\ Cardinality(Occupying) \in Nat
  BY IdsAssumption, FS_Subset, FS_CardinalityType DEF Occupying
<1>2. IsFiniteSet(C) /\ Cardinality(C) \in Nat /\ Cardinality(C) <= Cardinality(Occupying)
  <2>1. C \in SUBSET Occupying
    OBVIOUS
  <2> QED
    BY <1>1, <2>1, FS_Subset, FS_CardinalityType
<1>3. V \subseteq Queue(i) /\ Queue(i) \subseteq C
  BY DEF FreeSpaceVictims, Queue
<1>4. IsFiniteSet(left) /\ Cardinality(left) = Cardinality(C) - Cardinality(V)
  <2>1. C \cap V = V
    BY <1>3
  <2> HIDE DEF C
  <2> QED
    BY <1>2, <2>1, FS_Difference
<1>5. IsFiniteSet(V) /\ Cardinality(V) \in Nat
  <2>1. V \in SUBSET C
    BY <1>3
  <2> QED
    BY <1>2, <2>1, FS_Subset, FS_CardinalityType
<1>6. MaxAllowed \in Nat \ {0} /\ Surplus = Cardinality(Occupying) - (MaxAllowed - 1)
  BY ConstantsAssumption DEF Surplus
<1>7. CASE Cardinality(V) = Surplus
  BY <1>1, <1>2, <1>4, <1>5, <1>6, <1>7
<1>8. CASE V = Queue(i)
  <2>1. \A j \in left : Protected(j)
    BY <1>8 DEF Queue
  <2>2. CASE left = {}
    BY <1>6, <2>2, FS_EmptySet
  <2>3. CASE left # {}
    BY <2>1, <2>3 DEF Protected
  <2> QED
    BY <2>2, <2>3
<1>9. CASE Surplus < 0 /\ V = {}
  BY <1>1, <1>2, <1>4, <1>5, <1>6, <1>9
<1> QED
  BY <1>7, <1>8, <1>9 DEF FreeSpaceVictims

LEMMA StartMakesRoom ==
  ASSUME TypeOK, NEW i \in Ids, NEW paths, StartActivating(i, paths)
  PROVE  MakesRoom
<1>1. CASE Refuse(i, paths)
  BY <1>1 DEF Refuse, TypeOK, MakesRoom
<1>2. ASSUME NEW V \in FreeSpaceVictims(i), NEW order, NEW targets,
             StartWriting(i, paths, V, order, targets)
      PROVE  MakesRoom
  <2>1. V \subseteq Occupying \ {i}
    BY DEF FreeSpaceVictims, Queue
  <2>2. \A j \in Ids : act'[j] = IF j = i THEN "Activating"
                                 ELSE IF j \in V THEN "absent" ELSE act[j]
    BY <1>2 DEF StartWriting, Without
  <2>3. {j \in Ids \ {i} : act'[j] \in {"Active", "Failed"}} = (Occupying \ {i}) \ V
    BY <2>1, <2>2 DEF Occupying
  <2>4. LeavesRoom(i)
    BY <2>3, VictimsLeaveRoom DEF LeavesRoom
  <2> QED
    BY <2>2, <2>4 DEF MakesRoom
<1> QED
  BY <1>1, <1>2 DEF StartActivating

\* FreeSpaceMakesRoom: however many images are installed, failed or running,
\* freeSpace counts right.
THEOREM RoomMade == Spec => FreeSpaceMakesRoom
<1>1. TypeOK /\ [Next]_vars => MakesRoom
  <2> SUFFICES ASSUME TypeOK, [Next]_vars PROVE MakesRoom
    OBVIOUS
  <2>1. ASSUME \A j \in Ids : act'[j] # "Activating" \/ act'[j] = act[j] PROVE MakesRoom
    BY <2>1 DEF MakesRoom
  <2>2. ASSUME NEW i \in Ids, RequestActivation(i) PROVE MakesRoom
    BY <2>1, <2>2, StartMakesRoom DEF RequestActivation
  <2>3. ASSUME NEW i \in Ids, AcceptImage(i) PROVE MakesRoom
    BY <2>1, <2>3, StartMakesRoom DEF AcceptImage, TypeOK
  <2>4. ASSUME NEW V \in SUBSET Ids, Erase(V) PROVE MakesRoom
    BY <2>1, <2>4, EraseImage
  <2>5. ASSUME NEW i \in Ids, RejectImage(i) \/ DeleteVersion(i) PROVE MakesRoom
    BY <2>4, <2>5 DEF RejectImage, RejectedObject, DeleteVersion
  <2>6. CASE DeleteAll
    BY <2>4, <2>6 DEF DeleteAll
  <2>7. ASSUME NEW i \in Ids,
               \/ WithdrawRequest(i) \/ OnStateChanges(i) \/ SetFlashId(i)
               \/ \E k \in Ids : StartUpdate(k, i)
               \/ \E state \in {"Ready", "Invalid"} : CreateActivation(i, state)
               \/ \E value \in ClientPriorities : SetPriority(i, value)
        PROVE  MakesRoom
    BY <2>1, <2>7 DEF WithdrawRequest, OnStateChanges, OnUnitFailed, OnUnitProgress,
       OnVolumesCreated, OnFlashWriteSuccess, SetFlashId, StartUpdate,
       CreateActivation, SetPriority, objectVars, TypeOK
  <2>8. CASE Dispatch \/ (\E u \in Units, r \in Results : JobEnd(u, r)) \/ UNCHANGED vars
    BY <2>1, <2>8 DEF Dispatch, JobEnd, vars, objectVars
  <2> QED
    BY <2>2, <2>3, <2>5, <2>6, <2>7, <2>8 DEF Next, Client, Daemon, Systemd
<1> QED
  BY <1>1, TypeCorrect, PTL DEF Spec, FreeSpaceMakesRoom

-----------------------------------------------------------------------------
(* The loop of freePriority.  It is a recursive function, so what it does  *)
(* is proved by induction on the number of turns, written with the set of  *)
(* the numbers for which a fact holds.                                     *)

\* A set of natural numbers that is not empty has a least one.
LEMMA LeastIn ==
  ASSUME NEW S \in SUBSET Nat, S # {}
  PROVE  \E x \in S : \A y \in S : x <= y
<1> DEFINE Less == {pair \in Nat \X Nat : pair[1] < pair[2]}
<1>1. IsWellFoundedOn(Less, Nat)
  <2>1. Less = OpToRel(<, Nat)
    BY DEF OpToRel
  <2> QED
    BY <2>1, NatLessThanWellFounded
<1>2. PICK x \in S : \A y \in S : ~ (<<y, x>> \in Less)
  <2> HIDE DEF Less
  <2> QED
    BY <1>1, WFMin
<1>3. \A y \in S : x <= y
  <2> TAKE y \in S
  <2>1. ~ (y < x)
    BY <1>2
  <2> QED
    BY <2>1
<1> QED
  BY <1>3

\* A set that has 0 and the successor of each of its members has every number.
LEMMA Induction ==
  ASSUME NEW N \in Nat, NEW S, 0 \in S, \A n \in S \cap (0 .. N - 1) : n + 1 \in S
  PROVE  0 .. N \subseteq S
<1> DEFINE Left == (0 .. N) \ S
<1> SUFFICES ASSUME Left # {} PROVE FALSE
  OBVIOUS
<1>1. PICK n \in Left : \A m \in Left : n <= m
  <2>1. Left \in SUBSET Nat
    OBVIOUS
  <2> QED
    BY ONLY <2>1, Left # {}, LeastIn
<1>2. n # 0 /\ n - 1 \in S \cap (0 .. N - 1)
  BY <1>1
<1>3. (n - 1) + 1 = n
  BY <1>1
<1> QED
  BY <1>1, <1>2, <1>3

\* The loop starts from the value asked for and takes one turn for each image.
LEMMA TurnByTurn ==
  ASSUME NEW value, NEW order, Len(order) \in Nat
  PROVE  /\ Turns(value, order)[0] = [free |-> value, bumped |-> {}]
         /\ \A n \in 1 .. Len(order) :
              Turns(value, order)[n] = Turn(value, Turns(value, order)[n - 1], order[n])
<1> DEFINE N == Len(order)
           Equation(f, n) ==
             f = [k \in 0 .. n |-> IF k = 0 THEN [free |-> value, bumped |-> {}]
                                   ELSE Turn(value, f[k - 1], order[k])]
           Solved == {n \in Nat : \E f : Equation(f, n)}
<1>1. 0 \in Solved
  <2>1. Equation([k \in {0} |-> [free |-> value, bumped |-> {}]], 0)
    OBVIOUS
  <2> QED
    BY <2>1
<1>2. \A n \in Solved \cap (0 .. N - 1) : n + 1 \in Solved
  <2> TAKE n \in Solved \cap (0 .. N - 1)
  <2>1. PICK f : Equation(f, n)
    OBVIOUS
  <2> DEFINE g == [k \in 0 .. n + 1 |-> IF k = n + 1 THEN Turn(value, f[n], order[n + 1])
                                        ELSE f[k]]
  <2>2. \A k \in 0 .. n : g[k] = f[k]
    OBVIOUS
  <2>3. \A k \in 0 .. n + 1 :
          g[k] = IF k = 0 THEN [free |-> value, bumped |-> {}]
                 ELSE Turn(value, g[k - 1], order[k])
    <3> TAKE k \in 0 .. n + 1
    <3>1. CASE k = n + 1
      BY <3>1, <2>2
    <3>2. CASE k \in 0 .. n
      <4>1. f[k] = IF k = 0 THEN [free |-> value, bumped |-> {}]
                   ELSE Turn(value, f[k - 1], order[k])
        BY <2>1, <3>2
      <4>2. k # 0 => g[k - 1] = f[k - 1]
        BY <3>2, <2>2
      <4> QED
        BY <3>2, <4>1, <4>2, <2>2
    <3> QED
      BY <3>1, <3>2
  <2>4. Equation(g, n + 1)
    <3> HIDE DEF Solved
    <3> QED
      BY <2>3
  <2>5. n + 1 \in Nat
    OBVIOUS
  <2>6. \E h : Equation(h, n + 1)
    <3> HIDE DEF Equation, g
    <3> QED
      BY <2>4
  <2> HIDE DEF Equation
  <2> QED
    BY <2>5, <2>6
<1>3. N \in Solved
  <2> HIDE DEF Solved
  <2>1. 0 .. N \subseteq Solved
    BY <1>1, <1>2, Induction
  <2> QED
    BY <2>1
<1>4. Turns(value, order) = CHOOSE f : Equation(f, N)
  BY DEF Turns
<1>5. Equation(Turns(value, order), N)
  <2>1. \E f : Equation(f, N)
    BY <1>3
  <2> HIDE DEF Equation
  <2> QED
    BY <1>4, <2>1
<1>6. N \in Nat
  OBVIOUS
<1> QED
  <2>1. PICK f : f = Turns(value, order)
    OBVIOUS
  <2>2. \A k \in 0 .. N : f[k] = IF k = 0 THEN [free |-> value, bumped |-> {}]
                                 ELSE Turn(value, f[k - 1], order[k])
    BY <1>5, <2>1
  <2>3. f[0] = [free |-> value, bumped |-> {}]
    <3>1. 0 \in 0 .. N
      BY <1>6
    <3> QED
      BY <3>1, <2>2
  <2>4. \A n \in 1 .. N : f[n] = Turn(value, f[n - 1], order[n])
    <3> TAKE n \in 1 .. N
    <3>1. n \in 0 .. N /\ n # 0
      BY <1>6
    <3> QED
      BY <3>1, <2>2
  <2> QED
    BY <2>1, <2>3, <2>4

\* Sorting lists every other image, and each of them has a priority.
LEMMA SortedLists ==
  ASSUME TypeOK, NEW i \in Ids, NEW order \in Sorted(i)
  PROVE  /\ Len(order) \in Nat /\ DOMAIN order = 1 .. Len(order)
         /\ \A m \in 1 .. Len(order) :
              order[m] \in Others(i) /\ prio[order[m]] \in Priorities
         /\ \A j \in Others(i) : \E m \in 1 .. Len(order) : order[m] = j
<1> DEFINE N == Cardinality(Others(i))
<1>1. IsFiniteSet(Others(i)) /\ N \in Nat
  <2>1. Others(i) \in SUBSET Ids
    BY DEF Others, Ranked
  <2> QED
    BY <2>1, IdsAssumption, FS_Subset, FS_CardinalityType
<1>2. order \in [1 .. N -> Others(i)]
  BY DEF Sorted
<1>3. Len(order) = N
  <2> HIDE DEF N
  <2>1. order \in Seq(Others(i)) /\ DOMAIN order = 1 .. N
    BY <1>1, <1>2
  <2> QED
    BY <1>1, <2>1, LenProperties
<1>4. \A j \in Others(i) : \E m \in 1 .. N : order[m] = j
  <2>1. order \in Injection(1 .. N, Others(i))
    BY <1>2 DEF Sorted, Injection, IsInjective
  <2>2. Cardinality(1 .. N) = N
    BY <1>1, FS_Interval
  <2>3. order \in Surjection(1 .. N, Others(i))
    BY <1>1, <2>1, <2>2, FS_Injection
  <2> QED
    BY <2>3 DEF Surjection
<1>5. \A j \in Others(i) : prio[j] \in Priorities
  BY DEF Others, Ranked, TypeOK
<1> QED
  BY <1>1, <1>2, <1>3, <1>4, <1>5

\* Image j comes first, among the first n, of those with its value.
ComesFirst(order, n, j) ==
  \E m \in 1 .. n : order[m] = j /\ \A q \in 1 .. m - 1 : prio[order[q]] # prio[j]

\* After n turns the loop has moved an image of every value from the requested
\* one up to a first one that none of these n images has, each the first that
\* has its value.
Progress(value, order, n, loop) ==
  \E e \in value .. PrioLimit :
    /\ loop.free = e % PrioLimit
    /\ \A j \in loop.bumped : prio[j] \in value .. e - 1
    /\ \A l \in value .. e - 1 : \E j \in loop.bumped : prio[j] = l
    /\ \A m \in 1 .. n : prio[order[m]] # e
    /\ \A j \in loop.bumped : ComesFirst(order, n, j)

\* A turn makes progress.  The value after the largest is 0, which the images
\* still to come do not have: they sort after one that has the largest.
LEMMA TurnProgress ==
  ASSUME TypeOK, NEW i \in Ids, NEW value \in Priorities, NEW order \in Sorted(i),
         NEW n \in 1 .. Len(order), NEW loop, Progress(value, order, n - 1, loop)
  PROVE  Progress(value, order, n, Turn(value, loop, order[n]))
<1> DEFINE N == Len(order)
           j == order[n]
<1>1. /\ N \in Nat /\ n \in Nat /\ n - 1 \in Nat
      /\ \A m \in 1 .. N : prio[order[m]] \in Priorities
      /\ \A m \in 1 .. n - 1 : prio[order[m]] <= prio[j]
  <2>1. /\ N \in Nat /\ DOMAIN order = 1 .. N
        /\ \A m \in 1 .. N : prio[order[m]] \in Priorities
    BY SortedLists
  <2>2. \A m, k \in DOMAIN order : m < k => prio[order[m]] <= prio[order[k]]
    BY DEF Sorted
  <2> QED
    BY <2>1, <2>2
<1>2. PICK e \in value .. PrioLimit :
        /\ loop.free = e % PrioLimit
        /\ \A k \in loop.bumped : prio[k] \in value .. e - 1
        /\ \A l \in value .. e - 1 : \E k \in loop.bumped : prio[k] = l
        /\ \A m \in 1 .. n - 1 : prio[order[m]] # e
        /\ \A k \in loop.bumped : ComesFirst(order, n - 1, k)
  BY DEF Progress
<1>3. PrioLimit \in Nat /\ PrioLimit >= 2 /\ value \in Nat /\ value < PrioLimit
  BY ConstantsAssumption DEF Priorities
<1>4. /\ prio[j] \in 0 .. PrioLimit - 1
      /\ e = PrioLimit => loop.free = 0
      /\ e # PrioLimit => loop.free = e /\ e \in 0 .. PrioLimit - 1
  <2>1. \A x \in 0 .. PrioLimit - 1 : x % PrioLimit = x
    BY <1>3
  <2>2. PrioLimit % PrioLimit = 0
    BY <1>3
  <2>3. loop.free = e % PrioLimit
    BY <1>2
  <2>4. e # PrioLimit => e \in 0 .. PrioLimit - 1
    BY <1>3
  <2>5. prio[j] \in 0 .. PrioLimit - 1
    BY <1>1 DEF Priorities
  <2> QED
    BY <2>1, <2>2, <2>3, <2>4, <2>5
<1>5. CASE prio[j] = loop.free
  <2>1. e # PrioLimit
    <3> SUFFICES ASSUME e = PrioLimit PROVE FALSE
      OBVIOUS
    <3>1. loop.free = 0
      BY <1>4
    <3>2. PICK k \in loop.bumped : prio[k] = PrioLimit - 1
      <4>1. PrioLimit - 1 \in value .. e - 1
        BY ONLY <1>3, e = PrioLimit
      <4> QED
        BY <1>2, <4>1
    <3>3. PICK m \in 1 .. n - 1 : order[m] = k
      BY <1>2 DEF ComesFirst
    <3>4. prio[k] <= prio[j]
      BY <1>1, <3>3
    <3>5. prio[k] = PrioLimit - 1 /\ prio[j] = 0
      BY <1>5, <3>1, <3>2
    <3> QED
      BY ONLY <1>3, <3>4, <3>5
  <2>2. e \in 0 .. PrioLimit - 1 /\ prio[j] = e
    BY <1>4, <1>5, <2>1
  <2>3. /\ Turn(value, loop, j).free = (e + 1) % PrioLimit
        /\ Turn(value, loop, j).bumped = loop.bumped \cup {j}
    BY <1>2, <1>3, <1>5, <2>2 DEF Turn
  <2>4. e + 1 \in value .. PrioLimit
    BY <1>2, <1>3, <2>2
  <2>5. \A k \in loop.bumped \cup {j} : prio[k] \in value .. (e + 1) - 1
    BY <1>2, <1>3, <2>2
  <2>6. \A l \in value .. (e + 1) - 1 : \E k \in loop.bumped \cup {j} : prio[k] = l
    <3>1. \A l \in value .. (e + 1) - 1 : l = e \/ l \in value .. e - 1
      BY <1>3, <2>2
    <3> QED
      BY <1>2, <2>2, <3>1
  <2>7. \A m \in 1 .. n : prio[order[m]] # e + 1
    BY <1>1, <2>2 DEF Priorities
  <2>8. \A k \in loop.bumped \cup {j} : ComesFirst(order, n, k)
    <3>1. ASSUME NEW k \in loop.bumped PROVE ComesFirst(order, n, k)
      <4>1. ComesFirst(order, n - 1, k)
        BY <1>2
      <4>2. 1 .. n - 1 \subseteq 1 .. n
        BY ONLY <1>1
      <4> QED
        BY ONLY <4>1, <4>2 DEF ComesFirst
    <3>2. ComesFirst(order, n, j)
      BY <1>1, <1>2, <2>2 DEF ComesFirst
    <3> QED
      BY <3>1, <3>2
  <2> QED
    BY <2>3, <2>4, <2>5, <2>6, <2>7, <2>8 DEF Progress
<1>6. CASE prio[j] # loop.free
  <2>1. Turn(value, loop, j) = loop
    BY <1>6 DEF Turn
  <2>2. prio[j] # e
    BY <1>3, <1>4, <1>6
  <2>3. \A m \in 1 .. n : prio[order[m]] # e
    BY <1>1, <1>2, <2>2
  <2>4. ASSUME NEW k \in loop.bumped PROVE ComesFirst(order, n, k)
    <3>1. ComesFirst(order, n - 1, k)
      BY <1>2
    <3>2. 1 .. n - 1 \subseteq 1 .. n
      BY ONLY <1>1
    <3> QED
      BY ONLY <3>1, <3>2 DEF ComesFirst
  <2> QED
    BY <1>2, <2>1, <2>3, <2>4 DEF Progress
<1> QED
  BY <1>5, <1>6

\* After the last turn the moved images are one of each value of the chain.
LEMMA LoopedIsBumps ==
  ASSUME TypeOK, NEW i \in Ids, NEW value \in Priorities, NEW order \in Sorted(i)
  PROVE  /\ Looped(value, order) \in Bumps(i, value)
         /\ \A j \in Looped(value, order) : ComesFirst(order, Len(order), j)
<1> DEFINE N == Len(order)
           turn == Turns(value, order)
           Done == {n \in 0 .. N : Progress(value, order, n, turn[n])}
<1>1. /\ N \in Nat
      /\ \A m \in 1 .. N : order[m] \in Others(i)
      /\ \A j \in Others(i) : \E m \in 1 .. N : order[m] = j
      /\ turn[0] = [free |-> value, bumped |-> {}]
      /\ \A n \in 1 .. N : turn[n] = Turn(value, turn[n - 1], order[n])
  BY SortedLists, TurnByTurn
<1>2. PrioLimit \in Nat /\ value \in Nat /\ value < PrioLimit /\ value % PrioLimit = value
  BY ConstantsAssumption DEF Priorities
<1>3. N \in Done
  <2>1. 0 \in Done
    <3>1. Progress(value, order, 0, [free |-> value, bumped |-> {}])
      BY <1>2 DEF Progress
    <3> QED
      BY <1>1, <3>1
  <2>2. \A n \in Done \cap (0 .. N - 1) : n + 1 \in Done
    <3> TAKE n \in Done \cap (0 .. N - 1)
    <3>1. n + 1 \in 1 .. N /\ n + 1 \in 0 .. N /\ (n + 1) - 1 = n
      BY <1>1
    <3>2. Progress(value, order, n + 1, Turn(value, turn[n], order[n + 1]))
      BY <3>1, TurnProgress
    <3>3. turn[n + 1] = Turn(value, turn[n], order[n + 1])
      BY <1>1, <3>1
    <3> HIDE DEF turn
    <3> QED
      BY <3>1, <3>2, <3>3
  <2> HIDE DEF Done
  <2>3. 0 .. N \subseteq Done
    BY <1>1, <2>1, <2>2, Induction
  <2> QED
    BY <1>1, <2>3
<1> DEFINE B == Looped(value, order)
<1>4. B = turn[N].bumped
  BY DEF Looped
<1> HIDE DEF turn, B
<1>5. PICK e \in value .. PrioLimit :
        /\ \A j \in B : prio[j] \in value .. e - 1
        /\ \A l \in value .. e - 1 : \E j \in B : prio[j] = l
        /\ \A m \in 1 .. N : prio[order[m]] # e
        /\ \A j \in B : ComesFirst(order, N, j)
  BY <1>3, <1>4 DEF Progress
<1>6. B \subseteq Others(i)
  BY <1>1, <1>5 DEF ComesFirst
<1>7. Chain(i, value) = value .. e - 1
  <2>1. ASSUME NEW l \in Chain(i, value) PROVE l \in value .. e - 1
    <3>1. l \in value .. PrioLimit - 1 /\ \A m \in value .. l : \E j \in Others(i) : prio[j] = m
      BY DEF Chain
    <3>2. ~ \E j \in Others(i) : prio[j] = e
      BY <1>1, <1>5
    <3>3. e \notin value .. l
      BY <3>1, <3>2
    <3> QED
      BY <1>2, <3>1, <3>3
  <2>2. ASSUME NEW l \in value .. e - 1 PROVE l \in Chain(i, value)
    <3>1. l \in value .. PrioLimit - 1
      BY <1>2
    <3>2. \A m \in value .. l : m \in value .. e - 1
      BY <1>2
    <3> QED
      BY <1>5, <1>6, <3>1, <3>2 DEF Chain
  <2> QED
    BY <2>1, <2>2
<1>8. \A j, k \in B : prio[j] = prio[k] => j = k
  <2> SUFFICES ASSUME NEW j \in B, NEW k \in B, prio[j] = prio[k] PROVE j = k
    OBVIOUS
  <2>1. PICK m \in 1 .. N : order[m] = j /\ \A q \in 1 .. m - 1 : prio[order[q]] # prio[j]
    BY <1>5 DEF ComesFirst
  <2>2. PICK p \in 1 .. N : order[p] = k /\ \A q \in 1 .. p - 1 : prio[order[q]] # prio[k]
    BY <1>5 DEF ComesFirst
  <2>3. m = p \/ m \in 1 .. p - 1 \/ p \in 1 .. m - 1
    BY <1>1
  <2> QED
    BY <2>1, <2>2, <2>3
<1>9. B \in Bumps(i, value)
  BY <1>5, <1>6, <1>7, <1>8 DEF Bumps
<1> QED
  BY <1>5, <1>9 DEF B

\* A finite set can be listed in the order of any key.
LEMMA ListedByKey ==
  ASSUME NEW T, IsFiniteSet(T), NEW key \in [T -> Nat]
  PROVE  \E order \in [1 .. Cardinality(T) -> T] :
           \A m, n \in 1 .. Cardinality(T) :
             /\ m < n => key[order[m]] <= key[order[n]]
             /\ order[m] = order[n] => m = n
<1> DEFINE Lists(order, U, c) ==
             /\ order \in [1 .. c -> U]
             /\ \A m, n \in 1 .. c : /\ m < n => key[order[m]] <= key[order[n]]
                                     /\ order[m] = order[n] => m = n
           Listed == {c \in Nat : \A U \in SUBSET T :
                        Cardinality(U) = c => \E order : Lists(order, U, c)}
           N == Cardinality(T)
<1>1. N \in Nat /\ \A U \in SUBSET T : IsFiniteSet(U) /\ Cardinality(U) \in Nat
  BY FS_Subset, FS_CardinalityType
<1>2. 0 \in Listed
  <2> SUFFICES ASSUME NEW U \in SUBSET T PROVE \E order : Lists(order, U, 0)
    OBVIOUS
  <2>1. Lists([m \in 1 .. 0 |-> m], U, 0)
    OBVIOUS
  <2> HIDE DEF Lists
  <2> QED
    BY <2>1
<1>3. \A c \in Listed \cap (0 .. N - 1) : c + 1 \in Listed
  <2> TAKE c \in Listed \cap (0 .. N - 1)
  <2> SUFFICES ASSUME NEW U \in SUBSET T, Cardinality(U) = c + 1
               PROVE  \E order : Lists(order, U, c + 1)
    <3> HIDE DEF Lists
    <3> QED
      OBVIOUS
  <2>1. U # {}
    BY FS_EmptySet
  <2>2. PICK x \in U : \A y \in U : key[x] <= key[y]
    <3> DEFINE Keys == {key[y] : y \in U}
    <3>1. Keys \in SUBSET Nat /\ Keys # {}
      BY <2>1
    <3>2. PICK k \in Keys : \A l \in Keys : k <= l
      <4> HIDE DEF Keys
      <4> QED
        BY <3>1, LeastIn
    <3> QED
      BY <3>2
  <2>3. U \ {x} \in SUBSET T /\ Cardinality(U \ {x}) = c
    <3>1. IsFiniteSet(U) /\ c \in Nat
      BY <1>1
    <3>2. Cardinality(U \ {x}) = Cardinality(U) - 1
      BY ONLY <3>1, <2>2, FS_RemoveElement
    <3> QED
      BY ONLY <3>1, <3>2, Cardinality(U) = c + 1, U \in SUBSET T
  <2>4. PICK order : Lists(order, U \ {x}, c)
    <3> HIDE DEF Lists
    <3> QED
      BY <2>3
  <2> DEFINE longer == [m \in 1 .. c + 1 |-> IF m = 1 THEN x ELSE order[m - 1]]
  <2>5. \A m \in 2 .. c + 1 : m - 1 \in 1 .. c /\ longer[m] = order[m - 1]
    OBVIOUS
  <2>6. longer[1] = x /\ longer \in [1 .. c + 1 -> U]
    BY <2>4, <2>5
  <2> HIDE DEF longer
  <2>7. ASSUME NEW m \in 1 .. c + 1, NEW n \in 1 .. c + 1
        PROVE  /\ m < n => key[longer[m]] <= key[longer[n]]
               /\ longer[m] = longer[n] => m = n
    <3>1. m = 1 \/ m \in 2 .. c + 1
      OBVIOUS
    <3>2. n = 1 \/ n \in 2 .. c + 1
      OBVIOUS
    <3>3. CASE m = 1 /\ n = 1
      BY <3>3
    <3>4. CASE m = 1 /\ n \in 2 .. c + 1
      <4>1. longer[n] \in U \ {x} /\ longer[m] = x
        BY <2>4, <2>5, <2>6, <3>4
      <4> QED
        BY ONLY <2>2, <3>4, <4>1
    <3>5. CASE m \in 2 .. c + 1 /\ n = 1
      <4>1. longer[m] \in U \ {x} /\ longer[n] = x
        BY <2>4, <2>5, <2>6, <3>5
      <4>2. ~(m < n)
        BY ONLY <3>5, c \in Nat
      <4> QED
        BY ONLY <3>5, <4>1, <4>2
    <3>6. CASE m \in 2 .. c + 1 /\ n \in 2 .. c + 1
      <4>1. /\ m - 1 \in 1 .. c /\ n - 1 \in 1 .. c
            /\ longer[m] = order[m - 1] /\ longer[n] = order[n - 1]
        BY <2>5, <3>6
      <4>2. /\ m - 1 < n - 1 => key[order[m - 1]] <= key[order[n - 1]]
            /\ order[m - 1] = order[n - 1] => m - 1 = n - 1
        BY ONLY <2>4, <4>1
      <4> QED
        BY ONLY <3>6, <4>1, <4>2
    <3> QED
      BY <3>1, <3>2, <3>3, <3>4, <3>5, <3>6
  <2>8. Lists(longer, U, c + 1)
    BY <2>6, <2>7
  <2> HIDE DEF Lists
  <2> QED
    BY <2>8
<1>4. N \in Listed
  <2> HIDE DEF Listed
  <2>1. 0 .. N \subseteq Listed
    BY <1>1, <1>2, <1>3, Induction
  <2> QED
    BY <1>1, <2>1
<1>5. \E order : Lists(order, T, N)
  <2> HIDE DEF Lists
  <2> QED
    BY <1>4
<1> QED
  BY <1>5

\* Whatever the closed form moves, the loop moves in some order of the ties:
\* the one that puts the images to be moved before those they tie with.
LEMMA BumpsIsLooped ==
  ASSUME TypeOK, NEW i \in Ids, NEW value \in Priorities, NEW B \in Bumps(i, value)
  PROVE  \E order \in Sorted(i) : Looped(value, order) = B
<1> DEFINE key == [j \in Others(i) |-> 2 * prio[j] + (IF j \in B THEN 0 ELSE 1)]
<1>1. \A j \in Others(i) : prio[j] \in Nat
  BY ConstantsAssumption DEF Others, Ranked, TypeOK, Priorities
<1>2. IsFiniteSet(Others(i)) /\ key \in [Others(i) -> Nat]
  <2>1. Others(i) \in SUBSET Ids
    BY DEF Others, Ranked
  <2>2. \A j \in Others(i) : 2 * prio[j] + (IF j \in B THEN 0 ELSE 1) \in Nat
    BY <1>1
  <2> QED
    BY <2>1, <2>2, IdsAssumption, FS_Subset
<1>3. \A j, k \in Others(i) : key[j] <= key[k] =>
        prio[j] <= prio[k] /\ (prio[j] = prio[k] /\ k \in B => j \in B)
  <2> TAKE j, k \in Others(i)
  <2>1. /\ key[j] = 2 * prio[j] + (IF j \in B THEN 0 ELSE 1)
        /\ key[k] = 2 * prio[k] + (IF k \in B THEN 0 ELSE 1)
    OBVIOUS
  <2> HIDE DEF key
  <2> QED
    BY <1>1, <2>1
<1> HIDE DEF key
<1>4. PICK order \in [1 .. Cardinality(Others(i)) -> Others(i)] :
        \A m, n \in 1 .. Cardinality(Others(i)) :
          /\ m < n => key[order[m]] <= key[order[n]]
          /\ order[m] = order[n] => m = n
  BY <1>2, ListedByKey
<1>5. DOMAIN order = 1 .. Cardinality(Others(i))
  OBVIOUS
<1>6. order \in Sorted(i)
  BY <1>3, <1>4, <1>5 DEF Sorted
<1> DEFINE L == Looped(value, order)
<1>7. L \in Bumps(i, value) /\ \A j \in L : ComesFirst(order, Len(order), j)
  BY <1>6, LoopedIsBumps
<1> HIDE DEF L
<1>8. ASSUME NEW j \in L, NEW k \in B, prio[j] = prio[k] PROVE j = k
  <2>1. /\ Len(order) \in Nat /\ DOMAIN order = 1 .. Len(order)
        /\ \A p \in Others(i) : \E m \in 1 .. Len(order) : order[m] = p
    BY <1>6, SortedLists
  <2>2. j \in Others(i) /\ k \in Others(i)
    BY <1>7 DEF Bumps
  <2>3. PICK m \in 1 .. Len(order) :
          order[m] = j /\ \A q \in 1 .. m - 1 : prio[order[q]] # prio[j]
    BY <1>7 DEF ComesFirst
  <2>4. PICK n \in 1 .. Len(order) : order[n] = k
    BY <2>1, <2>2
  <2>5. m < n \/ m = n
    BY <1>8, <2>1, <2>3, <2>4
  <2>6. CASE m < n
    <3>1. key[j] <= key[k]
      BY <1>4, <1>5, <2>1, <2>3, <2>4, <2>6
    <3>2. j \in B
      BY <1>3, <1>8, <2>2, <3>1
    <3> QED
      BY <1>8, <3>2 DEF Bumps
  <2> QED
    BY <2>3, <2>4, <2>5, <2>6
<1>9. L \subseteq B /\ B \subseteq L
  <2>1. ASSUME NEW j \in L PROVE j \in B
    <3>1. PICK k \in B : prio[k] = prio[j]
      BY <1>7 DEF Bumps
    <3> QED
      BY <1>8, <3>1
  <2>2. ASSUME NEW k \in B PROVE k \in L
    <3>1. PICK j \in L : prio[j] = prio[k]
      BY <1>7 DEF Bumps
    <3> QED
      BY <1>8, <3>1
  <2> QED
    BY <2>1, <2>2
<1>10. Looped(value, order) = B
  BY <1>9 DEF L
<1> QED
  BY <1>6, <1>10

\* BumpsAreTheLoops: for any number of images and any priorities, the sets that
\* ItemUpdater moves are those the loop moves.
THEOREM LoopsAreBumps == Spec => []BumpsAreTheLoops
<1>1. TypeOK => BumpsAreTheLoops
  <2> SUFFICES ASSUME TypeOK, NEW i \in Ids, NEW value \in Priorities
               PROVE  {Looped(value, order) : order \in Sorted(i)} = Bumps(i, value)
    BY DEF BumpsAreTheLoops
  <2>1. \A order \in Sorted(i) : Looped(value, order) \in Bumps(i, value)
    BY LoopedIsBumps
  <2>2. \A B \in Bumps(i, value) : \E order \in Sorted(i) : Looped(value, order) = B
    BY BumpsIsLooped
  <2> QED
    BY <2>1, <2>2
<1> QED
  BY <1>1, TypeCorrect, PTL
=============================================================================
