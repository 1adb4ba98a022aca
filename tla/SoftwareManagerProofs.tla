----------------------- MODULE SoftwareManagerProofs -----------------------
(* Proofs about SoftwareManager, for any set of configurations.            *)
EXTENDS SoftwareManager, SequenceTheorems, TLAPS

\* Every record of a suspended task carries its path, and the devices that
\* are being updated are in the map.
LEMMA TypeInit == Init => TypeOK
BY DEF Init, TypeOK, Adders, Waiting, Suspended

\* One step of any task, of EntityManager or of an update keeps the types.
LEMMA TypeStep == TypeOK /\ [Next]_vars => TypeOK'
<1> SUFFICES ASSUME TypeOK, [Next]_vars PROVE TypeOK'
  OBVIOUS
<1> USE DEF TypeOK
<1>1. ASSUME NEW p \in Paths, AddConfig(p) PROVE TypeOK'
  <2>1. Append(added, p) \in Seq(Paths)
    BY AppendProperties
  <2> QED
    BY <1>1, <2>1 DEF AddConfig
<1>2. ASSUME NEW p \in Paths, RemoveConfig(p) PROVE TypeOK'
  <2>1. Append(removed, p) \in Seq(Paths)
    BY AppendProperties
  <2> QED
    BY <1>2, <2>1 DEF RemoveConfig
<1>3. CASE GetSubTree
  BY <1>3 DEF GetSubTree, Waiting, Adders
<1>4. ASSUME NEW t \in Adders, NEW p \in Paths, HandleInterfaceAdded(t, p)
      PROVE  /\ configured' \in SUBSET Paths /\ removed' \in Seq(Paths)
             /\ adder' \in [Adders -> Suspended \cup
                               {Waiting(at) : at \in {"idle", "mapper", "reply"}}]
             /\ initializingPaths' \in SUBSET Paths /\ devices' \in SUBSET Paths
             /\ updating' \in SUBSET devices' /\ refused' \in SUBSET Paths
  <2>1. [at |-> "getConfig", path |-> p] \in Suspended
    BY DEF Suspended
  <2> QED
    BY <1>4, <2>1 DEF HandleInterfaceAdded
<1>5. ASSUME NEW p \in Paths, HandleFound(p) PROVE TypeOK'
  BY <1>4, <1>5 DEF HandleFound, Adders
<1>6. CASE HandleAddedSignal
  <2>1. Head(added) \in Paths /\ Tail(added) \in Seq(Paths)
    BY <1>6, HeadTailProperties DEF HandleAddedSignal
  <2> QED
    BY <1>4, <1>6, <2>1 DEF HandleAddedSignal, Adders
<1>7. ASSUME NEW t \in Adders, Resume(t) PROVE TypeOK'
  <2>1. adder[t] \in Suspended
    BY <1>7 DEF Resume, RefuseConfig, GetConfig, InitDevice, DeviceAdded, Waiting
  <2>2. adder[t].path \in Paths
    BY <2>1 DEF Suspended
  <2>3. CASE RefuseConfig(t)
    BY <2>2, <2>3 DEF RefuseConfig, EndHandling, InitializingAfter, Waiting
  <2>4. CASE GetConfig(t)
    BY <2>1, <2>4 DEF GetConfig, Suspended
  <2>5. CASE InitDevice(t)
    BY <2>1, <2>2, <2>5 DEF InitDevice, Suspended
  <2>6. CASE DeviceAdded(t)
    BY <2>6 DEF DeviceAdded, EndHandling, InitializingAfter, Waiting
  <2> QED
    BY <1>7, <2>3, <2>4, <2>5, <2>6 DEF Resume
<1>8. CASE HandleInterfaceRemoved
  <2>1. Tail(removed) \in Seq(Paths)
    BY <1>8, HeadTailProperties DEF HandleInterfaceRemoved
  <2> QED
    BY <1>8, <2>1 DEF HandleInterfaceRemoved, MayRemove
<1>9. ASSUME NEW p \in Paths, StartUpdate(p) \/ EndUpdate(p) PROVE TypeOK'
  BY <1>9 DEF StartUpdate, EndUpdate
<1>10. CASE UNCHANGED vars
  BY <1>10 DEF vars
<1> QED
  BY <1>1, <1>2, <1>3, <1>5, <1>6, <1>7, <1>8, <1>9, <1>10 DEF Next

\* TypeOK: in particular a device that is being updated is in the map.
THEOREM TypeCorrect == Spec => []TypeOK
BY TypeInit, TypeStep, PTL DEF Spec

\* InitializedOnce is inductive with TypeOK: a task begins to initialise a path
\* only when no other has it, and marks it for as long as it works on it.
LEMMA OnceStep == TypeOK /\ InitializedOnce /\ [Next]_vars => InitializedOnce'
<1> SUFFICES ASSUME TypeOK, InitializedOnce, [Next]_vars PROVE InitializedOnce'
  OBVIOUS
<1>1. ASSUME UNCHANGED <<adder, initializingPaths>>, devices' \subseteq devices
      PROVE  InitializedOnce'
  BY <1>1 DEF InitializedOnce, Busy
<1>2. CASE GetSubTree
  <2>1. adder["initDevices"] \notin Suspended
    BY <1>2 DEF GetSubTree, Suspended
  <2>2. Busy' = Busy /\ \A t \in Busy : adder'[t] = adder[t]
    BY <1>2, <2>1 DEF GetSubTree, Busy, Waiting, TypeOK, Adders
  <2> QED
    BY <1>2, <2>2 DEF GetSubTree, InitializedOnce
<1>3. ASSUME NEW t \in Adders, NEW p \in Paths, HandleInterfaceAdded(t, p)
      PROVE  InitializedOnce'
  <2>1. CASE p \in Known
    BY <1>1, <1>3, <2>1 DEF HandleInterfaceAdded
  <2>2. CASE p \notin Known
    <3>1. /\ Busy' = Busy \cup {t} /\ t \notin Busy
          /\ adder'[t].path = p /\ \A u \in Busy : adder'[u] = adder[u]
      BY <1>3, <2>2 DEF HandleInterfaceAdded, Busy, TypeOK
    <3> QED
      BY <1>3, <2>2, <3>1 DEF HandleInterfaceAdded, InitializedOnce, Known
  <2> QED
    BY <2>1, <2>2
<1>4. ASSUME NEW t \in Adders, EndHandling(t), t \in Busy, UNCHANGED devices
      PROVE  InitializedOnce'
  <2>1. Busy' = Busy \ {t} /\ \A u \in Busy \ {t} : adder'[u] = adder[u]
    BY <1>4 DEF EndHandling, Busy, Waiting, TypeOK
  <2> QED
    BY <1>4, <2>1 DEF EndHandling, InitializingAfter, InitializedOnce
<1>5. ASSUME NEW t \in Adders, Resume(t) PROVE InitializedOnce'
  <2>1. t \in Busy
    BY <1>5 DEF Resume, RefuseConfig, GetConfig, InitDevice, DeviceAdded, Busy
  <2>2. CASE RefuseConfig(t)
    BY <1>4, <2>1, <2>2 DEF RefuseConfig
  <2>3. CASE GetConfig(t) \/ InitDevice(t)
    <3>1. /\ adder[t] \in Suspended
          /\ adder'[t].path = adder[t].path
          /\ \A u \in Adders \ {t} : adder'[u] = adder[u]
      BY <2>3 DEF GetConfig, InitDevice, Suspended, Waiting, TypeOK
    <3>2. Busy' = Busy /\ adder'[t].at \in {"initDevice", "device"}
      BY <2>1, <2>3, <3>1 DEF GetConfig, InitDevice, Busy, TypeOK, Suspended
    <3>3. \/ devices' = devices /\ adder[t].at # "device"
          \/ devices' = devices \cup {adder[t].path} /\ adder'[t].at = "device"
      BY <2>3, <3>1 DEF GetConfig, InitDevice, Suspended, TypeOK
    <3>4. \A u \in Busy : adder'[u].path = adder[u].path
      BY <3>1 DEF Busy
    <3>5. initializingPaths' = initializingPaths
      BY <2>3 DEF GetConfig, InitDevice
    <3>6. \A u \in Busy : adder'[u].at # "device" => adder'[u].path \notin devices'
      BY <2>1, <3>1, <3>2, <3>3, <3>4 DEF InitializedOnce, Busy
    <3> QED
      BY <3>2, <3>4, <3>5, <3>6 DEF InitializedOnce
  <2>4. CASE DeviceAdded(t)
    BY <1>4, <2>1, <2>4 DEF DeviceAdded
  <2> QED
    BY <1>5, <2>2, <2>3, <2>4 DEF Resume
<1>6. ASSUME NEW p \in Paths,
             AddConfig(p) \/ RemoveConfig(p) \/ StartUpdate(p) \/ EndUpdate(p)
      PROVE  InitializedOnce'
  BY <1>1, <1>6 DEF AddConfig, RemoveConfig, StartUpdate, EndUpdate
<1>7. ASSUME NEW p \in Paths, HandleFound(p) PROVE InitializedOnce'
  BY <1>3, <1>7 DEF HandleFound, Adders
<1>8. CASE HandleAddedSignal
  <2>1. Head(added) \in Paths
    BY <1>8, HeadTailProperties DEF HandleAddedSignal, TypeOK
  <2> QED
    BY <1>3, <1>8, <2>1 DEF HandleAddedSignal, Adders
<1>9. CASE HandleInterfaceRemoved
  BY <1>1, <1>9 DEF HandleInterfaceRemoved
<1>10. CASE UNCHANGED vars
  BY <1>1, <1>10 DEF vars
<1> QED
  BY <1>2, <1>5, <1>6, <1>7, <1>8, <1>9, <1>10 DEF Next

\* InitializedOnce: two tasks never initialise the same device, and the second
\* look at devices in handleInterfaceAddedGuarded never finds anything.
THEOREM NeverTwice == Spec => []InitializedOnce
<1>1. Init => InitializedOnce
  BY DEF Init, InitializedOnce, Busy, Waiting, Adders
<1> QED
  BY <1>1, TypeInit, TypeStep, OnceStep, PTL DEF Spec

(***************************************************************************)
(* Where a configuration that is there to stay may be, from the moment it  *)
(* appears: not yet asked for, found by the look-up, in a signal, marked   *)
(* by the task that works on it, or handled.                               *)
(***************************************************************************)
InAdded(p) == \E i \in DOMAIN added : added[i] = p

Reached(p) ==
  \/ adder["initDevices"].at = "mapper"
  \/ p \in found \/ InAdded(p) \/ p \in initializingPaths
  \/ p \in devices \cup refused

\* Nothing withdraws a configuration that stays, so its device is not removed
\* either, and a task that has created its device still finds it there.
StaysAdded ==
  /\ \A i \in DOMAIN removed : removed[i] \in Removable
  /\ \A t \in Adders : adder[t].at = "device" => adder[t].path \in devices \cup Removable

Accounted == StaysAdded /\ \A p \in configured \ Removable : Reached(p)

\* handleInterfaceAdded answers for the path it is called with and forgets no
\* other.
LEMMA AddedReaches ==
  ASSUME TypeOK, Accounted, NEW t \in Adders, NEW p \in Paths,
         HandleInterfaceAdded(t, p)
  PROVE  /\ StaysAdded'
         /\ p \in initializingPaths' \cup devices'
         /\ initializingPaths \subseteq initializingPaths'
         /\ adder["initDevices"].at = "mapper" => adder'["initDevices"].at = "mapper"
<1>1. \A u \in Adders : adder'[u].at = "device" => adder'[u] = adder[u]
  BY DEF HandleInterfaceAdded, TypeOK
<1>2. StaysAdded'
  BY <1>1 DEF HandleInterfaceAdded, Accounted, StaysAdded
<1> QED
  BY <1>2 DEF HandleInterfaceAdded, Known, Adders, TypeOK

\* A task that goes on keeps what it has reached: a path leaves
\* initializingPaths only when it is in devices or in refused.
LEMMA ResumeAccounts ==
  ASSUME TypeOK, InitializedOnce, Accounted, NEW t \in Adders, Resume(t)
  PROVE  Accounted'
<1>1. /\ UNCHANGED <<configured, added, removed, found>>
      /\ devices \subseteq devices' /\ refused \subseteq refused'
  BY DEF Resume, RefuseConfig, GetConfig, InitDevice, DeviceAdded, EndHandling
<1>2. /\ adder[t].at \in {"getConfig", "initDevice", "device"}
      /\ \A u \in Adders \ {t} : adder'[u] = adder[u]
  BY DEF Resume, RefuseConfig, GetConfig, InitDevice, DeviceAdded, EndHandling, TypeOK
<1>3. adder["initDevices"].at = "mapper" => adder'["initDevices"].at = "mapper"
  BY <1>2 DEF Adders
<1>4. adder'[t].at = "device" => adder'[t].path \in devices'
  <2>1. adder[t] \in Suspended
    BY <1>2 DEF TypeOK, Waiting
  <2>2. CASE InitDevice(t)
    BY <2>1, <2>2 DEF InitDevice, TypeOK, Suspended
  <2>3. CASE ~InitDevice(t)
    BY <2>1, <2>3 DEF Resume, RefuseConfig, GetConfig, DeviceAdded, EndHandling, Waiting,
       TypeOK, Suspended
  <2> QED
    BY <2>2, <2>3
<1>5. StaysAdded'
  BY <1>1, <1>2, <1>4 DEF Accounted, StaysAdded
<1>6. ASSUME NEW p \in configured \ Removable, p \in initializingPaths
      PROVE  p \in initializingPaths' \cup devices' \cup refused'
  <2>1. CASE RefuseConfig(t)
    BY <1>6, <2>1 DEF RefuseConfig, EndHandling, InitializingAfter
  <2>2. CASE GetConfig(t) \/ InitDevice(t)
    BY <1>6, <2>2 DEF GetConfig, InitDevice
  <2>3. CASE DeviceAdded(t)
    <3>1. adder[t].path \in devices \cup Removable
      BY <2>3 DEF DeviceAdded, Accounted, StaysAdded
    <3> QED
      BY <1>6, <2>3, <3>1 DEF DeviceAdded, EndHandling, InitializingAfter
  <2> QED
    BY <2>1, <2>2, <2>3 DEF Resume
<1>7. ASSUME NEW p \in configured \ Removable PROVE Reached(p)'
  BY <1>1, <1>3, <1>6 DEF Accounted, Reached, InAdded
<1> QED
  BY <1>1, <1>5, <1>7 DEF Accounted

\* Accounted is inductive with TypeOK and InitializedOnce.
LEMMA AccountedStep == TypeOK /\ InitializedOnce /\ Accounted /\ [Next]_vars => Accounted'
<1> SUFFICES ASSUME TypeOK, InitializedOnce, Accounted, [Next]_vars PROVE Accounted'
  OBVIOUS
<1>1. ASSUME NEW p \in Paths, AddConfig(p) PROVE Accounted'
  <2>1. added' = Append(added, p) /\ added \in Seq(Paths)
    BY <1>1 DEF AddConfig, Listening, TypeOK
  <2>2. InAdded(p)' /\ \A q : InAdded(q) => InAdded(q)'
    BY <2>1, AppendProperties DEF InAdded
  <2> QED
    BY <1>1, <2>2 DEF AddConfig, Accounted, StaysAdded, Reached
<1>2. ASSUME NEW p \in Paths, RemoveConfig(p) PROVE Accounted'
  <2>1. removed' = Append(removed, p) /\ removed \in Seq(Paths) /\ p \in Removable
    BY <1>2 DEF RemoveConfig, Listening, TypeOK
  <2>2. \A i \in DOMAIN removed' : removed'[i] \in Removable
    BY <2>1, AppendProperties DEF Accounted, StaysAdded
  <2> QED
    BY <1>2, <2>2 DEF RemoveConfig, Accounted, StaysAdded, Reached, InAdded
<1>3. CASE GetSubTree
  <2>1. \A u \in Adders : adder'[u].at = "device" => adder'[u] = adder[u]
    BY <1>3 DEF GetSubTree, TypeOK, Waiting
  <2> QED
    BY <1>3, <2>1 DEF GetSubTree, Accounted, StaysAdded, Reached, InAdded
<1>4. ASSUME NEW p \in Paths, HandleFound(p) PROVE Accounted'
  <2>1. HandleInterfaceAdded("initDevices", p) /\ "initDevices" \in Adders
    BY <1>4 DEF HandleFound, Adders
  <2> QED
    BY <1>4, <2>1, AddedReaches DEF HandleFound, HandleInterfaceAdded, Accounted,
       Reached, InAdded
<1>5. CASE HandleAddedSignal
  <2> DEFINE p == Head(added)
  <2>1. p \in Paths /\ "interfaceAddedMatch" \in Adders /\ added \in Seq(Paths)
    BY <1>5, HeadTailProperties DEF HandleAddedSignal, TypeOK, Adders
  <2>2. HandleInterfaceAdded("interfaceAddedMatch", p)
    BY <1>5 DEF HandleAddedSignal
  <2>3. ASSUME NEW q, InAdded(q) PROVE q = p \/ InAdded(q)'
    <3>1. PICK i \in DOMAIN added : added[i] = q
      BY <2>3 DEF InAdded
    <3>2. CASE i = 1
      BY <3>1, <3>2, <2>1
    <3>3. CASE i # 1
      <4>1. /\ i - 1 \in DOMAIN Tail(added) /\ Tail(added)[i - 1] = added[i]
        BY <1>5, <2>1, <3>1, <3>3 DEF HandleAddedSignal
      <4> QED
        BY <1>5, <3>1, <4>1 DEF HandleAddedSignal, InAdded
    <3> QED
      BY <3>2, <3>3
  <2> HIDE DEF p
  <2>4. /\ StaysAdded' /\ p \in initializingPaths' \cup devices'
        /\ initializingPaths \subseteq initializingPaths'
        /\ adder["initDevices"].at = "mapper" => adder'["initDevices"].at = "mapper"
    BY <2>1, <2>2, AddedReaches
  <2>5. UNCHANGED <<configured, found, devices, refused>>
    BY <1>5, <2>2 DEF HandleAddedSignal, HandleInterfaceAdded
  <2>6. ASSUME NEW q \in configured \ Removable PROVE Reached(q)'
    BY <2>3, <2>4, <2>5 DEF Accounted, Reached
  <2> QED
    BY <2>4, <2>5, <2>6 DEF Accounted
<1>6. ASSUME NEW t \in Adders, Resume(t) PROVE Accounted'
  BY <1>6, ResumeAccounts
<1>7. CASE HandleInterfaceRemoved
  <2>1. /\ Head(removed) \in Removable /\ removed \in Seq(Paths) /\ removed # <<>>
    BY <1>7 DEF HandleInterfaceRemoved, Accounted, StaysAdded, TypeOK
  <2>2. \A i \in DOMAIN removed' : removed'[i] \in Removable
    BY <1>7, <2>1 DEF HandleInterfaceRemoved, Accounted, StaysAdded
  <2>3. devices \subseteq devices' \cup Removable
    BY <1>7, <2>1 DEF HandleInterfaceRemoved
  <2> QED
    BY <1>7, <2>2, <2>3 DEF HandleInterfaceRemoved, Accounted, StaysAdded, Reached, InAdded
<1>8. ASSUME NEW p \in Paths, StartUpdate(p) \/ EndUpdate(p) PROVE Accounted'
  BY <1>8 DEF StartUpdate, EndUpdate, Accounted, StaysAdded, Reached, InAdded
<1>9. CASE UNCHANGED vars
  BY <1>9 DEF vars, Accounted, StaysAdded, Reached, InAdded
<1> QED
  BY <1>1, <1>2, <1>3, <1>4, <1>5, <1>6, <1>7, <1>8, <1>9 DEF Next

\* NothingMissed: whatever the look-up at start-up and the added signals
\* overlap in, a configuration that stays has its device or was refused.
THEOREM NoneMissed == Spec => []NothingMissed
<1>1. Init => InitializedOnce /\ Accounted
  BY DEF Init, InitializedOnce, Accounted, StaysAdded, Reached, Busy, Waiting, Adders
<1>2. TypeOK /\ InitializedOnce /\ Accounted => NothingMissed
  <2> SUFFICES ASSUME InitializedOnce, Accounted, Quiet,
                      NEW p \in configured \ Removable
               PROVE  p \in devices \cup refused
    BY DEF NothingMissed
  <2>1. initializingPaths = {}
    BY DEF InitializedOnce, Busy, Quiet, Waiting
  <2>2. ~InAdded(p) /\ adder["initDevices"].at # "mapper"
    BY DEF InAdded, Quiet, Waiting, Adders
  <2> QED
    BY <2>1, <2>2 DEF Accounted, Reached, Quiet
<1> QED
  BY <1>1, <1>2, TypeInit, TypeStep, OnceStep, AccountedStep, PTL DEF Spec

\* UpdatingDeviceKept: handleInterfaceRemoved leaves a device alone while its
\* updateInProgress is set.
THEOREM NotRemovedWhileUpdating == Spec => UpdatingDeviceKept
<1>1. TypeOK /\ [Next]_vars => (updating \subseteq devices')
  <2> SUFFICES ASSUME TypeOK, [Next]_vars PROVE updating \subseteq devices'
    OBVIOUS
  <2>1. updating \subseteq devices
    BY DEF TypeOK
  <2>2. CASE HandleInterfaceRemoved
    BY <2>1, <2>2 DEF HandleInterfaceRemoved, MayRemove
  <2>3. CASE UNCHANGED vars
    BY <2>1, <2>3 DEF vars
  <2>4. CASE ~HandleInterfaceRemoved /\ Next
    BY <2>1, <2>4 DEF Next, AddConfig, RemoveConfig, GetSubTree, HandleFound,
       HandleAddedSignal, HandleInterfaceAdded, Resume, RefuseConfig, EndHandling,
       GetConfig, InitDevice, DeviceAdded, StartUpdate, EndUpdate
  <2> QED
    BY <2>2, <2>3, <2>4
<1> QED
  BY <1>1, TypeCorrect, PTL DEF Spec, UpdatingDeviceKept
=============================================================================
