------------------------- MODULE FlashDevicesProofs -------------------------
(* Proofs about FlashDevices, for any devices, lines and other clients.     *)
EXTENDS FlashDevices, TLAPS

Muxed == {"rebind", "bindController", "bind", "tool", "unbind"}

\* Only a host that can be asked for its old state is turned off, and only a
\* BIOS device asks for it.
PrevInv ==
  \A d \in Devices :
    /\ step[d] \in {"idle", "getState"} \/ Settable(prev[d])
    /\ d \in bios \/ (step[d] # "getState" /\ Settable(prev[d]))

\* A device holds all its lines or none, and no other device holds them.
MuxInv ==
  /\ \A d \in Devices : held[d] = IF step[d] \in Muxed THEN lines[d] ELSE {}
  /\ \A d, e \in Devices : d # e => held[d] \cap held[e] = {}

\* From its request for Off on, a BIOS device blocks transitions, so that
\* nobody starts the host between the poll that saw it off and the last write.
HostInv ==
  \A d \in bios :
    /\ step[d] \in {"getState", "requestOff", "pollOff"} \cup Muxed => blocks[d]
    /\ step[d] \in {"pollOff"} \cup Muxed => asked # "Running"
    /\ step[d] \in Muxed => host = "Off"

Inv == TypeOK /\ PrevInv /\ MuxInv /\ HostInv

\* Nothing is held, blocked or asked for at the start.
LEMMA InitInv == Init => Inv
BY RequestsAssumption
   DEF Init, Inv, TypeOK, PrevInv, MuxInv, HostInv, Muxed, Settable,
       HostStates, Steps, Effects

\* The end of a write gives up the lines and the block of its own device only.
LEMMA WriteEndsInv ==
  ASSUME Inv, NEW d \in Devices, NEW ok \in BOOLEAN, WriteEnds(d, ok),
         Settable(prev[d]),
         bound' \in SUBSET Devices, chip' \in [Devices -> Effects],
         UNCHANGED <<bios, lines, dryRun, host, asked, requests, prev>>
  PROVE  Inv'
<1> USE DEF Inv, WriteEnds, Return, Goto
<1>1. TypeOK'
  BY DEF TypeOK, Steps
<1>2. PrevInv'
  BY DEF PrevInv, TypeOK, Settable
<1>3. MuxInv'
  BY DEF MuxInv, TypeOK, Muxed
<1>4. HostInv'
  BY DEF HostInv, TypeOK, Muxed
<1> QED
  BY <1>1, <1>2, <1>3, <1>4
\* The first lines of a write take lines that no device holds, with the host
\* off if the device is a BIOS.
LEMMA EnterWriteInv ==
  ASSUME Inv, NEW d \in Devices, EnterWrite(d), Settable(prev[d]),
         d \in bios => host = "Off" /\ asked # "Running" /\ blocks[d],
         bound' \in SUBSET Devices, chip' \in [Devices -> Effects],
         UNCHANGED <<bios, lines, dryRun, host, asked, requests, prev>>
  PROVE  Inv'
<1>1. CASE WriteEnds(d, FALSE)
  BY <1>1, WriteEndsInv
<1>2. CASE ~WriteEnds(d, FALSE)
  <2>1. /\ Muxable(d)
        /\ held' = [held EXCEPT ![d] = lines[d]]
        /\ blocks' = [blocks EXCEPT ![d] = TRUE]
        /\ outcome' = [outcome EXCEPT ![d] = "none"]
        /\ success' = success
    BY <1>2 DEF EnterWrite
  <2>2. /\ step' \in [Devices -> Steps] /\ step'[d] \in Muxed
        /\ \A e \in Devices : e # d => step'[e] = step[e]
    BY <1>2 DEF EnterWrite, Goto, Inv, TypeOK, Steps, Muxed
  <2> USE <2>1, <2>2 DEF Inv
  <2>3. TypeOK'
    BY DEF TypeOK
  <2>4. PrevInv'
    BY DEF PrevInv, Muxed
  <2>5. MuxInv'
    <3>1. \A e \in Devices \ {d} : lines[d] \cap held[e] = {}
      BY DEF Muxable, LineUsed
    <3> QED
      BY <3>1 DEF MuxInv, TypeOK
  <2>6. HostInv'
    BY DEF HostInv, TypeOK
  <2> QED
    BY <2>3, <2>4, <2>5, <2>6
<1> QED
  BY <1>1, <1>2

\* The steps that end no write and begin none.
LEMMA StepInv ==
  ASSUME Inv, NEW d \in Devices,
         \/ GetState(d)
         \/ RequestState(d, "requestOff", "Off", "pollOff")
         \/ RequestState(d, "requestRestore", prev[d], "pollRestore")
         \/ PollRestore(d)
  PROVE  Inv'
<1> USE DEF Inv
<1>1. CASE GetState(d)
  <2> USE <1>1 DEF GetState, Return, Goto
  <2>1. TypeOK'
    BY DEF TypeOK, Steps
  <2>2. PrevInv'
    BY DEF PrevInv, TypeOK, Settable
  <2>3. MuxInv'
    BY DEF MuxInv, TypeOK, Muxed
  <2>4. HostInv'
    BY DEF HostInv, TypeOK, Muxed
  <2> QED
    BY <2>1, <2>2, <2>3, <2>4
<1>2. CASE RequestState(d, "requestOff", "Off", "pollOff")
  <2> USE <1>2 DEF RequestState, Accept, Refused, Goto
  <2>1. TypeOK'
    BY DEF TypeOK, Steps
  <2>2. PrevInv'
    BY DEF PrevInv, TypeOK, Settable
  <2>3. MuxInv'
    BY DEF MuxInv, TypeOK, Muxed
  <2>4. HostInv'
    BY DEF HostInv, TypeOK, Muxed
  <2> QED
    BY <2>1, <2>2, <2>3, <2>4
<1>3. CASE RequestState(d, "requestRestore", prev[d], "pollRestore")
  <2> USE <1>3 DEF RequestState, Accept, Refused, Goto
  <2>0. Settable(prev[d])
    BY DEF PrevInv
  <2>1. TypeOK'
    BY <2>0 DEF TypeOK, Steps, Settable
  <2>2. PrevInv'
    BY DEF PrevInv, TypeOK, Settable
  <2>3. MuxInv'
    BY DEF MuxInv, TypeOK, Muxed
  <2>4. HostInv'
    BY <2>0 DEF HostInv, TypeOK, Muxed, Settable
  <2> QED
    BY <2>1, <2>2, <2>3, <2>4
<1>4. CASE PollRestore(d)
  <2> USE <1>4 DEF PollRestore, Return, Goto
  <2>1. TypeOK'
    BY DEF TypeOK, Steps, Achieved
  <2>2. PrevInv'
    BY DEF PrevInv, TypeOK, Settable
  <2>3. MuxInv'
    BY DEF MuxInv, TypeOK, Muxed
  <2>4. HostInv'
    BY DEF HostInv, TypeOK, Muxed
  <2> QED
    BY <2>1, <2>2, <2>3, <2>4
<1> QED
  BY <1>1, <1>2, <1>3, <1>4
\* A step of a device that has its lines goes on to another such step, or
\* ends the write.
LEMMA DriverInv ==
  ASSUME Inv, NEW d \in Devices, Driver(d)
  PROVE  Inv'
<1>1. /\ step[d] \in Muxed /\ Settable(prev[d])
      /\ UNCHANGED <<bios, lines, dryRun, host, asked, requests, prev>>
      /\ bound' \in SUBSET Devices /\ chip' \in [Devices -> Effects]
  BY DEF Driver, Rebind, BindController, Bind, ToolEnds, Unbind, Muxed, Inv,
         PrevInv, TypeOK, Goto
<1>2. \/ \E ok \in BOOLEAN : WriteEnds(d, ok)
      \/ /\ \E s \in Muxed : Goto(d, s)
         /\ success' \in [Devices -> BOOLEAN]
         /\ UNCHANGED <<held, blocks, outcome>>
  <2> USE DEF Inv, TypeOK, Muxed
  <2>1. CASE Rebind(d) \/ BindController(d)
    BY <2>1 DEF Rebind, BindController
  <2>2. CASE Bind(d)
    BY <2>2 DEF Bind, Skipped, Unstaged
  <2>3. CASE ToolEnds(d)
    BY <2>3 DEF ToolEnds
  <2>4. CASE Unbind(d)
    BY <2>4 DEF Unbind
  <2> QED
    BY <2>1, <2>2, <2>3, <2>4 DEF Driver
<1>3. CASE \E ok \in BOOLEAN : WriteEnds(d, ok)
  BY <1>1, <1>3, WriteEndsInv
<1>4. ASSUME NEW s \in Muxed, Goto(d, s), success' \in [Devices -> BOOLEAN],
             UNCHANGED <<held, blocks, outcome>>
      PROVE  Inv'
  <2> USE <1>1, <1>4 DEF Inv, Goto
  <2>1. TypeOK'
    BY DEF TypeOK, Steps, Muxed
  <2>2. PrevInv'
    BY DEF PrevInv, TypeOK, Muxed
  <2>3. MuxInv'
    BY DEF MuxInv, TypeOK
  <2>4. HostInv'
    BY DEF HostInv, TypeOK
  <2> QED
    BY <2>1, <2>2, <2>3, <2>4
<1> QED
  BY <1>2, <1>3, <1>4

\* The host follows the newest request, and nobody asks it to start while a
\* version blocks transitions.
LEMMA HostStepInv == Inv /\ (HostReaches \/ OtherClient) => Inv'
<1> SUFFICES ASSUME Inv, HostReaches \/ OtherClient PROVE Inv'
  OBVIOUS
<1> USE DEF Inv
<1>1. CASE HostReaches
  BY <1>1 DEF HostReaches, TypeOK, PrevInv, MuxInv, HostInv, HostStates
<1>2. CASE OtherClient
  <2> USE <1>2 DEF OtherClient, Accept, Refused
  <2>1. TypeOK'
    BY RequestsAssumption DEF TypeOK
  <2>2. PrevInv' /\ MuxInv'
    BY DEF PrevInv, MuxInv
  <2>3. HostInv'
    BY DEF HostInv, TypeOK, Muxed
  <2> QED
    BY <2>1, <2>2, <2>3
<1> QED
  BY <1>1, <1>2

LEMMA NextInv == Inv /\ [Next]_vars => Inv'
<1> SUFFICES ASSUME Inv, [Next]_vars PROVE Inv'
  OBVIOUS
<1>1. CASE HostReaches \/ OtherClient
  BY <1>1, HostStepInv
<1>2. ASSUME NEW d \in Devices, StartUpdate(d) PROVE Inv'
  <2>1. CASE d \in bios
    <3> USE <1>2, <2>1 DEF StartUpdate, Goto, Inv
    <3>1. TypeOK'
      BY DEF TypeOK, Steps, Effects
    <3>2. PrevInv' /\ MuxInv' /\ HostInv'
      BY DEF PrevInv, MuxInv, HostInv, TypeOK, Muxed
    <3> QED
      BY <3>1, <3>2
  <2>2. CASE d \notin bios
    BY <1>2, <2>2, EnterWriteInv DEF StartUpdate, Inv, TypeOK, PrevInv, Effects
  <2> QED
    BY <2>1, <2>2
<1>3. ASSUME NEW d \in Devices, PollOff(d) PROVE Inv'
  <2>1. CASE Achieved("Off") /\ EnterWrite(d)
    BY <1>3, <2>1, EnterWriteInv
       DEF PollOff, Achieved, Inv, TypeOK, PrevInv, HostInv
  <2>2. CASE ~(Achieved("Off") /\ EnterWrite(d))
    <3> USE <1>3, <2>2 DEF PollOff, Return, Goto, Inv
    <3>1. TypeOK'
      BY DEF TypeOK, Steps
    <3>2. PrevInv' /\ MuxInv' /\ HostInv'
      BY DEF PrevInv, MuxInv, HostInv, TypeOK, Muxed
    <3> QED
      BY <3>1, <3>2
  <2> QED
    BY <2>1, <2>2
<1>4. ASSUME NEW d \in Devices, Power(d), ~PollOff(d) PROVE Inv'
  BY <1>4, StepInv DEF Power
<1>5. ASSUME NEW d \in Devices, Driver(d) PROVE Inv'
  BY <1>5, DriverInv
<1>6. CASE UNCHANGED vars
  BY <1>6 DEF vars, Inv, TypeOK, PrevInv, MuxInv, HostInv
<1> QED
  BY <1>1, <1>2, <1>3, <1>4, <1>5, <1>6 DEF Next

\* The invariant holds in every reachable state.
THEOREM Invariant == SafeSpec => []Inv
<1>1. Init => Inv
  BY InitInv
<1>2. Inv /\ [Next]_vars => Inv'
  BY NextInv
<1> QED
  BY <1>1, <1>2, PTL DEF SafeSpec

\* Every variable keeps its type: the host is never asked for a state that it
\* cannot be asked for (the check at the start of HostPower::setState).
THEOREM TypeCorrect == SafeSpec => []TypeOK
<1>1. Inv => TypeOK
  BY DEF Inv
<1> QED
  BY <1>1, Invariant, PTL

\* However many BIOS devices are updated, and whatever other clients ask of
\* the host, it is off whenever a flash tool of SPIDevice::writeSPIFlash runs.
THEOREM HostStaysOff == SafeSpec => []HostOffWhileWriting
<1>1. Inv => HostOffWhileWriting
  BY DEF Inv, HostInv, HostOffWhileWriting, Muxed
<1> QED
  BY <1>1, Invariant, PTL

\* The multiplexer lines of a device belong to its update from the request in
\* ScopedBmcMux to the release, and to no other update.
THEOREM MuxNotShared == SafeSpec => []MuxHeldAlone
<1>1. Inv => MuxHeldAlone
  BY DEF Inv, MuxInv, MuxHeldAlone, Muxed
<1> QED
  BY <1>1, Invariant, PTL
\* Until its tool runs an update has not touched the chip, and until it
\* returns it has reported nothing; a torn chip means that it failed.
ToldInv ==
  \A d \in Devices :
    /\ step[d] # "idle" => outcome[d] = "none"
    /\ step[d] \in {"getState", "requestOff", "pollOff"} \cup (Muxed \ {"unbind"})
         => chip[d] = "untouched"
    /\ chip[d] = "torn" => ~success[d] /\ outcome[d] # "ok"

\* A write that ends reports no success if its chip is torn.
LEMMA WriteEndsTold ==
  ASSUME TypeOK, ToldInv, NEW d \in Devices, NEW ok \in BOOLEAN,
         NEW effect \in Effects, effect = "torn" => ~ok,
         WriteEnds(d, ok), d \in bios => outcome[d] = "none",
         chip' = [chip EXCEPT ![d] = effect]
  PROVE  ToldInv'
BY DEF ToldInv, TypeOK, WriteEnds, Return, Goto, Muxed

\* So does one that begins.
LEMMA EnterWriteTold ==
  ASSUME TypeOK, ToldInv, NEW d \in Devices, EnterWrite(d),
         d \in bios => outcome[d] = "none",
         chip' = [chip EXCEPT ![d] = "untouched"]
  PROVE  ToldInv'
<1>1. CASE WriteEnds(d, FALSE)
  BY <1>1, WriteEndsTold DEF Effects
<1>2. CASE ~WriteEnds(d, FALSE)
  <2>1. /\ step' \in [Devices -> Steps] /\ step'[d] \in Muxed \ {"unbind"}
        /\ \A e \in Devices : e # d => step'[e] = step[e]
    BY <1>2 DEF EnterWrite, Goto, TypeOK, Steps, Muxed
  <2>2. outcome' = [outcome EXCEPT ![d] = "none"] /\ success' = success
    BY <1>2 DEF EnterWrite
  <2> QED
    BY <2>1, <2>2 DEF ToldInv, TypeOK
<1> QED
  BY <1>1, <1>2

\* No step of another device, and no step of its own update, makes an update
\* forget that its tool failed.
LEMMA ToldStep == TypeOK /\ ToldInv /\ [Next]_vars => ToldInv'
<1> SUFFICES ASSUME TypeOK, ToldInv, [Next]_vars PROVE ToldInv'
  OBVIOUS
<1> USE DEF ToldInv, TypeOK, Goto, Muxed
<1>1. CASE HostReaches \/ OtherClient \/ UNCHANGED vars
  BY <1>1 DEF HostReaches, OtherClient, vars
<1>2. ASSUME NEW d \in Devices, StartUpdate(d) PROVE ToldInv'
  <2>1. CASE d \in bios
    BY <1>2, <2>1 DEF StartUpdate
  <2>2. CASE d \notin bios
    BY <1>2, <2>2, EnterWriteTold DEF StartUpdate
  <2> QED
    BY <2>1, <2>2
<1>3. ASSUME NEW d \in Devices, PollOff(d) PROVE ToldInv'
  <2>1. CASE EnterWrite(d)
    BY <1>3, <2>1, EnterWriteTold DEF PollOff
  <2>2. CASE ~EnterWrite(d)
    BY <1>3, <2>2 DEF PollOff, Return
  <2> QED
    BY <2>1, <2>2
<1>4. ASSUME NEW d \in Devices, Power(d), ~PollOff(d) PROVE ToldInv'
  BY <1>4 DEF Power, GetState, RequestState, PollRestore, Return
<1>5. ASSUME NEW d \in Devices, Driver(d) PROVE ToldInv'
  <2>0. chip[d] \in Effects /\ chip = [chip EXCEPT ![d] = chip[d]]
    OBVIOUS
  <2>1. CASE Rebind(d) \/ BindController(d)
    <3>1. chip' = chip /\ outcome[d] = "none" /\ chip[d] # "torn"
      BY <2>1 DEF Rebind, BindController
    <3>2. CASE WriteEnds(d, FALSE)
      BY <2>0, <3>1, <3>2, WriteEndsTold
    <3>3. CASE ~WriteEnds(d, FALSE)
      BY <2>1, <3>3 DEF Rebind, BindController
    <3> QED
      BY <3>2, <3>3
  <2>2. CASE Bind(d)
    <3>1. chip' = chip /\ outcome[d] = "none" /\ chip[d] # "torn"
      BY <2>2 DEF Bind
    <3>2. CASE WriteEnds(d, FALSE)
      BY <2>0, <3>1, <3>2, WriteEndsTold
    <3>3. CASE ~WriteEnds(d, FALSE)
      BY <2>2, <3>3 DEF Bind
    <3> QED
      BY <3>2, <3>3
  <2>3. ASSUME NEW effect \in Effects, NEW ok \in BOOLEAN, step[d] = "tool",
               <<effect, ok>> \in ExitCodes,
               chip' = [chip EXCEPT ![d] = effect],
               \/ /\ ok /\ Goto(d, "unbind")
                  /\ success' = [success EXCEPT ![d] = TRUE]
                  /\ outcome' = outcome
               \/ ~ok /\ WriteEnds(d, FALSE)
        PROVE  ToldInv'
    <3>1. ok => effect = "written"
      BY <2>3 DEF ExitCodes
    <3>2. CASE ok
      BY <2>3, <3>1, <3>2
    <3>3. CASE ~ok
      BY <2>3, <3>3, WriteEndsTold
    <3> QED
      BY <3>2, <3>3
  <2>4. CASE Unbind(d)
    <3>1. PICK ok \in BOOLEAN : WriteEnds(d, ok) /\ (ok => success[d])
      BY <2>4 DEF Unbind
    <3>2. chip' = chip /\ outcome[d] = "none" /\ (chip[d] = "torn" => ~ok)
      BY <2>4, <3>1 DEF Unbind
    <3> QED
      BY <2>0, <3>1, <3>2, WriteEndsTold
  <2> QED
    BY <1>5, <2>1, <2>2, <2>3, <2>4 DEF Driver, ToolEnds
<1> QED
  BY <1>1, <1>2, <1>3, <1>4, <1>5 DEF Next

\* Whatever fails after a tool that left its chip half written, and however
\* the host behaves, updateDevice does not return true.
THEOREM TornReported == SafeSpec => []TornNeverReported
<1>1. Init => ToldInv
  BY DEF Init, ToldInv
<1>2. TypeOK /\ ToldInv /\ [Next]_vars => ToldInv'
  BY ToldStep
<1>3. ToldInv => TornNeverReported
  BY DEF ToldInv, TornNeverReported
<1> QED
  BY <1>1, <1>2, <1>3, TypeCorrect, PTL DEF SafeSpec
=============================================================================
