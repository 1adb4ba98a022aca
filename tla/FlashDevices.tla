---------------------------- MODULE FlashDevices ----------------------------
(***************************************************************************)
(* The chips that the BMC writes through a kernel driver: the BIOS flash   *)
(* behind SPI (spi-flash/) and the EEPROMs (eeprom-device/).  Several of   *)
(* them may be updated at once.  They share the GPIO lines of the          *)
(* multiplexers, and the BIOS devices share one host, which must be off    *)
(* while its flash is written.                                             *)
(*                                                                         *)
(* An action is what updateDevice does between two co_awaits.  The host    *)
(* state manager, the kernel's drivers and the flash tools are external:   *)
(* each answers in every way the code distinguishes.                       *)
(***************************************************************************)
EXTENDS Naturals

CONSTANTS
  Devices,       \* the configured devices
  Lines,         \* the GPIO lines of the multiplexers
  MaxRequests    \* bound: requests other clients make of the host

ASSUME RequestsAssumption == MaxRequests \in Nat

VARIABLES
  bios,      \* the devices that are BIOS flash; the others are EEPROMs
  lines,     \* gpioLines of each device
  dryRun,    \* the BIOS daemon was started with --dryrun
  host,      \* CurrentHostState
  asked,     \* the transition the host is in, "none" if it is settled
  requests,  \* how many requests other clients have made
  step,      \* the co_await at which the update of a device waits
  prev,      \* prevPowerstate
  held,      \* the lines each device has requested from the kernel
  bound,     \* the devices whose driver is bound
  chip,      \* what the current, or the last, update did to the chip
  success,   \* the local variable "success", FALSE until it is set
  blocks,    \* ActivationBlocksTransition of the version being written
  outcome    \* what updateDevice returned, "none" until it does

vars == <<bios, lines, dryRun, host, asked, requests, step, prev, held, bound, chip,
          success, blocks, outcome>>

(* What an update may do to its chip. *)
Effects == {"untouched", "torn", "written"}

HostStates == {"Running", "Off", "Quiesced"}

Steps == {"idle", "getState", "requestOff", "pollOff", "rebind", "bindController",
          "bind", "tool", "unbind", "requestRestore", "pollRestore", "thrown"}

TypeOK ==
  /\ bios \in SUBSET Devices /\ lines \in [Devices -> SUBSET Lines]
  /\ dryRun \in BOOLEAN
  /\ host \in HostStates /\ asked \in {"Running", "Off", "none"}
  /\ requests \in 0..MaxRequests
  /\ step \in [Devices -> Steps]
  /\ prev \in [Devices -> HostStates]
  /\ held \in [Devices -> SUBSET Lines]
  /\ bound \in SUBSET Devices
  /\ chip \in [Devices -> Effects]
  /\ success \in [Devices -> BOOLEAN]
  /\ blocks \in [Devices -> BOOLEAN]
  /\ outcome \in [Devices -> {"none", "ok", "failed"}]

Init ==
  /\ bios \in SUBSET Devices /\ lines \in [Devices -> SUBSET Lines]
  /\ dryRun \in BOOLEAN
  /\ host \in HostStates /\ asked = "none" /\ requests = 0
  /\ step = [d \in Devices |-> "idle"]
  /\ prev = [d \in Devices |-> "Off"]
  /\ held = [d \in Devices |-> {}]
  /\ bound \in SUBSET Devices
  /\ chip = [d \in Devices |-> "untouched"]
  /\ success = [d \in Devices |-> FALSE]
  /\ blocks = [d \in Devices |-> FALSE]
  /\ outcome = [d \in Devices |-> "none"]

Goto(d, s) == step' = [step EXCEPT ![d] = s]

----------------------------------------------------------------------------
(* The host.  Its state manager refuses to start the host while a version  *)
(* blocks transitions; the newest request replaces the one before.         *)

Refused(state) == state = "Running" /\ \E d \in Devices : blocks[d]

Accept(state) == asked' = IF host = state THEN "none" ELSE state

HostReaches ==
  /\ asked # "none"
  /\ host' = asked /\ asked' = "none"
  /\ UNCHANGED <<bios, lines, dryRun, requests, step, prev, held, bound, chip,
                 success, blocks, outcome>>

OtherClient ==
  /\ requests < MaxRequests
  /\ requests' = requests + 1
  /\ \E state \in {"Running", "Off"} : ~Refused(state) /\ Accept(state)
  /\ UNCHANGED <<bios, lines, dryRun, host, step, prev, held, bound, chip,
                 success, blocks, outcome>>

----------------------------------------------------------------------------
(* How an update ends.                                                      *)

Return(d, ok) ==
  /\ Goto(d, "idle")
  /\ success' = [success EXCEPT ![d] = FALSE]
  /\ outcome' = [outcome EXCEPT ![d] = IF ok THEN "ok" ELSE "failed"]

(* The end of writeSPIFlash, which gives the lines back, and what          *)
(* SPIDevice::updateDevice does next: it lifts the block and asks for the   *)
(* old power state.  An EEPROM is done here.                                *)
WriteEnds(d, ok) ==
  /\ held' = [held EXCEPT ![d] = {}]
  /\ blocks' = [blocks EXCEPT ![d] = FALSE]
  /\ \/ /\ d \in bios
        /\ success' = [success EXCEPT ![d] = ok]
        /\ Goto(d, "requestRestore") /\ UNCHANGED outcome
     \/ d \notin bios /\ Return(d, ok)

----------------------------------------------------------------------------
(* Multiplexing and binding.                                                *)

LineUsed(l) == \E d \in Devices : l \in held[d]

(* requestMuxGPIOs refuses a line that is in use; writeSPIFlash refuses a   *)
(* device without lines, the EEPROM's updateDevice goes on without.         *)
AnyLine(d) == TRUE
Muxable(d) == /\ \A l \in lines[d] : ~LineUsed(l)
              /\ d \in bios => lines[d] # {}

(* The first lines of writeSPIFlash and of EEPROMDevice::updateDevice.  The *)
(* request itself may fail.                                                 *)
EnterWrite(d) ==
  \/ /\ Muxable(d)
     /\ held' = [held EXCEPT ![d] = lines[d]]
     /\ Goto(d, CASE d \in bios  -> "bindController"
                  [] d \in bound -> "rebind"
                  [] OTHER       -> "bind")
     /\ blocks' = [blocks EXCEPT ![d] = TRUE]
     /\ outcome' = [outcome EXCEPT ![d] = "none"]
     /\ UNCHANGED success
  \/ WriteEnds(d, FALSE)

(* bindEEPROM first releases a chip that is bound.                          *)
Rebind(d) ==
  /\ step[d] = "rebind"
  /\ \/ bound' = bound \ {d} /\ Goto(d, "bind")
        /\ UNCHANGED <<held, success, blocks, outcome>>
     \/ UNCHANGED bound /\ WriteEnds(d, FALSE)
  /\ UNCHANGED <<bios, lines, dryRun, host, asked, requests, prev, chip>>

(* bindSPIFlash: the controller first, then the flash behind it.            *)
BindController(d) ==
  /\ step[d] = "bindController"
  /\ \/ Goto(d, "bind") /\ UNCHANGED <<held, success, blocks, outcome>>
     \/ WriteEnds(d, FALSE)
  /\ UNCHANGED <<bios, lines, dryRun, host, asked, requests, prev, bound,
                 chip>>

(* The tool needs a copy of the image in /tmp and the path of the chip.     *)
(* When either is missing, writeSPIFlashWithFlashrom, writeSPIFlashWithFlashcp *)
(* and writeEEPROM return 1 or -1, which a bool turns into TRUE.            *)
Unstaged == TRUE

(* A dry run binds and releases the flash and reports success.              *)
Skipped(d) == dryRun /\ d \in bios

(* The driver has been bound, or not.  What comes next runs without a       *)
(* co_await until the tool is started or the driver is released.            *)
Bind(d) ==
  /\ step[d] = "bind"
  /\ \/ /\ bound' = bound \cup {d}
        /\ \/ ~Skipped(d) /\ Goto(d, "tool") /\ UNCHANGED success
           \/ /\ success' = [success EXCEPT ![d] = Skipped(d) \/ Unstaged]
              /\ Goto(d, "unbind")
        /\ UNCHANGED <<held, blocks, outcome>>
     \/ d \notin bound /\ UNCHANGED bound /\ WriteEnds(d, FALSE)
  /\ UNCHANGED <<bios, lines, dryRun, host, asked, requests, prev, chip>>

(* asyncSystem returns whether the exit code was read and is 0.             *)
ExitCodesUnread == {"torn", "written"} \X {TRUE}
ExitCodes == {<<"written", TRUE>>} \cup (Effects \X {FALSE})

ToolEnds(d) ==
  /\ step[d] = "tool"
  /\ \E effect \in Effects, ok \in BOOLEAN :
       /\ <<effect, ok>> \in ExitCodes
       /\ chip' = [chip EXCEPT ![d] = effect]
       /\ \/ /\ ok
             /\ success' = [success EXCEPT ![d] = TRUE]
             /\ Goto(d, "unbind")
             /\ UNCHANGED <<held, blocks, outcome>>
          \/ ~ok /\ WriteEnds(d, FALSE)
  /\ UNCHANGED <<bios, lines, dryRun, host, asked, requests, prev, bound>>

(* success = success && co_await unbind...()                                *)
Unbind(d) ==
  /\ step[d] = "unbind"
  /\ \/ bound' = bound \ {d} /\ WriteEnds(d, success[d])
     \/ UNCHANGED bound /\ WriteEnds(d, FALSE)
  /\ UNCHANGED <<bios, lines, dryRun, host, asked, requests, prev, chip>>

----------------------------------------------------------------------------
(* updateDevice and the host's power.                                       *)

(* continueUpdateWithMappedPackage has set the block when it calls          *)
(* updateDevice; a BIOS device asks for the state of the host.              *)
StartUpdate(d) ==
  /\ step[d] = "idle"
  /\ chip' = [chip EXCEPT ![d] = "untouched"]
  /\ IF d \in bios
     THEN /\ Goto(d, "getState")
          /\ blocks' = [blocks EXCEPT ![d] = TRUE]
          /\ outcome' = [outcome EXCEPT ![d] = "none"]
          /\ UNCHANGED <<held, success>>
     ELSE EnterWrite(d)
  /\ UNCHANGED <<bios, lines, dryRun, host, asked, requests, prev, bound>>

(* preUpdate, as setState, leaves a host alone that is neither on nor off.  *)
Settable(state) == state \in {"Running", "Off"}

GetState(d) ==
  /\ step[d] = "getState"
  /\ prev' = [prev EXCEPT ![d] = host]
  /\ \/ /\ Settable(host)
        /\ Goto(d, "requestOff")
        /\ UNCHANGED <<blocks, success, outcome>>
     \/ /\ ~Settable(host)
        /\ Return(d, FALSE)
        /\ blocks' = [blocks EXCEPT ![d] = FALSE]
  /\ UNCHANGED <<bios, lines, dryRun, host, asked, requests, held, bound,
                 chip>>

(* setState: the request.  An error reply leaves updateDevice as an         *)
(* exception.                                                               *)
RequestState(d, from, state, to) ==
  /\ step[d] = from
  /\ IF Refused(state)
     THEN Goto(d, "thrown") /\ UNCHANGED asked
     ELSE Goto(d, to) /\ Accept(state)
  /\ UNCHANGED <<bios, lines, dryRun, host, requests, prev, held, bound, chip,
                 success, blocks, outcome>>

(* setState polls the host once a second and gives up after a while.        *)
AchievedWhenAsked(state) == host = state \/ asked = state
Achieved(state) == host = state

NeverGivesUp(state) == FALSE
GivesUp(state) == host # state

PollOff(d) ==
  /\ step[d] = "pollOff"
  /\ \/ Achieved("Off") /\ EnterWrite(d)
     \/ /\ GivesUp("Off")
        /\ Return(d, FALSE)
        /\ blocks' = [blocks EXCEPT ![d] = FALSE]
        /\ UNCHANGED held
  /\ UNCHANGED <<bios, lines, dryRun, host, asked, requests, prev, bound,
                 chip>>

(* postUpdate: the write only counts if the host is back as it was.         *)
PollRestore(d) ==
  /\ step[d] = "pollRestore"
  /\ Achieved(prev[d]) \/ GivesUp(prev[d])
  /\ Return(d, Achieved(prev[d]) /\ success[d])
  /\ UNCHANGED <<bios, lines, dryRun, host, asked, requests, prev, held,
                 bound, chip, blocks>>

Power(d) == \/ GetState(d)
            \/ RequestState(d, "requestOff", "Off", "pollOff")
            \/ PollOff(d)
            \/ RequestState(d, "requestRestore", prev[d], "pollRestore")
            \/ PollRestore(d)

Driver(d) == \/ Rebind(d)
             \/ BindController(d)
             \/ Bind(d)
             \/ ToolEnds(d)
             \/ Unbind(d)

Next == \/ HostReaches
        \/ OtherClient
        \/ \E d \in Devices : StartUpdate(d) \/ Power(d) \/ Driver(d)

SafeSpec == Init /\ [][Next]_vars

(* Every call is answered, every sleep ends and every tool exits.           *)
Fairness == \A d \in Devices : WF_vars(Power(d) \/ Driver(d))

Spec == SafeSpec /\ Fairness

----------------------------------------------------------------------------
(* Properties.                                                              *)

(* The flash of a BIOS is only written while the host is off, the           *)
(* precondition that spi_device.hpp states for the functions that write,    *)
(* whatever other updates and other clients ask of the host.                *)
HostOffWhileWriting ==
  \A d \in bios : step[d] = "tool" => host = "Off"

(* While a driver is bound to the chip, written through or released, its    *)
(* device holds all its lines, and no line is held by two devices: an       *)
(* update that ends does not switch a multiplexer under another one.        *)
MuxHeldAlone ==
  /\ \A d \in Devices :
       step[d] \in {"rebind", "bindController", "bind", "tool", "unbind"}
       => held[d] = lines[d]
  /\ \A d, e \in Devices : d # e => held[d] \cap held[e] = {}

(* A chip that its tool left half written is never reported as updated,     *)
(* whatever happens to the driver and the host afterwards.                  *)
TornNeverReported ==
  \A d \in Devices : chip[d] = "torn" => outcome[d] # "ok"

(* Every update ends, also when the host never changes its state, unless    *)
(* the host state manager refuses to start the host again.                  *)
UpdateEnds ==
  \A d \in Devices : step[d] # "idle" ~> step[d] \in {"idle", "thrown"}

(* spi_device.hpp promises of the functions that write: "@returns true on   *)
(* success".  An update that ends well has written the chip.                *)
ReportedMeansWritten ==
  \A d \in Devices :
    outcome[d] = "ok" /\ ~Skipped(d) => chip[d] = "written"
============================================================================
