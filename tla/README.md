# TLA+ models of phosphor-bmc-code-mgmt

This directory models the update daemons of phosphor-bmc-code-mgmt: the BMC
updater (`bmc/`), which writes images of the BMC's own flash and decides which
of them boots next, and the common framework (`common/`) on which the daemons
for CPLDs, voltage regulators, SPI flash, EEPROMs and TPMs are built. The state
machines are checked with TLC on small instances; the safety properties that
matter most are proved with TLAPS for every value of the constants.

`tlc -config <run>.cfg <module>` repeats a run, `tlapm <module>.tla` a proof.
`PROJECT.json` ties every definition to the lines of the source it stands for,
every property to a mutation of the model that breaks it, and every hazard to
the properties that watch it.

## 1. The system

### Parts, their state and their operations

| Part | State | Operations |
|---|---|---|
| BMC item updater (`bmc/item_updater.cpp`, `activation.cpp`, `ubi/*.cpp`) | the maps `activations`, `versions`, `updateManagers`; the associations; per image its Activation state, completion flags, priority and ActivationBlocksTransition | find the images at start-up; create, request and run an activation; handle unit results; free a priority; free space; Delete, DeleteAll, erase |
| BMC update manager (`bmc/update_manager.cpp`) | `updateInProgress` of each manager | StartUpdate; unpack and check an image in a spawned task |
| Image manager and watch (`bmc/image_manager.cpp`, `watch.cpp`) | the `versions` map, the upload directory | untar what appears in the directory, publish it, erase it |
| Flash script and units (`bmc/obmc-flash-bmc`, `*.service.in`) | UBI volumes or partitions, U-Boot variables | make room; create, write and remove volumes; set the boot variables and the copies of the priorities; remount at boot |
| Persistent storage (`bmc/serialize.cpp`) | priority and purpose files, U-Boot copies | store, restore, remove |
| Signature and ship level checks (`bmc/image_verify.cpp`, `msl_verify.cpp`) | none | verify an image before it is written |
| Side switch (`bmc/side-switch`) | none | at boot, power off and reboot into the preferred side |
| Synchronisation (`bmc/sync_manager.cpp`, `sync_watch.cpp`) | the inotify watches | copy changed files to the other chip |
| Framework device (`common/src/device.cpp`, `software.cpp`, `software_update.cpp`, `events.cpp`) | `softwareCurrent`, `softwarePending`, `updateInProgress`, the D-Bus objects of each Software, `pendingEvents` | StartUpdate; map and parse the package; write and reset the device; raise and withdraw errors |
| Software manager (`common/src/software_manager.cpp`) | `devices`, `initializingPaths`, two signal matches | find configurations, add and remove devices |
| Flash devices (`spi-flash/`, `eeprom-device/`, with `common/src/host_power.cpp`, `gpio_controller.cpp`, `utils.cpp`) | the chip, its driver, the multiplexer's lines, the host's power | power the host off, switch the multiplexer, bind the driver, run the flash tool, and undo it all |
| CPLDs (`cpld/`) | the chip's flash, its protection, which of two images it runs; `nonActiveImageId` | check the image and the chip, erase, program, verify, make primary |
| Voltage regulators (`i2c-vr/`) | live registers, the memory behind them, the writes left | parse and check the image, unlock, write, store or burn, read back |
| I2C access (`common/i2c/i2c.cpp`) | none | one transaction, which may fail |
| TPM (`tpm/`) | none | one external command |

USB update and the download manager are thin wrappers over the kernel or over
other programs.

### How they interact

- The BMC updater is one sdbusplus event loop. D-Bus calls, signals and spawned
  tasks run to completion one after the other. It starts systemd units and
  learns how they ended from `JobRemoved` signals, each of which is handed to
  every Activation object in turn.
- The units run concurrently with the updater and with each other, and the
  flash script writes the `Path` property of a Version back into the updater.
- A framework daemon is one event loop of coroutines. Between two `co_await`s a
  coroutine runs alone; at each, any other may run.
- EntityManager announces and withdraws the configurations of devices by
  signals; what was there at start-up is looked up once.
- A driver of a CPLD or regulator talks to its chip in single I2C transactions,
  with sleeps and polls in between. The chip keeps what it holds when the BMC
  restarts, and the next update finds it that way.

### What is hard in it

1. *Interleaving.* Two activations wait for the same unit; an image is deleted
   while it is being written; a configuration is withdrawn while its device is
   initialised; a coroutine holds pointers over a `co_await`.
2. *Ordering.* Priority 0 is claimed when both volume units have been reported,
   in any order, and the U-Boot update needs the flash id that a script sets.
3. *Stale state.* `processImage` may destroy the manager it runs in; a boot
   target is chosen before the priorities are bumped.
4. *Partial failure.* Any unit may fail; a failed write must not lose the
   version that was waiting for a reset.
5. *Boundaries.* Priorities are `uint8_t`; the number of images is limited;
   signals are lost when the daemon unsubscribes.
6. *Power loss and restart.* The files, the U-Boot variables and the volumes are
   written by different programs at different times, and the power may be lost
   between any two steps; a chip may be left between its erase and its program.
7. *Retries.* A transaction may fail after the chip has acted on it and is then
   sent again, in loops nested three deep.

### What makes each part correct

- Item updater: every activation past NotReady has its Version; the transition
  block and the reboot guard are released however an activation ends; only
  installed images have priorities, the files agree with D-Bus, no two images
  share one and U-Boot is pointed at the lowest; the running version survives;
  space is made before an image is written; every activation ends.
- Update manager: one image at a time; the manager becomes free again.
- Device: one update at a time; every Software has one owner; D-Bus shows what
  a reset brings; the Update interface belongs to the running version.
- Software manager: no configuration is missed, none is initialised twice, no
  device disappears under its update.
- Flash devices: the host is off while its flash is written, whatever else is
  asked of it; no two updates use a multiplexer at once; a chip left half written
  is never reported as updated; every update ends.
- Flash script and storage: wherever the power is lost, U-Boot names volumes that
  are there and whole; no unit damages the volumes of the running version; what
  ends as Active boots next; a restart brings the priorities back.
- CPLDs and regulators: what is reported as done is stored; an image that is
  refused has changed nothing; what the chip needs to start, a header or the image
  it runs, is never lost; every update ends.
- Synchronisation: the last content of a file reaches the other chip (not
  modelled).

## 2. The modules

| Module | Models | Role |
|---|---|---|
| `ItemUpdater` | item updater, activations, update managers, systemd's side of the units | state machine |
| `PriorityLoop` | the loop of `ItemUpdater::freePriority`, turn by turn | reference for `AssignPriority` |
| `MCItemUpdater` | | symmetry for TLC |
| `ItemUpdaterProofs` | | proofs |
| `UpdateSlots` | what a device promises: running, staged, candidate | abstract specification |
| `DeviceUpdate`, `MCDeviceUpdate` | one device of the framework | state machine, implements `UpdateSlots` |
| `DeviceUpdateProofs` | | proofs |
| `SoftwareManager`, `MCSoftwareManager` | the devices of one daemon | state machine |
| `SoftwareManagerProofs` | | proofs |
| `FlashDevices`, `MCFlashDevices` | the `updateDevice` of BIOS flash and EEPROMs, with the host and the GPIO lines they share | state machine |
| `FlashDevicesProofs` | | proofs |
| `UbiFlash`, `MCUbiFlash` | the UBI layout: volumes, U-Boot environment, priority files, the units, the updater as it acts on them, power loss and start-up | state machine |
| `UbiFlashProofs`, `UbiPriorityProofs` | | proofs: types, the running volumes and what boots next; the priorities after a restart |
| `BusProgram` | transactions, retry loops, ignored results | the vocabulary of the drivers |
| `CpldPrograms`, `VrPrograms` | the functions of every CPLD and regulator driver | programs |
| `Drivers` | the table of the sixteen drivers | programs |
| `DriverUpdate`, `MCDrivers` | one update after the other on one chip, the chip, the bus, restarts | state machine that executes the programs |
| `DriverOutline` | | what can be said about a driver's code without running it: the order of its instructions, and what it knows before each of them |
| `DriversProofs`, `DriverUpdateProofs` | | proofs about the code of the drivers; about their updates |

### ItemUpdater

An image is its D-Bus id. The maps of the code are total functions or sets over
`Ids`, with `"absent"`, `"none"`, `NoPrio` or non-membership for a missing key.
One action is one method call, one property write, one spawned task, or one
`onStateChanges` of one Activation; a dispatched signal is held in `inbox` until
every Activation has had its turn, and nothing else of the daemon runs
meanwhile (`Idle`).

- `StartUpdate`, `AcceptImage`, `RejectImage`: `Manager::startUpdate` and the two
  ways `processImage` ends. Why an image is rejected (tar, manifest, machine,
  purpose, files) is one choice. `CreateActivation` is the other interface, by
  which the image manager announces an image.
- `RequestActivation` and `StartActivating`: `requestedActivation` and the whole
  of `activation(Activating)`: the checks, which may refuse the image, freeing
  space, the guard, and starting the units.
- `Erase`: `ItemUpdater::erase` with everything it does to the maps, the
  associations, the priority file and the boot target. `freeSpace` and
  `DeleteAll` erase several versions one after the other in one action;
  `Orders` and `ResetChoices` keep the order and the ties.
- `AssignPriority`: `freePriority` in closed form. A run of occupied priorities
  that starts at the requested value moves up by one, one image of each value,
  modulo 256. `PriorityLoop` has the sorted loop of the code, and
  `BumpsAreTheLoops` compares the two in every state.
- `SetFlashId` and `JobEnd` are the units. The ubiro script sets the flash id
  before it can succeed (`EndPossible`).

### DeviceUpdate and UpdateSlots

A Software is its id; `step` says at which `co_await` its coroutine waits. The
actions follow `method_call`, `startUpdateAsync`, `getImageInfo` and
`continueUpdateWithMappedPackage` from one `co_await` to the next, with a choice
where the code looks at the result of a call. `Destroyed` is what a
`unique_ptr` does when it is overwritten or goes out of scope. `Announce` is the
end of `handleInterfaceAddedGuarded`, which sets the association and the state
of a new device concurrently with its first update.

`updateDevice` belongs to the device. Here it is what any device may do: `Flashed`
chooses what the chip holds when it returns, and the result is chosen apart from that.
A flash chip also lifts ActivationBlocksTransition before it returns, since it asks for
the host's old power state then (`spi_device.cpp:106-110`): `LiftBlock` does that, and
`"restoring"` is the rest of such an `updateDevice`. The contract in `device.hpp:40-46`
is that `true` means the image was applied. Devices break it both ways. They return
`true` without having written in a dry run (`spi_device.cpp:236-238`), by the faults of
findings 2 and 4, or with an image in which the parser found no data; and `false` with
the new image whole when a step after the write fails (`spi_device.cpp:112-115`, 266,
`eeprom_device.cpp:115`). `misled` is a history variable that tells when what D-Bus
shows rests on such a result.

`UpdateSlots` says what a client can rely on: a running version, at most one
staged version and at most one candidate, which ends by replacing the running
one, by replacing the staged one, or without effect, and always ends. The
refinement mapping reads `running` from `softwareCurrent`; the staged version is
in `softwarePending` until the coroutine has put its own Software there, and in
the coroutine's `softwarePendingOld` from then on.

### SoftwareManager

`initDevices` and the two signal loops are the tasks; `adder` says where the two
that add devices are suspended. `initDevice` of the concrete daemon is external
to the common code; the one of the EEPROM daemon is its example: it adds the
device to `devices` and returns, or fails. Updates appear as the flag that the
removal looks at; `DeviceUpdate` has their steps.

### FlashDevices

`DeviceUpdate` takes `updateDevice` to be one step with two results;
`FlashDevices` is what happens inside it for the devices that are written through
a kernel driver, several of them at once. `step` says at which `co_await` of
`SPIDevice::updateDevice` or `EEPROMDevice::updateDevice` an update waits.

- `GetState`, `RequestState`, `PollOff` and `PollRestore` are `preUpdate` and
  `postUpdate` of `BIOSDevice`, with `HostPower::setState` split into its request
  and its polls. When the host may not change yet, `GivesUp` is the time-out.
- `EnterWrite` is `ScopedBmcMux` and what follows it up to the next `co_await`;
  `WriteEnds` is its destructor and what `updateDevice` does next.
- `Rebind`, `BindController`, `Bind` and `Unbind` are the waits for the kernel.
- `ToolEnds` is the end of flashrom, flashcp or dd. `ExitCodes` pairs what the tool
  did to the chip with what `asyncSystem` made of its exit: a tool that fails may
  have done anything, and one that succeeds may be taken to have failed.
- The host is external: its state manager accepts a request unless it is to start
  the host while a version blocks transitions, and reaches what was asked last.
  `OtherClient` is any other client of it.

`bios`, `lines` and `dryRun` are the configuration: chosen initially, never
changed. Local variables have their initial values outside an update, which
keeps apart only the states that the code keeps apart.

### UbiFlash

`ItemUpdater` asks for units and hears how they ended; `UbiFlash` is what they do,
with the updater reduced to what reaches the flash. A version is its flash id,
which is never drawn twice. The state is `vol`, a volume per slot with whether its
content is whole; `env`, the three variables from which U-Boot boots; `setting`,
the priorities in the environment; `saved`, the priority files; and the activations
and priorities as the updater shows them.

- A handler is a list of effects in `todo`, which `CarryOut` works off one by one
  while units of earlier effects run: that is the order of the code, and the power
  may be lost between any two. `Upload`, `Delete`, `SetPriority`, `FactoryReset`
  and `UnitEnded` are the handlers.
- A unit is a record with a program counter. `WriteImages` is the ubiro unit:
  room is made, the volume is created, the flash id is reported, the volume is
  filled, for the rofs and again for the kernel. `RemoveVolumes`, `PointUboot` and
  `SetEnv` are the others. `Fails` may take the place of any step; a failed ubiro
  unit starts the removal of its volumes (`OnFailure=`).
- `Restart` is a power loss followed by U-Boot, `remount_ubi` and
  `processBMCImage`: volumes are mounted up to the first that is damaged, and the
  priorities are restored from file or environment. `StartUp` is the handler of the
  start-up itself. The constructor of each version's RedundancyPriority saves what was
  restored, so every version found has its file written and a `setenv` unit started
  (`Found`), in whichever order the directories are met; a damaged volume makes
  `erase` point U-Boot at the best of what had been found before it (`EraseDamaged`);
  and when the running version was not among the mounted ones a second pass finds it
  (`item_updater.cpp:461-484`). The power may be lost again between any two of these.
- A volume that is being filled is not whole until the last byte: that is the
  update marker of UBI, outside this repository.

A running version whose own volume did not mount is still known, as
`<id>-functional` (`item_updater.cpp:430-450`). Its priority file and its
environment variable then carry that name (`:609`), so `SetEnv` writes a variable
that no later start-up reads: `lost` tells when.

Four history variables say what a property has to leave out, each of which the
code does: `exposed` (an image that the environment names was erased), `half`
(versions that a power loss left with a rofs and without a kernel), `cut` (a unit
that writes the environment was not completed) and `mixed` (two updates of the
environment have run at a time).

### BusProgram, CpldPrograms, VrPrograms and DriverUpdate

Between two transactions a driver coroutine has no state that others see, so each
function of a driver is a sequence of instructions that names what its
transactions do to the chip, and calls are concatenations: `XO3`, `XO5TSeries`,
`ISL69269` and the thirteen others are `updateDevice` of one chip. The control
structures are `Retry`, `Attempts`, `Rounds` (three kinds of loops, which differ in
what starts over), `Ignored` and `Optional` (results nobody looks at), `Guarded`
and `ForEach`. `Drivers` is the table of the factories (`vr.cpp`,
`*_cpld_factory.cpp`). The parts of an area, pages or sectors or sections, are
numbered; the bytes are `"old"`, `"new"`, `"blank"`, `"torn"`.

`DriverUpdate` executes them. `Succeed` is a transaction that works, possibly on a
memory that takes it badly; `Fail` one that fails before or
after the chip has acted. `RestartBMC` may happen at every instruction, `PowerCycle`
between updates, and every update starts from what the last one left. NOR memory
that is programmed without an erase becomes `"torn"`; one-time cells run out; a
protected chip ignores what would change it.

## 3. The runs

| Run | Instance | States | Shows |
|---|---|---|---|
| `updater_safety` | 3 images, limit 2, Update interface, priorities 0..3 | 214,620 | maps, blocks, priorities, boot target, running version, space |
| `updater_clients` | 2 images, image manager's interface, requests written in any state, lost signals, cancelled jobs | 450,582 | types and priorities survive clients that do what they like |
| `updater_liveness` | 2 images, early and repeated requests, fair | 11,710 | every upload and activation ends, every manager becomes free |
| `device_update` | 3 software ids, both apply times, failing log | 262,752 | ownership, the pending version; implements `UpdateSlots` |
| `software_manager` | 2 configurations, one of which comes and goes | 32,198 | none missed, none initialised twice, none destroyed while updating |
| `flash_devices` | 2 devices of any kinds, 1 line, 1 request of another client, fair | 141,570 | host off while written, multiplexer, torn chips, every update ends |
| `ubi_flash` | 3 versions on a flash for 2, two faults (failed unit or power loss) | 624,407 | bootable at every moment, running volumes kept, activated boots next, priorities survive |
| `drivers` | each of 16 chips, 2 parts, 2 updates, all loops 2 attempts | 68,473 | reported means stored, refused changes nothing, header and running image kept, every update ends |
| `updater_manager_lifetime` | as `updater_safety` | violation | finding 1 |
| `flash_reported` | 1 device | violation | finding 2 |
| `ubi_window` | as `ubi_flash`, without faults | violation | finding 3 |
| `driver_foreign` | as `drivers` | violation | finding 4 |

### Bounds, and why they are enough

- *Images.* Three images and a limit of two let two activations run at once
  while freeing space, with the running version protected. Two claims of
  priority, a tie and a run of two bumped priorities happen with three.
- *Priorities.* `PrioLimit` is 4 or 3 in place of 256; the theorems hold for 2 to
  256, the width of the code's `uint8_t` included. The initial states have
  every assignment of priorities, ties and the largest value included, so the
  wrap-around occurs; `FreePriorityKeepsDistinct` and `BootRequestStaysLowest`
  say what holds short of it.
- *Signals.* `MaxSignals` bounds the signals in the socket to 1: a unit ends only
  when the one before it has been read. Which signal comes next is still open,
  as units end in any order; what a bound of 1 leaves out is only that the daemon
  lags behind several.
- *Client writes.* `Rewriting` names the states in which clients write
  RequestedActivation without starting anything. `updater_liveness` has all of them
  but Activating. A write while NotReady makes the later request of `processImage`
  no change (`activation.cpp:276-289`), and the image stays Ready for ever:
  `UploadSettles` says that an early request, and nothing else, leaves an image
  there. A write while Activating clears the completion flags and may leave the
  activation waiting for ever; it is part of `updater_clients` and left out of the
  run about liveness.
- *Versions on flash.* `ACTIVE_BMC_MAX_ALLOWED` and `keepmax` are 2 and so are the
  versions that stay; the third has to make room, both in the updater
  (`FreeSpace`) and in the script (`MakeRoom`), which do not know of each other.
  Six slots hold three versions. Two priorities suffice for ties and the wrap-around.
- *Faults.* Two of them, each a failed unit or a power loss at any step, so that a
  restart can meet what an earlier one left behind.
- *Quiet.* The units of one call end before a client makes the next call, or the
  power is lost. Without it `BootVolumesKept` fails, see the remarks. `RunningKept`
  is proved without it; the theorems about what boots next assume it.
- *Drivers.* Two parts tell a first page from a last and a half-written area from
  a whole one; two attempts a loop that repeats from one that gives up; two updates
  let one start from what a failed one left. Whatever a loop does a third time it has
  done a second time, since the instructions keep no state but the attempts.
- *Software ids.* Three: a running version, one waiting for a reset and one being
  written, which is as many as `DeviceUpdate` can have on D-Bus at once.
- *Configurations.* Two paths are needed for the two tasks to work on different
  ones; two signals of each kind for a path to be announced twice.
- *Flash devices.* Two contend for a line, for the host and for its old state; the
  properties speak of one or two of them. Each may be updated any number of times.
  One request of another client (`MaxRequests`) may come at any point; the proofs
  are for any number of devices, lines and requests.

Symmetry over the images is used in the runs with safety properties only.
Deadlock is checked in the runs of the updater, the framework and the flash
devices. In `UbiFlash` the flash ids and the faults are used up, and the BMC may not
boot; in `DriverUpdate` the updates are used up: there the system may stop, and
`UpdateEnds` says that no update does.

### Fairness

`FairSpec` of `ItemUpdater`: systemd ends every unit, as the units are oneshot
services; the event loop serves its sources. A source that must wait for the
loop to be idle has strong fairness, since in the program it waits in a queue of
its own. Clients owe nothing. `updater_liveness` also assumes that another
client keeps systemd's signals enabled (`OthersSubscribed`): without it the first
activation that ends unsubscribes the daemon and another may wait for ever,
which is listed as a hazard.

`Spec` of `DeviceUpdate` and `SoftwareManager`: a suspended task is resumed,
because the calls it waits for are answered or time out and `updateDevice` has
bounded loops. Nobody has to start an update. `Spec` of `FlashDevices` asks the
same of its updates and nothing of the host, whose state may never change. `Spec`
of `DriverUpdate` is fair to the driver only, and to whether it proceeds and not to
how: a transaction returns and a sleep ends, but it may fail every time.

## 4. Findings

1. `update_manager.cpp:210`. Accepting an image may free space by erasing the
   version that owns the manager which is running `processImage`; the coroutine
   then clears `updateInProgress` in a destroyed object.
2. `eeprom_device.cpp:240`, 250 and 260, and `spi_device.cpp:284` and seven lines
   like it. An image that cannot be staged makes a `task<bool>` return -1 or 1, which
   is `true`: the update is reported as successful and the chip is as it was, against
   `eeprom_device.hpp:65`, "`true` on success, `false` otherwise".
3. `item_updater.cpp:525`. The comment above it says that U-Boot is retargeted
   first so that it never points at an image that is gone; the two units are only
   asked for, and nothing makes systemd run one before the other.
4. `lattice_base_cpld.cpp:202`. An image for another chip is to stop the update; the
   parser returns -1 as `bool`, and the update goes on with no data. The LFMXO5-25 (in
   the run), the LCMXO2 and the LCMXO3 erase their flash, write nothing and report
   success; the T series erases its flash too, but then compares a hash (592).

Remarks, which are not runs; the models follow the code:

- `activation.cpp:352`. The reboot guard is not counted: of two images being
  written, the first that ends or is deleted allows reboots for both.
- `events.cpp:46`. The second assertion of an error forgets the log entry of the
  first, which no success resolves afterwards.
- `software_manager.cpp:270`. A configuration withdrawn while its device is being
  initialised is forgotten, and the device is added without one.
- `spi_device.cpp:117` says that the result only tells whether the flash was
  written, while line 112 returns `false` when the power state could not be restored.
- `item_updater.cpp:297-300`. The worst that can happen when a corrupted volume is
  erased by its directory name is said to be that erase returns; it also points
  U-Boot at the best of the versions found before it.
- `obmc-flash-bmc:95-127`. `ubi_remove_volumes` spares the version it writes and
  the running one. When a second image is uploaded before the first one's units
  have ended (`Quiet = FALSE`) it may remove the image just activated.
- `obmc-flash-bmc:422-424`. Two `updateubootvars` units of different images may
  leave the kernel of one and the root of the other. Likewise two `setenv` units of
  one image carry different priorities and may end in either order; a tie after a
  power loss follows from saves that were cut.
- `obmc-flash-bmc-ubiro@.service.in:8-9`. After a power loss between the two
  commands the rofs mounts, and the version counts as installed without a kernel.
- `xdpe1x2xx.cpp:438`. The status after the programming is read with the two
  buffers exchanged and so always looks good; `mpx9xx.cpp:460` goes on when it could
  not select the page from which it then reads back; `isl69269.cpp:509-513` only logs a
  record that failed and takes one status bit (557), which an earlier update may have
  left set, for success. `Unseen` names these three chips: `ReportedMeansStored` leaves
  out their updates in which a command was taken badly or passed over (`doubtful`).
- `max10_standard_cpld.cpp:51-52, 253`. `protectSectors` sets bits 5 to 9, while the
  protection that `unprotectSector` took away is in bits 23 to 27 (33-37, 267-281): the
  sectors of a MAX10 stay unprotected after an update that reports success. In the
  model it is a transaction that changes nothing.
- `lattice_base_cpld.cpp:461`. A busy flag that could not be read counts as not busy:
  the test also asks whether the response has changed its size, which it never does.
- An image without data is taken as it is by the parsers of the XDPE1X2XX, the
  TDA38640A, the TPS25990 and the RS31390: the update goes on, for the XDPE1X2XX to
  the invalidation of its configuration (`xdpe1x2xx.cpp:312`), and reports success.
  `ReportedMeansStored` speaks of images in which the parser found data.
- `tps25990.cpp:284`. Whether a bank is free is asked after the live registers were
  written, here and for the RS31390: `RefusedTouchesNothing` leaves these two out.
- `lattice_xo5_tseries_cpld.cpp:689-720`. A restore of the header that is cut leaves
  it torn, and the next update copies it over the backup: `HeaderRecoverable` leaves
  that out.
- `lattice_xo3_cpld.cpp`. The user flash data that the parser collects is never
  programmed.

## 5. The proofs

All proofs hold for any sets of images, software ids and paths, under the
`ASSUME` of each module.

- **ItemUpdater.** `TypeCorrect` first. `Consistent` is the strengthening of the
  safety properties: `ImageInv` ties, image by image, the state to the Version,
  the block, the priority and its file, and the published associations; the
  guard needs the blocks. From it follow `VersionAlwaysExists`, `BlocksExactly`,
  `SavedPriorities`, `PublishedActive`, `GuardReleased` and, as an action
  property, `RunningKept`. `OnlyInstalledRanked` needs `Located` as well: what
  systemd still has to say of a ubiro unit is about the image whose volume it
  wrote, since the Update interface draws ids afresh, and that unit succeeds only
  after it has set the flash id; so `ro` among the steps, or in the signal that is
  being handed out, means that the image is on flash.
- **Priorities.** These are properties of steps and need the types only.
  `PrioritiesApart`: the images bumped are one of each value of a run of occupied
  values, so the value after a bumped one is free or bumped as well. `LowestBoots`:
  only images at or above the requested value move, so the target chosen before is
  still the lowest; of several erases the last one's target stands, and the
  pigeonhole principle (`FS_Injection`) says that there is a last one. `RoomMade`
  counts what `freeSpace` leaves. The last two use that the set of ids is finite
  (`IdsAssumption`: eight hexadecimal digits).
- **The loop of `freePriority`.** `LoopsAreBumps` shows that the closed form of
  `AssignPriority` is the loop of the code in every reachable state. The loop visits
  the images ordered by priority, ties in any order, and bumps an image whose
  priority is the value it wants. Its invariant, `Progress`, has a ghost `e`: what has been moved so far is
  one image of each value from the requested one up to `e - 1`, the first of its value in
  the order; no image visited has the value `e`, and `e` is what is wanted next.
  Conversely, every choice of the
  closed form is the loop over one of the orders: by the key `2 * priority`, plus 1 for
  an image that stays, so that of a tie the image to be moved comes first. The
  statement needs two priorities at least: modulo 1 a bumped image keeps its value.
- **Update managers.** `OneImageAtATime` needs more: a manager that processes an
  image may be destroyed, and its image goes on. `ManagerInv` says that such a
  manager is marked busy or its version is absent; the version never comes back,
  because `startUpdate` draws a new id. The image manager's interface derives ids
  from versions and would break this, so the theorem assumes
  `UseUpdateDBusInterface`.
- **Device.** `OneUpdate` is inductive with the types. `Links` ties a coroutine to
  the pointers: from `DetermineTarget` on, `softwarePending` is its own Software,
  and only then has it a `pendingOld`. With these, `ObjectsStep` shows for every
  step that what is destroyed is what loses its last owner. The theorems
  `NeverTwoUpdates`, `NothingLeaked`, and `DeviceImplementsSlots`, the safety part
  of the refinement, rest on this `IInv`; `Flags`, `Held` and `Withdrawn` extend it
  to `FullInv` for `PowerBlocked`, `OneUpdateInterface`, `ShownIsHeld` and
  `ErrorsWithdrawn`. `PowerBlocked` is about the block until `updateDevice` lifts it
  itself, and that none is left after the update. `Held`, for `ShownIsHeld`, follows
  what the chip holds through an update, in whatever way the device treats it: if
  `misled` is not set it is damaged or holds the image that a success, or the version
  put back by a failure, will show.
- **Software manager.** `InitializedOnce` is inductive with the types, since its
  first conjunct says that `initializingPaths` is what the tasks work on.
  `NotRemovedWhileUpdating` is an action property. `NoneMissed` rests on
  `Accounted`, which says where a configuration that stays may be: not asked for
  yet, found, in a signal, marked, or in `devices` or `refused`.

- **Flash devices.** `MuxInv` says that a device holds all its lines or none and
  that nobody else does. `HostInv` follows the block: a BIOS device blocks
  transitions from its first step, so from its request for Off on nobody can ask
  for the host to be started, and off it stays. That the host is never asked for
  a third state is `PrevInv`. `HostStaysOff` and `MuxNotShared` follow;
  `TornReported` has an invariant of its own, `ToldInv`: nothing is reported
  before the return, and a torn chip means `success` is false.

- **UBI flash.** `TypeCorrect` and `RunningKept` hold for any number of versions,
  slots, priorities and faults, and for clients that do not wait (`Quiet` is not
  used). The invariant adds three things to the types. `todo` holds effects with
  units that start at their first command. `VolumesOwned` says that a volume that is
  not free belongs to a version, so that what is mounted does. `UnitsUnderWay` says
  that a removal that got past the rofs is not of the running version, which its
  busy volume would have stopped, and that an update of the environment knows its
  slot. `Spared` is the step: no volume of the running version loses its content.
  `FirstIn` gives the minimum of a set of slots by well-founded induction on `<`, and
  `RunIsInterval` shows that the priorities `freePriority` moves up follow one
  another.
- **What boots next.** `BootKept` and `ActivatedIsNext` hold for any number of
  versions, slots, priorities and faults under `DefaultLayout`: clients wait, and the
  script keeps two versions, as many as the updater allows. That is the layout of the
  build options. With a limit of 3 the updater does not free space while the script
  already removes a volume, and with 3 and 3 the volume of a removal that failed makes
  the script count one version more than the updater: in both cases `MakeRoom` may
  remove the version that U-Boot is about to boot. `Orderly` says which units can be
  under way together when clients wait: one version at a time is written, the updater
  then knows only of it and the running one, and no version that the environment may be
  pointed at is written or removed. `Counted` says that a version has one rofs at most and
  that two have one, so that `MakeRoom` has one candidate besides the running version.
  `Sound` ties the environment to the volumes: unless an image it named was erased, what
  it names is whole and belongs to such versions, also half-way through an update of
  the environment. `Settled` adds, for `ActivatedBootsNext`, the order of one
  activation: write, signal, environment, signal, with nothing of another version in
  between. Two errors of the model came out of this proof: `half` counted only versions
  that had mounted, and `SetEnv` wrote the variable of a lost version under its id.
- **Priorities after a restart.** `PrioritiesKept` holds under the same layout for any
  number of versions and any `PrioLimit`. A priority is kept on D-Bus, in a file and in a
  U-Boot variable, and a version without a record gets a default that only depends on
  whether it runs. `Recorded` says which of these is behind and what will bring it up
  to date. What a restart would restore (`Kept`) is what is shown, or what was shown before
  the call while the handler has still to save it (`Stored`). The variable equals the file
  unless its unit runs or was cut (`Filed`, `Agreed`), which is why a factory reset,
  which leaves only the variables, is safe when nothing was cut. The hard part is the
  default (`Unrecorded`): if U-Boot were pointed away from a running version without a
  record, that version would be restored as one that does not run. With two versions
  that needs a value of 0 for the other one, which is the priority of the running version
  and so moves it up, and the handler saves the new value before it starts the unit that
  points away (`SavesFirst`). The start-up is such a handler as well, from the very first
  one on (`RestartQueue`): it saves each version it finds once, with the value restored,
  so a second power loss in the middle of it finds some versions recorded and the others
  as before. When a volume is damaged, of the two versions only the one that boots is
  mounted (`OtherBoots`), and the environment can be set to no other.

- **The code of the drivers.** `DriversProofs` proves of the sixteen programs, for any
  number of parts and attempts, what their updates need. `DriversAreSound`: no jump leads
  out of the code (`StaysInside`), a driver that changes one of two images has asked before
  which one is running, on every path (`SelectsFirst`), and up to the last test of the image
  (`Prologue`) nothing is changed, and neither a loop nor a jump leads back over it
  (`RefusesFirst`). `DriversHaveOutlines` and `HeadersHaveOutlines`: each driver has the
  outlines described below. A program is as long as its chip is large, so it cannot be
  looked through instruction by instruction. Each way of putting code together
  (concatenation, `Retry`, `Attempts`, `Rounds`, `Ignored`, `Optional`, `Guarded`,
  `ForEach`) has a lemma that says what it keeps, in four logics: which kinds of
  instructions there are (`Body`), where code divides into tests and changes (`Split`),
  what is known after it if something is known before it (`Passes`), and the same for the
  situations of the header. `ForEach` is where the number of parts comes in: what is known
  after part p grows by its cells, by well-founded induction over the unrolled code. The
  drivers are then taken function by function, as their code is written.
- **Drivers.** `TypeCorrect` says that control never leaves the code. `RunningImageSafe`
  carries along `Chosen`: past the instruction that
  asked, the image to write is the one that does not run, also after a failure, a
  repetition, or a change of the primary image that has not been started yet.
  `RefusedHarmless` divides a program at its last test, `Gate`: up to it the chip is as
  it was (`LookedAt`), and past it (`PastPrologue`) no test is left that could refuse
  the image, whatever fails or starts over.
- **What a driver reports.** Why success means that the image is stored differs from
  chip to chip: a page read back, a checksum compared, a status bit after each word,
  registers written before a store that nothing disturbs. What the drivers share is that
  there is an argument, and `DriverOutline` gives it a form: a proof outline
  names, before each instruction, the cells that hold the image, those that are at least
  erased, those of which this is true unless the chip reports a failure, and what is known
  of the write protection, the one-time cells and the primary image. `IsOutline` says when
  it is valid: what is claimed at an instruction must follow (`AfterSuccess`,
  `AfterFailure`) from what is claimed at each instruction that leads there, the jumps of
  the retry loops included, with the image in its place at the end.
  `ReportedIsStored` shows that a valid outline is true of every execution, for any
  number of updates; `DriversHaveOutlines` gives one to each of the sixteen drivers.
  What the two say is limited in three ways, as the code is. The image is one in which
  the parser found data. For the three drivers of `Unseen` the outline assumes that no
  command was taken badly or passed over (`AfterPassing`), since they would report the
  update as done all the same. And that the write protection is back is claimed for the
  TPS25990 and the RS31390 only, which lock the chip again; the MAX10 is left unprotected.
  `MadeHolds`, `SuccessKnown` and `FailureKnown` are the heart: a
  command that is known to be executed leaves what is meant or sets the flag, and one that
  fails leaves the cells it erases or writes erased or written, which is what the loops
  that send a word again without erasing it rely on.
- **The header.** `HeaderIsRecoverable` is about two areas of one chip and about an
  update that may find the header in its place or only in the backup, so its
  outline names a set of situations before each instruction: what the header's area and
  the data last read are known to hold, and which parts of the backup have been
  copied. In each situation the header or its copy must be whole (`Secured`), also when
  the update ends there. `HeaderInv` ties the outline to the execution, for any number of
  parts, attempts and updates; the first situations are those of a chip at rest
  (`HeaderAtRest`, `BackupStored`), to which every end of an update and every restart
  comes back.

Some theorems state properties that no run checks by name: the guard, the published
associations, `NeverTwoUpdates`, `PowerBlocked`, `ErrorsWithdrawn`, and the types of
`SoftwareManager` and `FlashDevices`. They hold for every instance.

Every safety property of a passing run is stated by a theorem. Model-checked only is
liveness, which the prover cannot reach: `ActivationSettles`, `UploadSettles` and
`ManagerBecomesFree` of the updater, `InitializingEnds` of the software manager,
`UpdateEnds` of the flash devices and of the drivers, and the fairness part of
`ImplementsSlots`.

## 6. What is not modelled

- In the updater: the host BIOS object, field mode, the apply time (`Immediate`
  reboots the BMC), and what a second upload of a live id does. The checks on an
  image are a choice of outcome.
- On the flash: the read-write volume, which is made with the first image and
  kept; the alternate chip and the third command of the ubiro unit, which writes
  it; the copy of the environment before an update; `ubicleanup`. A priority file
  is written whole: a torn one is removed and read as absent
  (`serialize.cpp:81-84`), which is the case of no file.
- In the device: `Ready`, `Invalid` and `Failed`, which are set and, without a
  `co_await` in between, changed or destroyed with the object; ids that collide
  (one of 10000 is drawn at random); the version strings.
- In the software manager: a configuration that `SoftwareConfig` rejects with an
  exception, which leaves `getConfig` outside its `try`; a mapper that fails. What
  these do is decided in sdbusplus. A device that is withdrawn while it is being
  announced is written to after it was destroyed; the model shows the order of
  events but not the effect.
- In the flash devices: a version that is read or stored; `writeSPIFlashDefault`,
  which `bios_device.cpp:22-27` never selects; the polarities of the lines; the
  EEPROM daemon's watch of the host state. A request that the state manager
  refuses leaves `updateDevice` as an exception, `"thrown"` in the model; what
  becomes of the task is decided in sdbusplus.
- In the drivers: the bytes of commands, images and checksums (a checksum that
  matches means equal content), the reading of versions, and two updates on one bus,
  which the multiplexer and the framework keep apart. Waiting for a busy chip is one
  instruction that comes in time or not. The programs name an area where the chip has
  several alike.
- *Image manager.* It unpacks a tarball in a forked child and announces what it
  found; `CreateActivation` takes the announcement from there.
- *MMC and static layouts.* The MMC script writes partitions and the static layout
  leaves its images for the shutdown script: one unit to wait for and no volumes.
- *Synchronisation, side switch.* What an inotify watch loses and what rsync copies
  is decided outside; the side switch is a sequence of calls without state.
- *Signature and ship level checks, PLDM parser.* Straight-line code over OpenSSL,
  version strings and libpldm; their outcome is a choice.
- *USB, download manager, TPM.* Each starts one external program.

## 7. The plan

1. **Refinement.** An abstract device being written, of which `FlashDevices` and
   `DriverUpdate` are both instances, in the place of `updateDevice` in
   `DeviceUpdate`.
2. **Layouts.** MMC as a parameter of `UbiFlash`: two fixed sides in place of
   volumes.
3. **Synchronisation.** The watches that are lost and added again.
