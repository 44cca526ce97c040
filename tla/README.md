# Verification of universal-boot-selector

The program lists the boot entries of a UEFI firmware, lets the user choose one
and reboots into it *once*, by writing the variable `BootNext` and nothing else.
A second, separate command moves an entry to the front of `BootOrder`, for good.
What makes this hard is that nobody holds the firmware: an unprivileged
interface decides, a privileged helper writes, other tools and the firmware
itself may change any variable between two steps, and processes die, time out
or outlive the command that started them.

This directory holds TLA+ modules translated from the code, the TLC
configurations that check small instances, and proofs checked by TLAPS.
`PROJECT.json` maps every definition to the lines it stands for and lists the
hazards of the code, each at its line, with the properties about it.

## 1. Inventory

| Component | State | Operations | Interacts with | What makes it correct | Modules |
|---|---|---|---|---|---|
| Firmware snapshot (`model.rs`, `identity.rs`, `efi/load_option.rs`) | a map from names to bytes | decoding accessors, stable identifiers | everything | a lookup by stable identifier survives renumbering | `FirmwareState` |
| Guard (`guard.rs`) | none | `diff`, `verify_only_boot_next_changed`, `verify_only_boot_order_reordered` | selection, both helpers | accepts exactly the intended change | `Guard`, `GuardCheck` |
| Detection (`detect.rs`) | none | `detect`, `build_entries`, `ordered_ids`, `visible_entries` | snapshot, inventory | availability decides what may be written | `Detect`, `Inventory` |
| Selection (`select.rs`, `backend.rs`) | none | `prepare`, `commit_selection` (8 steps), `reboot_after` | a `BootBackend` | writes and reboots only for what the user confirmed, and says truthfully whether it wrote | `OneBoot`, `BootSelection` |
| Commands (`commands.rs`, `state.rs`) | one mutex over backend and configuration | `prepare_selection`, `confirm_and_reboot`, `set_default_system`, `refresh`, aliases, elevation | web interface, selection | every command ends; the reboot lock | all three of the above and `Window`, `ConfigStore` |
| Linux backend (`linux/mod.rs`, `firmware.rs`, `elevate.rs`) | `read_only` | unprivileged reads, `run_privileged` through `pkexec` with a deadline of 120 s | helper process | no write under `--dry-run`; answers translated without becoming a success | `BootSelection` |
| Linux helper (`service.rs`, `linux_firmware.rs`, `main.rs`) | one process per request | read, check, write, read back, verify | efivarfs | its own guard; the order it writes | `BootSelection`, `Firmware` |
| Reboot (`linux/power.rs`, `windows/power.rs`) | `REBOOT_ARMED` | `arm_reboot`, `reboot` by up to four methods | operating system | never without arming; waits within deadlines; no second restart on top of one that works | `BootSelection`, `Power` |
| Elevated channel (`platform/src/elevate.rs`, `windows/elevated.rs`, `pipe.rs`) | a pipe of a random name, the `elevated` flag | launch, connect, handshake, exchange | Windows helper | bounded waits, clean failures when the helper dies, no helper left behind | `WindowsSession` |
| Windows firmware (`windows/firmware.rs`, `helper/src/firmware.rs`, `privilege.rs`) | a process privilege | per-variable reads and the write | firmware | a snapshot that shows every change | `WindowsSession` |
| Device notifications (`windows/hotplug.rs`, `ui/src/main.rs`) | a channel and a timer | `watch`, `debounce_loop`, `window_proc` | web interface | no lost refresh | `FreshView`, `Window` |
| Web interface (`dist/app.js`) | the view, the selection, the open dialog, `pendingPlan`, timers | open, cancel, confirm, refresh, rename | commands | late answers act on the right dialog | `Window` |
| Configuration (`config_store.rs`, `alias.rs`) | a file and its copy in memory | `load`, `save`, `write_atomically` | commands | never half-written | `ConfigStore` |
| Storage inventory, media (`linux/storage.rs`, `windows/storage.rs`, `media.rs`) | none, but it reads a moving system | `list_devices`, `find_unlisted_media` | detection | an entry gets its own disk; every bootable disk is shown | `Inventory` |
| Binary formats (`efi/device_path.rs`, `efi/reader.rs`, `efi/load_option.rs`) | a position in a buffer | `LoadOption::parse`, `DevicePath::parse` | snapshot | total on any bytes, and nothing read outside the declared list | `EfiParse` |

Behaviours that are hard: the interleaving of the interface's two reads with the
helper's read, write and read; the timeout that abandons a helper it cannot
kill; snapshots read file by file while others write, and that silently miss a
variable; firmwares that acknowledge a write
and do something else; crashes between write and verification; answers, timers
and notifications that reach the window in an order nobody wrote down; disks that
come and go while they are being listed; lengths that come from the firmware.

## 2. The modules

| Module | What it is |
|---|---|
| `FirmwareState` | snapshots and decoded load options (`model.rs`) |
| `Guard` | the two verdicts, as operators on two snapshots (`guard.rs`) |
| `Detect` | listing order, availability, lookup (`detect.rs`, `select.rs`) |
| `Firmware` | the list `write_default_system` builds, and what a firmware may make of a write (`mock.rs`) |
| `OneBoot` | abstract: what choosing a system for the next boot promises |
| `BootSelection`, `MCBootSelection` | the composition on Linux: user, interface, backend, `pkexec`, helpers, firmware, other tools |
| `WindowsSession`, `MCWindowsSession` | the variant for Windows: one elevated helper per session behind a named pipe |
| `FreshView` | abstract: what the list promises about the devices |
| `Window`, `MCWindow` | `app.js`, the commands it calls, the debounce thread and the devices |
| `ConfigStore`, `MCConfigStore` | instances of the application over one configuration directory |
| `GuardCheck` | the verdicts under any history of single changes |
| `EfiParse` | the bounded reader of load options and device paths |
| `Inventory` | the listing of disks on both systems, and the two lists made of it |
| `Power` | the sequence of reboot methods under its deadlines |
| `Parts`, `MCParts` | the four modules above side by side: they share nothing, a behaviour is one of one of them |
| `FirmwareProofs` | lemmas on the operators shared by both systems |
| `GuardProofs`, `BootSelectionProofs`, `WindowsSessionProofs`, `WindowProofs`, `ConfigStoreProofs`, `EfiParseProofs`, `PartsProofs` | theorems on the specifications (`PartsProofs`: on `Power` and `Inventory`) |

`BootSelection` implements `OneBoot` (`BootsOnce`) and `Window` implements
`FreshView` (`ShowsTheDevices`), each through a refinement mapping. The two
systems meet in the operators of `FirmwareState`, `Guard`, `Detect` and
`Firmware`. `Power` is one step of `BootSelection` (`RebootTakesEffect` or
`RebootFails`), `Inventory` its `Inventories`, `EfiParse` what makes an entry a
load option or `Unparsable`; `Window` sees of a command only its call and its
answer.

`FirmwareState` turns the byte map into a total function on `Var` with the value
`Absent`. A decodable `BootOrder` is a sequence of identifiers, a well-formed
`BootNext` an identifier; bytes that do not decode are members of `Garbage`
(globals) or `Unparsable` (entries). `BootCurrent`, which nothing writes while
the machine runs, is left out. A stable identifier is the tuple that
`stable_id_for` hashes; the hash, of which 128 bits are kept, is taken to be
injective.

### `OneBoot` and `BootSelection`

One variable group per process:

- *machine*: `nvram`, the firmware; `plugged`, the partitions present; `host`;
  `uefi`, the answer of `firmware_mode()`, which a running machine does not
  change; `edits`, a counter that only serves the bound `MaxEdits`.
- *interface*: `pc` is where the command that holds the mutex of `AppState`
  stands (`idle`; `prepare`, `confirm` and `default` while a command reads the
  firmware; `call`, `wait`, `verify`, `reboot`); `plan` the plan of the
  open dialog; `wanted`, `target`, `before`, `inventory`, `after` its local
  variables; `armed` is `REBOOT_ARMED`; `reply` what the user was told.
- *helpers*: `helper[h]` is one process started by `pkexec`: `auth` (the
  password prompt), `run`, `write`, `verify`, `answered`.
- *reads*: `seen[r]` is what the read in progress of process `r` may yield.
- *history*: `touched` and `settled` are read by properties only.

An action is a handler up to the next point where another process can be seen:
`ConfirmBegins` takes the mutex and begins to read the firmware, `ConfirmResolved`
is steps 1 to 6 of `commit_selection`, `CallHelper` starts `pkexec`, `TakeAnswer`
is its exit, after which a selection begins to read again, `VerifyFails` and `VerifySucceeds` are step 8 and what `confirm_and_reboot` makes
of it, `RebootTakesEffect` and `RebootFails` the attempt. The helper's
`HelperReads` / `HelperRefuses`, `HelperWrites` / `HelperWriteRefused` and
`HelperVerifies` are the three phases of `write_boot_next` and
`write_default_system`. 
A snapshot is not read in one step, neither by the interface nor by a helper: the
code opens the files of a directory one by one, in an order nobody fixes, and
judges afterwards. A read begins in one action (`BeginRead`) and ends in another
(`EndRead`), and every write of anybody in between is witnessed by it: `seen[r]`
holds every snapshot in which each variable has a value it had at some moment
since the read began (`Witnessed`, `Grown`). What the read yields is one of these,
less the variables of `Missing` that could not be read (`Snapshots`). So a
snapshot may mix what another tool wrote with what it replaced, and a variable may
change between the moment it was read and the verdict.

`Timeout` is the deadline of `wait_with_timeout`. The kill that follows succeeds
only while `pkexec` still has the user's identity: a helper that has been
authenticated keeps running, and its answer is read by nobody.

The environment may edit any variable, plug and unplug disks, kill any helper,
close the interface, and stop the machine, which consumes `BootNext`.

`OneBoot` forgets processes, numbers and snapshots: it has the system the firmware
boots next, the one the selection is about, the one the program says is next,
whether the program made sure of it, and whether the machine has been asked to
restart. Its substance is in two guards: `Restart` needs `MakeSure` in the same
selection, and `MakeSure` needs the firmware itself to go to the system asked for,
if it has not changed since the program began to `Look` (`calm`). Without that
condition the promise would be false of any program that reads one variable after
another. The mapping reads `goes` off `nvram`, not off a snapshot, so the
refinement says that, while nobody else writes, the guard's comparison of two
snapshots is enough to know the present, and `calm` says exactly when it is not.

### `WindowsSession`

On Windows the interface cannot even read the boot variables, so all its reads
go through the helper it elevated, once, for the session. The module shares
`Guard`, `Detect` and `Firmware` with `BootSelection` and has its own processes:

- *interface*: `pc` is where the command that holds the mutex stands: `prompt`
  (the UAC dialog), `connect` (`ConnectNamedPipe`), `hello` (the handshake), then
  the commands, whose every read and write is an exchange (`prepare`, `before`,
  `write`, `after`). `launching` is the helper that `launch_helper` waits for,
  `channel` the one of `ElevatedWindowsBackend`.
- *helpers*: `started`, `serving` (waiting for a line), `run`, `entries`, `write`,
  `verify`, `compare`, `answered`; `gone` is a dead process whose interface has not
  noticed. `privileged` is the result `enable_privilege` memoizes, `version` the
  protocol the executable speaks.
- the pipe is the pair of these places: `Asked` and `Reply` are the two directions,
  `Attached` says whether its other end is open.

A snapshot takes two steps here, globals then entries, since the helper asks for
the variables one by one and another tool may write in between; several edits
within the entries are merged into one. `Covered` is what a snapshot holds:
entries that `BootOrder` names or that are below `PROBE_LIMIT`. Every read of a
helper may fail in each way `classify` knows (`ReadFailures`): `PrivilegeRequired`
and `NotUefi` are told apart call by call, before the write and after it. The
machine itself is a UEFI one, without which there is nothing to select.

As long as no helper is connected (`channel = None`) the interface uses
`WindowsBootBackend`: it reads the firmware itself, which succeeds only in an
elevated process (`LocalReads`, `PrepareLocally`), and refuses every write
(`ConfirmLocally`). A dialog opened that way may still be open when the helper is
connected, and is then confirmed through the helper. That local read is one step,
because it decides only whether a dialog opens.

The environment is that of `BootSelection`, except that disks are represented by
what `list_devices` may return. A closed interface detaches its helper, which
finishes the request it has read.

### `FreshView` and `Window`

`Window` follows a change of the devices from the kernel to the list:
`PlugOrUnplug` posts one message per volume, `Absorb` and `WindowEnds` are
`debounce_loop`, `DevicesChanged` is the listener in `app.js`, `Serve` a command
under the mutex, `Receive` the continuation of an `await`. Everything else is a
click, Escape or a timer, possible at any moment between a call and its answer.
The parts of the state are the message channel (`raw`, `absorbing`, `events`), the
calls not served and the answers not received, and of the script the last
`AppView`, `selectedId`, the dialog with `pendingPlan`, and the timers of
reports.

What the module takes from outside `src/`: the commands are synchronous, served
one at a time in the order of the calls, and their answers arrive in that order;
a notification is posted after the change it announces. The message loop and the
thread of `start_device_watcher` only relay. Two things a reader might not
expect are in the code: the attribute `hidden` has no effect on the buttons of
the dialog, because the `display` of the class `btn` overrides it
(`styles.css:273-274`; only `.overlay[hidden]` is restored, line 345), and with
the keyboard a button behind the dialog can be pressed.

`FreshView` knows versions of the devices only. That the version shown never goes
back rests on the order of the answers; that the last one arrives rests on every
notification leading to a refresh *after* it, which is why the channel must keep
what arrives while an event goes out.

### `ConfigStore`

One step per call of the operating system in `save` and `write_atomically`, with
a failure of each, a kill between any two, and any number of instances of the
application, which all use the name `config.json.tmp`. `open[i]` is the name that
the file instance `i` has open goes by now: a renamed or replaced file stays
open.

Two things it shows are not properties, because the code does not try to prevent
them. If two saves overlap, one instance may rename what the other is writing,
and the configuration may end up torn or an older one; a torn file is read as the
default configuration, without aliases, and the next save makes that permanent. And a
failed save leaves the memory changed, so the window shows a name that the file
does not hold. Nothing asks for the data to be on the disk before the rename,
which a loss of power may turn into an empty file on some file systems; the model
ends at the system call. `sanitize` drops an alias that `normalize_alias` would
refuse but does not normalise the others; names are abstract here.

### `Parts`: `GuardCheck`, `EfiParse`, `Inventory`, `Power`

- `GuardCheck` grows a pair of snapshots by single changes and asks both verdicts
  at every step.
- `EfiParse` keeps positions and lengths. A byte is chosen when it is read, so a
  behaviour stands for all the buffers that would give it. A final node is one of
  the list, a body shorter than its form makes the node `Other`, as in
  `decode_body`.
- `Inventory` has one step per directory, disk or query read, and then the branches
  of `detect`: the entries of a UEFI machine (`ReadEntries`), a machine without UEFI,
  which has disks but neither entries nor unlisted media (`LegacyBios`), a mode or
  a firmware that cannot be read (`DetectFails`). On Linux the disks
  come from sysfs and the GUIDs from two directories of links that udev puts right
  one by one, later; on Windows from two queries. What is read is joined by the
  name of a disk, which another disk may have taken meanwhile.
- `Power` counts time in ticks and takes a deadline before the next tick. A command
  that is given up may still take effect (`leftover`): `systemctl` and `dbus-send`
  have sent their request, and an authenticated `pkexec` cannot be killed. After a
  command that fails, its standard error is read to the end (phase `stderr`): no
  deadline bounds that, and the model leaves the phase when it likes, or never.

## 3. What is checked

Every run finishes within two or three minutes on two cores. The slots,
identifiers and options of each are the smallest for which the hazard appears.

| Run | Instance | Question |
|---|---|---|
| `HostileFirmware` | fairness, 2 identifiers, 3 options (one an inactive duplicate), 5 firmware behaviours, reads that miss `BootOrder` or an entry, or fail with `NotUefi` or `Io` | does the application reboot only into what it verified, when may its errors be untrue, and does every command end? |
| `OtherTools` | 2 identifiers, a correct firmware, 1 change of any variable by another tool at any moment, 1 removable disk, reads that fail with `Io` | does a resolution by stable identifier survive it, and is the whole an implementation of `OneBoot`? |
| `LateHelper` | 2 helpers (symmetric), no edits | what is the verification of the next command worth when a helper that outlived its own still writes? |
| `DefaultOrder` | 3 identifiers, a `BootOrder` that names one twice and one without an entry, 1 change by another tool, firmwares that obey, ignore a write or lose an entry | is the written list the one that was read with one identifier moved to the front, and what does success of the permanent command mean? |
| `WindowsSession` | fairness, 1 helper of either of two versions, privileged or not, 5 firmware behaviours, 1 edit, entry 1 above the probe limit, reads that fail in three ways | what may a session on Windows report and promise, and does it always go on? |
| `Window` | fairness, an internal disk with an entry and a stick without one, 2 changes of the devices or dialogs in all, 2 calls unanswered, elevations that end or do not | does the list catch up with the devices, and does a dialog do what its title says? |
| `ConfigStore` | fairness, 2 instances, 1 key and 1 malformed one, 2 valid names and 1 refused | does the file hold what was saved, whatever dies or fails? |
| `Parts` | 3 identifiers and 8 values of `BootOrder`; 6 sizes, 10 declared lengths, 8 node lengths, 3 nodes; 2 slots, 3 disks, 2 moves, with and without UEFI; every set of reboot methods with 4 speeds of shutdown | do the verdicts mean what they should, does the parser stay in its list, is the inventory true, do the deadlines bound the waits of a reboot? |
| `HelperNeverConnects`, `StaleReport`, `PromiseAtVerification`, `DefaultRenumbered` | | section 4 |

Bounds. Two identifiers and two systems are enough to swap, to redirect and to
lose an entry; three are needed for "the others keep their order". One edit
distinguishes every pair of adjacent reads, since it may fall anywhere, in the
middle of a read included. Two
helpers are the late one and the current one. On Windows one slot is enough for
TLC (two exceed it): what an orphaned helper may still write is one of the edits,
and the proofs hold for any number. Commands may be repeated without bound, so
sequences of calls need no counter. In `Window` two dialogs are the confirmed one
and the one its late answer meets; two changes are one absorbed and one that
arrives while the event goes out. In `Parts` the lengths lie below, at and above
the limits of the code (a hard drive node has 42 bytes, so 41 and 42 are among
them), and two moves are a disk that leaves a name and another
that takes it. The theorems of section 5 hold without a bound.

Deadlock is checked except in `Window`, which ends when the machine goes down, and
in `Parts`, whose parts are straight-line code that ends.

The main properties:

- `BootsOnce`: `BootSelection` implements `OneBoot`. Among what it forbids: a
  restart asked for by the permanent command or after a selection that failed,
  and a verdict that names a system the firmware does not boot next although
  nobody wrote while it was read.
- `RebootOnlyVerified`: when a reboot is attempted, the interface's two snapshots
  agree on everything but `BootNext`, which designates an entry that carries the
  confirmed stable identifier and was selectable.
- `LandsOnConfirmed`: if nobody writes while the interface reads the firmware back,
  then from the acceptance by the guard until somebody writes, the *firmware* (not
  a snapshot) boots the confirmed system next, also if the automatic reboot failed
  and the user was told to reboot by hand. It holds although a read may miss
  variables: a variable that both reads miss cannot be `BootNext`. The condition
  is what the code can promise, and no less is hidden in it: a tool, or a helper
  that outlived its command, that writes during that read or later does redirect
  the boot, and `RebootOnlyVerified` is then all that remains.
- `WritesOnlyWhatWasAsked`: the step that changes the firmware on behalf of a
  command is about the entry the user chose, selectable in the command's own
  snapshot.
- `PromiseFailsOnlyAtReadBack`: "aucune modification n'a ete effectuee" is said
  after a write only if the firmware cannot be read back, by the interface or by
  the helper, after a write that succeeded. The unconditional `PromiseKept` is
  refuted (section 4); this property says that its defect is the only one: no
  refusal, dismissed prompt, timeout, death of a process or verdict makes the
  same promise, whatever errors reads may return.
- `DefaultOnlyReorders`: the step in which a permanent command changes `BootOrder`
  moves the target to the front of the list *its helper read*, and keeps the
  others in order, dangling and repeated ones included. `DefaultVerified`: a helper
  answers that the default is applied only if every variable but `BootOrder` had,
  at some moment since the write, the value of its first snapshot, and `BootOrder`
  was a reordering that starts with the target. If nobody wrote since, that is
  what the firmware holds; if somebody did while the helper was reading, it can
  have missed it. Both are action properties: what another tool does later is its
  own affair. A change it made to `BootOrder` between the helper's read and its
  write is lost, and neither property says otherwise.
- `ServedByGreeted`, `SessionLands`, `SessionPromiseFailsOnlyAtReads`: the helper is asked
  nothing before a greeting in the common version; the next boot goes where the
  report says, although the helper has judged its own write and the firmware may
  have changed after that judgement; and the promise that nothing was written
  fails, as on Linux, only at a read that follows the write. `enable_privilege`
  remembers its result, but the error of each call is classified anew, so that
  such a read may still answer `PrivilegeRequired` or `NotUefi`.
- `ServedCommandsEnd`, `OrphansEnd`: a pipe that closes releases whoever waits on
  it, in both directions.
- `ShowsTheDevices`: the refinement of `FreshView`, with its liveness.
- `OneConfirmPerDialog`, `ConfirmsOnlyWhatTheTitleNames`, `SelectionIsListed`,
  `RebootingEnds`: dialogs that open over one another, answers that arrive after
  Escape, rows that vanish while selected. A failed inventory makes every entry
  available, a failed detection empties the view; neither may leave a ghost.
- `OldOrNew`: unless two saves overlapped, the file holds exactly what the last
  successful save wrote. `SaveEnds`: every save ends.
- `AcceptsOnlyBootNext`, `AcceptsOnlyReordering`, `ObeyedReorderingAccepted`: the
  verdicts of `guard.rs` are equivalent to definitions that do not follow its
  control flow.
- `NodesTileTheList`, `IdentityComesFromTheList`: whatever lengths the firmware
  wrote, nodes neither overlap nor leave the list, and the bytes that identify a
  system are inside it.
- `EntryGetsItsOwnDisk`: however disks and links change during a listing, a
  partition is attributed to another disk than its own only if two disks had the
  same name. `QuietListingIsTrue`, `EveryBootableDiskShown`: on a UEFI machine, when
  nothing changes, availability is true and no bootable disk is in neither list,
  whatever the preferences. (Without UEFI both lists are empty.) The second excepts a disk that an entry internal to the firmware
  names: that entry may be hidden and still keeps the disk out of the other list.
- `DeadlinesBoundTheWaits`, `NoMethodAfterOneThatWorks`: waiting for commands and
  watching the machine take at most the sum of the deadlines, with the mutex held
  all the while, and a method that works is the last one tried. The time for which
  the standard error of a failed command stays open comes on top and has no bound.

Fairness. `BootSelection` and `WindowsSession` (`FairSpec`): weak fairness of a
command of the interface and of each helper's own steps: both are straight-line
code without waits, except the wait for `pkexec`, which polls against a deadline,
so that `Timeout` happens if nothing else does. Nothing is assumed of the user, of
the authentication agent or of other tools, nor of the reboot: on Linux it may
wait for a command's error output (`Power`), so `CommandEnds` goes up to the answer
or to the reboot. It would fail without the deadline. The UAC prompt belongs to the user, hence `ServedCommandsEnd` starts at
the handshake. `Window`: weak fairness of the debounce thread (`Absorb`,
`WindowEnds`), of the delivery of an event (`DevicesChanged`), of the commands
(`Serve`), of their answers (`Receive`) and of timers (`TimerFires`): all are
queues served in order. Commands are served by the thread that holds the mutex,
and one of them may never end: an elevation whose helper does not connect
(`HelperNeverConnects`). It is an action of its own, `NeverEnds`, which nothing
forces and nothing excludes; after it no command is served and `FreshView` promises
nothing more (`told`). That every other command ends is `ServedCommandsEnd`: devices
are watched on Windows only. Nothing is assumed of the devices or of the user. `ConfigStore`: weak fairness of a save in progress.

## 4. Where code and documentation disagree

Each is a run that TLC finds violated; the quotations are in `PROJECT.json`.

1. `PromiseAtVerification`: `commit_selection` reads the firmware back after the
   write; if that read fails with an error classified as harmless
   (`PrivilegeRequired` in the run), `confirm_and_reboot` promises that nothing was
   written. The same happens, to both commands, when the helper's own second read
   fails with `NotUefi`, and on Windows to both reads that follow a write
   (`SessionPromiseFailsOnlyAtReads` names them).
2. `DefaultRenumbered`: the permanent command passes a number across the password
   prompt; if entries are renumbered meanwhile, another system becomes the
   default and success is reported. The selection command does not have this
   weakness, because the interface verifies with its own earlier snapshot.
3. `HelperNeverConnects`: `CONNECT_TIMEOUT` is only read after `ConnectNamedPipe`
   has returned with an error, and a blocking pipe does not return: a helper that
   dies between the prompt and its connection blocks the interface for good.
4. `StaleReport`: the answer of `confirm_and_reboot`, or the timer it set, rewrites
   the body of whatever dialog is open by then; that dialog's confirm button is
   enabled and does what its title says, not what its body says.

Others met while modelling, without a run of their own:

- `linux/power.rs:71-82` gives every reboot command a deadline, but the standard
  error of one that fails is read to its end (`power.rs:300`): a process it left
  behind can hold the mutex for as long as it likes.
- A `BootOrder` that lists the target twice is shortened for good by the permanent
  command; the guard reports it only afterwards (`ObeyedReorderingAccepted` says
  exactly when an obeyed write is accepted).
- The "complete" snapshot of the Windows `write_boot_next` does not hold entries
  above `PROBE_LIMIT` that `BootOrder` does not name, so their loss is not seen.
- The reboot lock, once armed, stays open through the errors of later commands,
  although `commands.rs:13` says that an error leaves it closed;
  `RebootOnlyVerified` holds all the same.
- `README.md` and `model.rs:85` still say that `BootOrder` is never written.
- The comment at `linux/power.rs:116-117` takes a machine that is still there after
  eight seconds for one where the method had no effect. A shutdown that takes
  longer is reported as failed, and another method is tried on top of it:
  `NoMethodAfterOneThatWorks` has the observation's length in its hypothesis.
- `detect.rs:164-166` says that only an exploitable inventory may conclude that a
  device is missing; an inventory that lists disks without GUIDs (no
  `by-partuuid`) is taken for exploitable, and every entry is declared missing.
  `QuietListingIsTrue` has both directories of links among its hypotheses.
- The search for `pkexec`'s target accepts `/usr/sbin/shutdown` but the command run
  is `/sbin/shutdown`.

## 5. What is proved

For every value of the constants: any number of entries, helpers, instances,
disks and edits, any firmware contents, any lengths and delays.

*Operators* (`FirmwareProofs`). The list written by `write_default_system` starts
with the target (`MoveToFrontType`), holds the others as often as before
(`MoveToFrontKeepsOthers`), the target once (`MoveToFrontListsTargetOnce`) and
keeps the others in order (`MoveToFrontKeepsOrder`). The filter is defined by the
rank of a position among those kept, and the proofs rest on the rank being a
bijection, so that no induction is needed.

*Guard* (`GuardProofs`). `GuardAcceptsOnlyBootNext`; `GuardAcceptsOnlyReordering`,
whose core is that two lists with the same number of occurrences of every
identifier are permutations of each other: the permutation is put together from a
bijection per identifier, between its positions in the two lists; and
`GuardAcceptsObeyedReordering`: if the firmware obeys, the reordering is accepted
exactly when the target was listed once.

*Selection* (`BootSelectionProofs`). None of the safety properties is inductive:
that a reboot is attempted says nothing unless one knows that the snapshot held
since `ConfirmResolved` is a state in which the target was found. The inductive
invariant is `IInv == TypeOK /\ CommandInv /\ HelperInv /\ WatchInv`:

- `CommandInv`: a command past resolution has a target that its snapshot shows to
  be the wanted, selectable entry (`Resolved`); a command that reboots holds a
  second snapshot the guard accepts and an armed lock; only a waiting command
  has a helper.
- `HelperInv`: a running helper has a request, one about to write also a snapshot
  and, for the permanent command, a decodable `BootOrder` in it.
- `WatchInv`: what the firmware holds now is among what a read in progress may yield.

`Invariance` proves it by one lemma per process. `TypeCorrect`, `RebootVerified`,
`Lands` and `OnlyAskedWrites` follow; `Lands` adds that a step either leaves the
firmware alone or clears `settled`, and that a read that witnessed no write yields
the firmware itself. `DryRun` and `PromiseAtReadBack` have inductive invariants of
their own (`DryRunInv`, `PromiseInv`). `PromiseAtReadBack` assumes nothing of the
errors a read may return.

`Implements` is the refinement of `OneBoot`. It needs one more invariant, `OpInv`:
the helper a command waits for works on that command's kind of request and says
`Written` only to a selection, so that the permanent command never verifies nor
reboots. `AcceptedDestination` then turns an accepted pair of snapshots into the
destination of the firmware when the read that gave the second was calm, and each
action maps to one step of `OneBoot` or to none.

The permanent command: `OnlyReorders` and `DefaultIsVerified` are action properties,
so each is proved for the step that could break it. `OwnStep`, `WriteStep` and
`VerdictStep` say which that is: a helper moves by a step of its own, reaches its
verification by `HelperWrites` only, and answers that the default is applied by
its own guard only. `IInv` gives the write a decodable `BootOrder` in the snapshot;
the theorems about `MoveToFront` then give the positions of the list written,
whichever behaviour of the firmware is left after those that leave `BootOrder`
alone. The verdict is turned into what each variable held at some moment of the read
by `GuardAcceptsOnlyReordering` and by what a read may miss.

*Windows* (`WindowsSessionProofs`). `SessionInv == InterfaceTypeOK /\ HelpersOK /\
CommandInv`. What makes `SessionLands` inductive is `ChannelHelper`: while the
interface waits, the helper at the other end is greeted, works on what was asked
and, since the guard's read began, has read nothing but the truth unless somebody
wrote (`ReadsTruth`); `TargetKnown` and `HistoryInv` say what the command knows
and when the history variables cannot hold yet. There is one lemma per action. The
records of helpers are handled through predicates on a record (`ServingRecord`,
`RunningRecord`, `AnsweringRecord`), proved once. From the invariant: `SessionTypes`,
`SessionServed`, `SessionLanding`, `SessionPromise`.

*Window* (`WindowProofs`). `WindowInv`: the views on their way are in order of
version and none is newer than the devices (`ViewsInOrder`); the dialog shown was
opened for its title, and each open one that can still be confirmed accounts for
an opening without a confirmation (`DialogInv`). From it `WindowType`,
`WindowOneConfirm`, `WindowSelection`, `WindowConfirms`, and `WindowRefines`, the
safety part of the refinement of `FreshView`; its liveness is left to TLC.

*Configuration* (`ConfigStoreProofs`). `StoreInv` adds `SavesAlone`: without an
overlap the save in progress has the temporary file to itself, empty before it
writes and complete after. `StoreType` and `StoreOldOrNew` follow.

*Parser* (`EfiParseProofs`). `ParserInv` adds where the reader stands with respect
to the last node and that a hard drive node has the body of one: `ParserType`,
`ParserTiles`, `ParserIdentity`.

*Power* (`PartsProofs`). `PowerLastMethod`, because the ticks of the observation and
those of the shutdown pass together (`Watched`). `PowerWaits` needs an invariant
that pays for what is left: `InTime` says that the ticks waited, those left of the
phase and the `Budget` of the methods still to try make no more than the budget of
all the methods of the machine, plus, while a method is being tried, the part of
its own cost that is still in `ticks`. No list of methods repeats one
(`MethodsListed`), so that giving up the head releases exactly its cost
(`TailBudget`). The sum is written out over the four methods: a fold would need
an induction.

*Inventory* (`PartsProofs`). `InventoryType` and `InventoryOwnDisk`, because whatever
a link, a list or a device says was in a slot, the slot has held (`LinksWereHeld`,
`ReadingsWereHeld`, `DevicesWereHeld`). That a quiet listing is true is a statement
about its end; what is inductive is `QuietInv`: a disk is in one slot
(`OneSlotEach`), and as long as nothing has moved since the listing began and udev
has caught up, each thing read so far is what is there (`ReadSoFar`), links, names,
devices and the answers of the two Windows queries. `QuietInvariance` proves it with
one lemma per action. From the end of the listing `QuietEntries` and `QuietMedia`
deduce what the user sees: `InventoryQuietListing`, `InventoryShowsDisks`. The
argument needs that two partitions of a disk do not have the same number
(`NumberAssumption`): a listing joins by disk and number.

The assumptions on the constants are typing facts and `NumberAssumption`, named
where the constants are declared; TLC evaluates them in every run.

Every safety property a passing run checks, invariant or action property, is
stated by a theorem. Only model-checked is liveness, which is beyond the prover:
`CommandEnds`, `ServedCommandsEnd`, `OrphansEnd`, `RebootingEnds`, `SaveEnds` and the
fair part of `ShowsTheDevices` (`CatchUp` of `FreshView`). The four properties of
section 4 are refuted.

## 6. Not modelled, and why

- Labels, names, icons, warnings, sizes, themes and messages: wording. The tables of
  `identify.rs`, which recognise a system by the path of its loader, and of partition types
  (`gpt.rs`): constants. GUID formatting (`efi/guid.rs`).
- The rename form and the status line of `app.js`: they read no answer of another
  command. The command line tools: read-only listings.
- Staging of the helper for an AppImage: one failing call (`CallFails`).
- Collisions of the stable identifier (128 bits of a hash) are excluded.
- The check of `no_destructive_code.rs` and the build are not part of the running
  system.

## 7. Plan

1. A composition of `Window` with `BootSelection`, to replace the answers chosen
   freely by those of the commands.
2. A larger `WindowsSession` instance with an orphaned helper beside a session, now
   covered by the proofs only.
