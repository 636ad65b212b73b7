# Verification of nvplayground-custom

TLA+ models of `nvplayground`, the Linux port of a program that brings up early
NVIDIA GPUs (NV3, the RIVA 128) by programming their registers, with TLC
configurations that check them and TLAPS proofs about them. Source paths below
are relative to the `src/` directory of the repository.

Run a configuration with `tlc -config MCNv3.cfg MCNv3.tla`, a proof with
`tlapm NvplayProofs.tla`. `PROJECT.json` lists every run, the source lines of
every definition, the hazards, the findings and the theorems.

## 1. The system

| component | source | state it keeps | operations | what makes it correct |
|---|---|---|---|---|
| process life cycle | `main.c` | the exit path of `main`, the stack of signal handlers | `main`, `signal_handler`, `cleanup` | what was acquired is released on every path; a caught signal ends the process |
| resources | `core/nvcore_io.c`, `core/pci/linux_pci.c`, `core/pci/virtual_pci.c` | static pointers `pacc`, `mem_fd`, three mappings, or three heap arrays in the virtual build | `pci_init`, `init_mmio_mappings`, `virtual_pci_init`, their cleanups | a pointer is set exactly while the resource is held |
| detection, PCI configuration | `core/nvcore_detect.c`, `core/pci/*` | `current_device` (bus, function, device info), the virtual configuration space | `nv_detect`, `pci_does_device_exist`, `pci_read_config_*` | the right GPU is found and its own BARs are read |
| register access | `core/nvcore_io.c`, `core/pci/virtual_pci.c` | three mappings or one array | `nv_mmio_read32`, `nv_mmio_write32` | one address, one word; nothing is accessed before it is mapped |
| NV3 bring-up | `architecture/nv3/nv3_core.c`, `nv3_ref.h`, `nv3_state.h` | `nv3_state`, fields of `current_device`, the chip itself | `nv3_init`, `nv3_init_test_overclock` | the chip only runs at clocks that suit it, its shadows are true, the test ends at base |
| mode table | `architecture/nv3/nv3_mode_table.c` | constants | none | the mode `nv3_init` picks fits into the memory found |
| GDB stub | `gdbstub.h` | packet buffers, saved registers, `handler_mutex`, `no_ack_mode`, `was_interrupted` | packet reader and writer, command loop, exception and tick handlers, `gdb_checkpoint` | a packet is taken whole or not at all; the debugger sees and moves the program and nothing else; each request is done and answered, in order |
| not modelled | `nv3_class_names.c`, `util/*`, `CMakeLists.txt`, `.vscode/` | none | none | strings without a reader, empty files, build files |

How they interact. There is one thread. `main` calls `pci_init`, `nv_detect`
and, through a function pointer of the device table, `nv3_init`; that one reads
the BARs, calls `init_mmio_mappings` and then works on the chip through
`nv_mmio_read32` and `nv_mmio_write32`. `SIGINT` and `SIGTERM` can interrupt
any of this; their handler calls the same `cleanup` as `main` and then
`exit(1)`, so a handler never returns. The build option `USE_VIRTUAL_PCI`
(on by default in `CMakeLists.txt`) exchanges the PCI and register back ends.

`gdbstub.h` comes from the DOS version of the program; no file of the Linux port
includes it. A program that does is stopped by `gdb_start` and by every
exception; the signal handlers save its registers and run `gdb_loop`, which talks
to a debugger over a serial line until it is told to continue. While the program
runs, a timer tick looks for bytes on the line and sets `was_interrupted`, and
`gdb_checkpoint`, which the program must call, stops it.

What is hard here:

* a handler that runs `cleanup` on top of anything, a half-done `cleanup`
  included, and a second signal on top of the first;
* the window between a system call and the store of its result, and the one
  between a release and the reset of the pointer;
* `init_mmio_mappings` failing half way, undoing its work and leaving its
  pointers set, before `main` cleans up once more;
* identifying a device twice, once by its IDs and later by a lossy address;
* a coefficient built by unmasked shifts in a loop of about ninety rounds;
* two register windows over one BAR with a hole between them;
* a table of devices with a sentinel, and the bounds of three read widths;
* a fault inside the debugger's memory access, which enters the handlers a second
  time and overwrites the saved registers;
* packets cut short, damaged, repeated or lost, and an acknowledgement of one
  byte that is anything but `+` as soon as something else comes first;
* acknowledgements switched off in the middle of an exchange; break bytes and
  protocol bytes that the tick handler cannot tell apart;
* a request lost while acknowledgements are off, which neither side hears of.

## 2. Modules

| module | models | extends |
|---|---|---|
| `Nv3Ref` | register fields, memory sizes, the clock coefficient | |
| `Nv3ModeTable` | `mode_table` | |
| `Nv3` | `nv3_init` after the mappings, and the clock test | `Nv3Ref`, `Nv3ModeTable` |
| `NvPci` | `nv_detect`, both PCI back ends, the BAR reads of `nv3_init` | |
| `Lifecycle` | abstract: what a process promises about its resources | |
| `Nvplay` | the whole process: acquisition, detection, bring-up, signals, cleanup; implements `Lifecycle` | `Nv3`, `NvPci` |
| `FlatSpace` | abstract: a flat space of independent words | |
| `NvIo` | the register windows; implements `FlatSpace` | |
| `GdbPacket` | `gdb_read_packet`, byte by byte | |
| `GdbStub` | exceptions, handlers, `gdb_loop` and its commands, the program | |
| `RequestReply` | abstract: requests done and answered one at a time | |
| `GdbSession` | a debugger and the stub over a faulty line, the tick handler, `gdb_checkpoint`; implements `RequestReply` | |
| `MC...` | the instances for TLC | one of the above |
| `Nv3Proofs`, `NvPciProofs`, `NvplayProofs`, `NvIoProofs`, `GdbPacketProofs`, `GdbStubProofs`, `GdbSessionProofs` | theorems and proofs | one of the above, `TLAPS` |

Operators whose comment begins with "Fault" are seeded faults: a variant of the
definition that follows with a slip a programmer could make (a forgotten reset,
a loop bound off by one, a missing null test). No specification uses them. Every
property of a passing run is violated when one of them takes the place of the
definition; `PROJECT.json` says which.

### Nv3

`chip` holds the registers the program touches, `found` what they held when the
program started, `nv3_state`, `current_device` and `clock` the program's copies and
locals, and `at` the program counter. There is one action per statement group of
`nv3_init` that touches the chip: `ReadBoot`, `SizeVram`, `ReadStraps`,
`ReadClocks`, `EnableSubsystems`, `EnableInterrupts`, `SetDefaultMode`; then
`StartTest`, the loop `WriteMclk`/`Sleep`, and `RestoreMclk`. A register write and
the store of its shadow are one action, as nothing reads `nv3_state` in between. The
pixel clock coefficient, which is read once and printed, is left out. The card may
have been posted by its VBIOS or not, so NV3_PMC_ENABLE and NV3_PMC_INTERRUPT_ENABLE
start with any value (`PmcEnables`, `IntrEnables`); the code reads neither. A shadow
agrees with its register from the moment it is set, that of the clock after
`ReadClocks`, that of NV3_PMC_ENABLE after `EnableSubsystems`, and `ShadowsAgree`
says no more. The first reads of the straps and the second (inside the test) are
separate reads of `chip.straps`, as in the code.

`Coeff` puts the fields of a coefficient together with OR, as the code does: the
fields are not masked, and an n of 256 would set the bit of P = 1, which is set
already, and leave an N of 0. `mode_table` has its twelve entries, of each the
width, height and depth, which are what `nv3_init` looks at.

### NvPci

A device list of libpci is a sequence of records; a configuration word is the
tuple of its bytes. `Probe` is one round of the loop of `nv_detect` with the
whole call of `pci_does_device_exist`: on hardware a search of the list, in the
virtual build the registration of whatever is asked for. `FunctionNumber` is
`dev | (func << 3)` bit by bit. `ReadBars` does the two configuration reads of
`nv3_init` and its mask. The list itself comes from libpci, which is external:
any list in the constant `Buses`, whose devices have the fields of `struct pci_dev`
(`ReportedDevices`: a slot of five bits, a function of three, words of four bytes).

The hardware back end defines `bool pci_init(void)` and calls
`pci_init(pacc)` of libpci in it, and the same for `pci_cleanup`; C has no
overloading, so this file does not compile against libpci as it stands. The
calls with an argument are modelled as the libpci functions they are meant to
be.

### Nvplay

`held` is what the kernel and libc think the process holds, `ptr` what the
static pointers say; a resource is acquired in two steps, the call
(`AcquireNext`) and the store of its result (`StoreAndGoOn`, `StoreNoPacc`,
`StoreNoMemFd`, `StoreNoMapping`, `StoreVirtual`, according to what failed and
what the code then does), and released in three: `Test` of the pointer,
`ReleaseIt`, `Clear`. `Undo` is the release without reset on the error paths of
`init_mmio_mappings`. Resources are numbers in the order of acquisition; `Nth`
is the order of release: the reverse on hardware, the same order in the virtual
build.

`running` is the frame on top of the stack: `main`, or the handler of the last
signal. `Deliver(s)` puts a handler on top at any point; the frame under it is
frozen, as handlers end in `exit(1)`. A signal is blocked while its own handler
runs, so each is delivered at most once, and the stack is at most three frames
deep with two signals. The actions of `Nv3` and `NvPci` run inside `main`
(`BringUp`, `Detect`, `InitFunction`), so a signal can cut the bring-up between
any two of its steps.

A second `free` or a second `pci_cleanup` of the same thing is undefined
behaviour: `ReleaseTwice` lets it kill the process, `ReleaseIt` lets it have no
visible effect. A second `munmap` or `close` returns an error and has no
effect: nothing is mapped or opened between the two.

Left out: the `*_mapping` fields of `current_device`, which are written and
never read; output; the state inside libc (a handler that interrupts `malloc`
while it holds its lock); signals before the handlers are registered, whose
default action ends the process.

### NvIo

`Window`, `Offset` and `Cell` translate an address as the `if` chains of
`nv_mmio_read32` and `nv_mmio_write32` do, and `Start` is what
`init_mmio_mappings` maps. A word of the card is named by its physical place,
so that VRAM and RAMIN, which share BAR1, could collide if the offsets were
wrong. The card is passive: a register that changes by itself would only add
steps to both this module and `FlatSpace`.

`ptr` has the static pointers, `mapped` what the kernel maps. `OpenDevMem`,
`MapWindow` and `MapFails` are `init_mmio_mappings`, one window after the other:
a failing `mmap` leaves MAP_FAILED in its pointer, and the windows before it are
unmapped with their pointers left set. A pointer that is not null is all that an
access looks at, so what keeps the driver away from such a pointer is that
`nv3_init` returns when `init_mmio_mappings` returned false (`DriverRuns`).
`StartCleanup` and `UnmapWindow` are `cleanup_mmio_mappings`, RAMIN first, which
may come at any point, as a signal does.

### GdbPacket

`line` is the sequence of bytes that `serial_port_getc` returns: what the debugger
sends and, since getc does not look at the status of the BIOS, whatever it returns
on a timeout. Each action is one getc with what the code does up to the next one.
`buffer` has one cell more than `input_buffer`, the first of `output_buffer`, which
follows it in `ctx` and where the terminator of a full packet goes. `checksum` and
`xmitcsum` are unsigned chars, so sums wrap; a digit that is not hex counts as -1.
`Sum256`, the sum of the properties, is a recursive function on the prefixes of the
packet: the proofs can reason about that, and not about a fold.

A packet of `IO_BUFFER_SIZE` bytes or more is dropped without an answer, although
the stub announces `PacketSize=1048576` (`gdbstub.h:480`): `EveryFrameAnswered` is
about packets that fit.

### GdbStub

`frames` is the stack of active handlers, each at a place of its code, and is empty
while the program runs. A context is EIP, the trap flag and EAX, which stands for
the other registers; `cpu` is what the processor had when it was interrupted and
`registers` is `ctx.registers`. Each command of `gdb_loop` is an action; `m` and
`M` take one step per byte and may fault at each. `Interrupt` is DJGPP's delivery of
an exception to the handlers installed with `signal`, which pass on the number of
the signal. `RaisedSignal` is DJGPP's table and not in the source. Exception 7 raises a
signal for which the stub has no handler and is left out (`StubAssumption`); the runs
use one exception of each of the other four signals.

`Write` is the whole of `gdb_write_packet`. That it ends, which the fairness of the
handlers assumes, takes a debugger that sends the `+` the code waits for
(`gdbstub.h:404`); `GdbSession` has that wait, its repetitions and its failures.

`set_mem_error` is stored in `ctx.mem_error_callback`, and nothing calls that. So
`ctx.mem_error` stays 0 and E03 is never sent; a fault inside an access enters the
handler again, finds `handler_mutex` set, returns to the faulting instruction and
faults again, for ever. `AccessFault`, `exception_save_registers`, `EnterBusy` and
`exception_return` are that cycle. What it does not do is hand the registers of the
stub to the debugger, which is what `DebuggerSeesProgram` is about.

`view` is the program as the debugger saw and changed it and `retired` counts the
instructions since the program went on: ghosts for the properties. Packets have no
bytes here; answers and texts are left out, and so are the interrupts of the timer,
which `GdbSession` has.

### GdbSession

The line is two sequences of tokens. A packet is one token, good or damaged, and
carries the number of the request it is or answers; a `+` of the stub carries the
number of the request it is for, which only the properties look at.
`gdb_write_packet` is `WritePacket` and then `AwaitAck` or `AwaitTimeout`: any byte
but `+` sends the packet again, so a request that arrives there is eaten from its `$`
on, byte by byte (`Rest(left)`): each byte sends the packet once more, up to one that
is a `+` and ends the loop in the middle of the request. The last byte of a request is
a hex digit and no `+`. `GetFirstByte` is the getc that takes only the first byte of a
packet.

The line loses and damages tokens at any time, with acknowledgements on or off: it is
the same line (`gdbstub.h:366`, `:402`). With them off, the stub drops a damaged
request without an answer and the debugger a damaged answer.

The debugger is not in the source. It drops what it finds on the line and sends a
`+` when it connects, sends one request at a time, sends it again after a `-` or a
timeout, takes the first good packet after the `+` for its answer and acknowledges
every packet. Its timeout is longer than what the line takes: it comes only when
nothing is on the line in either direction (`Quiet`), never while it waits for the stop
after a continue that was acknowledged, and never with acknowledgements off. It knows
nothing else: it may
send a request again while the stub waits for a `+` of its own, and a continue again
while the program runs, when the `+` for it was lost. The junk that getc returns on
a timeout is taken to be neither `+` nor `$`.

Three variables record what the properties need of the past: `missing`, for each of
the request, the `+` and the answer, the numbers of the requests of which the line lost
or damaged a copy; `again`, the requests carried out more than once; and `seen`,
whether the debugger connected before the first report was out, whether a packet was
sent again and whether another byte was lost.

With this the run found what the stub can really promise. Requests are done and
answered in order, always (`ImplementsRequestReply`), and one is done twice only if its
own `+` was lost (`DoneTwiceOnlyIfAckLost`). But the session may halt in three ways
(`HaltedOnlyByLoss`):

* `Wedged`: the answer to the last request was lost or damaged, and the stub counts it
  as delivered, because an earlier copy of its packet left a `+` over, or because
  acknowledgements are off;
* `Unheard`: the `+` for QStartNoAckMode was lost, and the stub, its acknowledgements
  now off, never sends another;
* `Dropped`: the last request was lost or damaged with acknowledgements off, and the
  stub waits for it in silence.

And the program may stop unasked: a tick finds bytes on the line while `handler_mutex`
is free and takes them for a break. `UnaskedStopExplained` lists what these can be:
acknowledgements left over from a packet that was sent again or from before the
debugger came; the request of a debugger that came before the first stop had the mutex;
and the continue that the stub has already carried out, sent again because the `+` for
it was lost.

## 3. Runs

| run | states | shows |
|---|---|---|
| `bring_up` | 400 896 | bring-up of 64 x 3 x 3 cards, each in four states of posting |
| `detection` | 3 252 | all lists of up to 3 of 9 devices |
| `process_hw` | 345 974 | the process on hardware, two signals |
| `process_virtual` | 9 598 | the process in the virtual build, two signals |
| `registers_hw` | 1 984 | the register space at its seams, and failing `mmap` |
| `gdb_packet` | 69 065 | the packet reader on lines of up to three pieces |
| `gdb_stub` | 288 688 | stops, commands and nested faults |
| `gdb_session` | 423 524 | the packet exchange over a faulty line |
| four runs named after a claim | | a comment or message that the code does not bear out (section 6) |

`bring_up` checks that the clock test only programs coefficients made for the
crystal of the card and no slower than base (`ClockSafe`), that it climbs one n
at a time on a powered chip and ends at base (`ReclocksGradually`, `EndsAtBase`),
that each shadow in `nv3_state` agrees with its register once it is set
(`ShadowsAgree`), and that a card with a defined memory amount is sized and holds the
default mode (`DefaultModeFits`).

`detection` checks that the earliest entry of the table wins (`DetectsFirstEntry`)
and the exact condition under which the BARs are those of the GPU found
(`BarsOfFoundUnlessAliased`).

`process_hw` checks that an exited process holds nothing
but a resource whose store a signal cut off (`LeakOnlyAtCut`), that a stale
pointer has one of three causes (`StaleOnlyAtCut`), that no register is accessed
through a released mapping (`AccessMapped`), that undefined behaviour takes a
frame frozen between a release and a reset (`KilledOnlyByReentry`), that a
failing start leaves the chip alone (`FailedInitLeavesChip`), that `main`
settles and a caught signal ends the process (`MainSettles`, `SignalEnds`), and
that all of it implements `Lifecycle`. `process_virtual` checks the same life cycle,
at whose end at most the one cut-off resource is held, and the configuration
space: `WidthsAgree`, `ConfigDescribesSelected`.

`registers_hw` checks that the windows implement `FlatSpace`: no write shows at
another address, and nothing is accessed through what a failing `mmap` left.

`gdb_packet` checks that what `gdb_read_packet` returns is one packet of the line
(`DeliversOnlyFrames`), that a packet is misread for a stale `:` only in the one way
stated (`MisreadOnlyAfterColon`), and that every packet that fits is answered
whatever came before it (`EveryFrameAnswered`).

`gdb_stub` checks that the debugger works on the registers of the program
(`DebuggerSeesProgram`), that one handler at a time talks (`OnlyOneFrameTalks`),
that a step is one instruction (`StepIsOneInstruction`), and that stops, and accesses
of memory that is there, are answered (`StopsAndAccessesAreAnswered`).

`gdb_session` checks the refinement of `RequestReply`, the exact causes of the
three halts (`HaltedOnlyByLoss`), of a request done twice (`DoneTwiceOnlyIfAckLost`)
and of an unasked stop (`UnaskedStopExplained`), that but for the three halts the
debugger gets its answer (`Answered`) and that a break byte stops the
program (`BreakStops`).

### Bounds

* PFB_BOOT takes all 64 values of the six bits the code looks at or skips over;
  the straps take both crystals with the other bits clear and set; NV3_PMC_ENABLE and
  NV3_PMC_INTERRUPT_ENABLE are clear or as a VBIOS leaves them. The clock
  loop runs in full: it is bounded by the code (`ClockNMax` is the 0xFF of the
  loop).
* Lists of three devices have room for the GPU, one that hides it by address
  and one that hides it by its place in the table; a longer list adds no new
  relation between two devices. The nine devices include the first and the last
  table entry, both NV3 entries, and colliding slots and domains.
* `process_hw` has one card per crystal and four buses, one for each way
  detection can end (none, unsupported, supported, supported but hidden). Two
  signals are all the program catches. No counter is bounded artificially:
  every loop of the program but the idle loop ends by itself.
* The pieces of `MCGdbPacket` are packets with and without a sequence number, empty,
  of the longest length that fits and of more, with bad and with no hex digits, the
  beginnings and ends of packets, and the 0 of a timeout; three of them, since
  what a packet can inherit comes from the buffer, which the one before it wrote,
  and from a piece in between. `IO_BUFFER_SIZE` is 5, enough for a sequence number.
* `MCGdbStub` has two code addresses, two register values, three memory addresses of
  which one is missing, and accesses of up to two bytes: one that is there, one that
  faults at once, one that faults after a byte. `retired` stops at two.
* `MCGdbSession`: three requests, since a `+` left over from the first can count for
  the second and its effect shows in the third; one break; two tokens lost or
  damaged (`MaxFaults`), as the worst cases found take two; no resend by timeout
  while three tokens are on their way to the debugger (`MaxLine`); up to three bytes of a
  request after its `$` (`MaxRest`), so that a `+` may come first, in the middle, or
  not at all.
* The addresses of `MCNvIo` are the first and last word of every window and of
  the hole; two values tell one write from another.

### Fairness

`Nv3FairSpec`, `PciFairSpec` and `NvplayFairSpec` assume weak fairness of the
steps of the program taken together: its only thread blocks on nothing but
`sleep`, so the scheduler lets it go on. Nothing is assumed about signals, which
need not come. `Lifecycle` assumes weak fairness of going down; that `Nvplay`
has it is part of `ImplementsLifecycle`.

`StubFairSpec` assumes weak fairness of the handlers taken together: they run until
they wait for a packet. Which command comes, and that one comes, is not assumed.
The end of a handler's `gdb_write_packet` takes a debugger that acknowledges
(section 2). `SessionFairSpec` assumes weak fairness of the debugger's reactions, its
timeouts included, of the stub, of the timer tick and of the checkpoints: the program
must call `gdb_checkpoint` again and again, which is what the macro is for. Of the line
it assumes nothing but the bound on its faults: it may lose and damage any token, with
acknowledgements on or off. That the debugger does not time out while something is on
the line is part of `Quiet`. Nothing is assumed about requests, breaks and exceptions.

Where a system may really stop, the specification has an explicit stuttering action
(`Returned`, `PciDone`, `Rest`, `Wait`, `Exited`, `Over`, `Unmapped`), so that
deadlock is checked everywhere else.

## 4. Proofs

All theorems hold for every value of the constants that satisfies the named
assumptions: `RegistersAreWords` (registers hold natural numbers),
`BuildOption`, `ReportedDevices` (what libpci reports has the fields of its
`struct pci_dev`), `SignalsAreNotMain`, `IoAssumption` (the two BARs differ,
addresses are multiples of four), and `PacketAssumption`, `StubAssumption`,
`SessionAssumption` of the three modules of the stub. `PciInv`, `FitsInv`,
`ReclockInv`, `ChecksumOK`, `FollowOK` and `SessionInv` below were checked by TLC on
the instances of section 3 before they were proved.

`Nv3Proofs`. `Nv3Inv` joins the types, the shadows, the safety of the clock and
what links the locals of the clock test to the straps: at `write_mclk` and
`sleep`, `clock.m` and the starting n are those of the crystal, and n stays
between its start and 256. The last part makes `ClockSafe` inductive. The
arithmetic is in three lemmas: the fields of a coefficient are what it was built
from as long as n fits in eight bits (`CoeffFields`), base is the first
coefficient of the test (`BaseIsStart`), and every n from there on gives a safe
coefficient (`TestCoeffSafe`). Results: `Nv3Types`, `ClockStaysSafe`,
`ShadowsStayTrue`.

Two invariants next to it serve one property each. `FitsInv` ties the program's copy
of NV3_PFB_BOOT to the register, so that the size `SizeVram` finds is the card's, at
least 1 MB for each of the three defined amounts (`DefinedAmountFits`):
`DefaultModeAlwaysFits`. `ReclockInv` says that between two writes the register
holds the coefficient of the n written last and that the chip is powered, so that
the write of `clock.n` is one step up and the base clock comes from n = 255:
`ReclockIsGradual`, an action property.

`NvPciProofs`, for any lists of devices, in both builds. `PciInv`
says where the loop of `nv_detect` is in the table (`LoopOK`: the entry it looks at is
the one before the entry it probes next), that no device has an entry the loop has
passed (`NoneBefore`), that what is selected and registered is the entry that
answered, at the address of the first device with its IDs (`SelectedOK`), and that
the BARs are what a read through that address finds (`BarsOK`). A search of a
list chooses the least position, which exists as the naturals are well ordered
(`LeastElement`, `FindByIdFacts`, `FindByAddressFacts`). Results: `PciTypes`,
`EarliestEntryDetected`, `BarsExplained`, `ConfigIsOfSelected`; `WidthsOfConfigAgree`
holds by the bytes of the configuration space, registered device or not.

`NvplayProofs`. None of the safety properties of `Nvplay` is inductive. That an
exited process holds nothing needs, for every frame on the stack, that what the
frame has passed in the release order is null (`Passed`), which in turn needs
that no frozen frame can set a pointer again; and that what `main` has not yet
acquired is null and free (`NotYet`), so that a handler that comes early
releases exactly what is set. `ResourceInv` is the conjunction of these with
the positions the frames can be in (`FramesOK`), what `main` owns while it goes
up (`MainOwns`), and the explanations of a stale pointer (`Stale`). One lemma per
action shows that it is kept. From it follow `ProcessTypes`, `NoLeak`,
`NoStalePointer`, `KilledByReentry` and `AccessesAreMapped`, for both builds and
any set of signals.

`LifecycleImplemented` maps every step to `Lifecycle`: an acquisition to
`Acquire`, since the resource is not held yet (`NotYet`); the first step that
leaves the upward path to `TurnDown`; `Undo` and `ReleaseIt` to `Release` or a
stutter; and `Exit` to `End`, since at most one resource is then held
(`LeakOnlyAtCut`). `BringUpIsNv3` shows that the process implements `Nv3Spec`,
so that `ClockStaysSafe` and `ReclockIsGradual` carry over to the process
(`ClockSafeInProcess`, `GradualInProcess`); `DetectionIsNvPci` does the same for
`PciSpec`, and with it `ConfigInProcess`, which the run `process_virtual` checks.
`FailureLeavesChip` is proved from an invariant of its own: no chip register
changes before `main` is past the last point of failure.

`NvIoProofs`. `CellInMapping`: an aligned address of a window lies inside its
mapping, and the mapping inside its BAR. `CellsDistinct`: two addresses never
share a word. `IoTypes` joins to the types what a pointer
says: that it is set exactly when its window is mapped, except after a failed
`init_mmio_mappings`. So wherever the driver runs the test of the pointer is a test
of the mapping (`DriverHasMappings`), and with `CellsDistinct` follows
`FlatSpaceImplemented`, the safety of `FlatSpace`.

`GdbPacketProofs`, for any line and any `IO_BUFFER_SIZE` of at least four
(`PacketAssumption`). `PacketInv` says, for each place of `gdb_read_packet`, where on
the line the `$` of the packet being read is and that the buffer holds what came
after it (`ReaderOK`), and that the third byte of the buffer, whoever wrote it, came
third after a `$` (`ThirdByteOK`); without these neither the packet returned nor
a stale `:` can be traced to the line. Results: `PacketTypes`, which bounds every
index, `ReturnsOnlyFrames`, `PacketsMisreadOnlyAfterColon`.

`ChecksumOK` adds that checksum is the sum of what is in the buffer, and xmitcsum the
digits read. The sum grows by one byte a step, so what is needed of `Sum256` is its
value on the empty packet and on a packet with one byte more (`SumEmpty`,
`SumAppend`). That the recursion has a solution at all, and only one, is the usual
induction on the length, done by hand with the shortest prefix that would have none
(`SumsExist`, `SumsUnique`). With `ReturnsOnlyFrames` this gives `DeliversFrames`.

`FollowOK` looks from the line instead: for every `$` that is heard and every n, as long
as the n bytes after it are neither `$` nor `#`, the reader is in the body with a count
of n, and one and two bytes after the `#` at the digits, whatever it was doing before
the `$` (`DollarOpens`). `FramesAreAnswered`, an action property, follows.

`GdbStubProofs`, for any code, registers, memory and exceptions
(`StubAssumption`). `StubInv` lists the ten stacks of handlers and the mutex for each
(`FramesOK`), and says whose registers are where (`RegistersOK`): while the stub
faults in an access, `ctx.registers` may hold the stub's, but then the byte of the
access is missing (`Faulting`), so that the access cannot end and the loop never
reads a command with them. `TrapOK` follows the trap flag from the command to the
program. Results: `StubTypes`, `OneFrameTalks`, `DebuggerAlwaysSeesProgram`,
`StepsAreSingle`.

`GdbSessionProofs`, for any number of requests, breaks, faults of the line and any
`MaxLine` and `MaxRest`. What makes the session right is what can stand on the two
lines at once; `SessionInv` says it in eight parts besides the types. `CountersOK`:
a request on the line is the last one, an answer on it is of one that was done.
`OneOutstanding`: a request, its `+` and its `-` are never on the way two at a time.
`Fresh`: once the debugger has its `+`, or will find it, every packet it will take
is the answer to its last request; the stale copies of earlier answers all stand
before the `+`. `NoAckOK`: with acknowledgements off nothing is sent twice.
`LossesOK`: where the `+` of a request, its answer or the request itself is neither
on the line nor heard, `missing` records that the line lost or damaged it.
`RunningOK`: while the program runs, either no request was done yet or the last one
is a continue whose answer is still to come (`RequestOfRunning` draws from it what a
request on the line then is). `Orderly`: until the stub sends a packet again, or the
debugger connects early, the `+` it waits for is the one for its last packet.
`StopsOK`: nothing but a break or a `+` follows a request on the line, the rest of
an eaten one stands first, and until a packet is sent again a tick finds only breaks
and requests. None of these is inductive alone: a `-` is harmless only as the stub
is then reading, and a lost `+` only as the copy the debugger sends again finds
`done` at its number. One lemma per action. Results: `SessionTypes`,
`AgainOnlyIfAckLost`, `HaltsExplained`, `StopsExplained`, and
`SessionImplementsRequestReply`, where `Ask` maps to a request, `AcceptPacket` to
the doing of it or a stutter, the step that takes an answer to the answering, by
`Fresh`, and everything else to a stutter.

### Only model-checked

Liveness and the fairness part of the refinement of `Lifecycle` (`EndsAtBase`,
`MainSettles`, `SignalEnds`, `Life!LFairSpec`, `StopsAndAccessesAreAnswered`,
`Answered`, `BreakStops`), which the prover does not reach. Every safety property of a
passing run is proved.

### Not modelled

`nv3_class_names.c` is a table nothing refers to, `util/` holds empty files. Of the
stub, the set-up of the serial port and the locking of pages are left out: they
happen once, before anything else. Of the mode table, the timings and clocks are left
out: no code reads them. `GdbPacket`, `GdbStub` and `GdbSession` each
abstract from the other two; they meet at the packet, whole or damaged, and at
`done`, and are not composed into one module.

## 5. Plan

1. Done: the bring-up, detection, the process, the register space and the GDB stub,
   with three abstract specifications and the proofs above.
2. Done: every invariant and action property of the runs as a theorem, and the
   safety of the three refinements.
3. To come: that `GdbPacket` implements the packet level of `GdbSession` (a token
   taken whole or not at all), and what the fairness of `Nvplay` leaves to prove for
   `Lifecycle` once its liveness is split into steps that decrease a number.

## 6. What comments and messages say and the code does not do

| run | claim | what TLC shows |
|---|---|---|
| `bars_of_selected_device` | "Get BAR addresses from PCI config" (`nv3_core.c:96`) of "the selected device" (`nvcore_detect.c:25`) | slot 8 function 0 and slot 0 function 1 share a `function_number` |
| `virtual_device_is_nv3` | "Virtual NV3 device initialized successfully" (`virtual_pci.c:126`) | detection selects the NV1; the default build ends with code 3 |
| `caught_signal_exits` | "cleaning up and exiting" (`main.c:14`) | a second signal in the middle of `cleanup` releases again |
| `page_fault_is_reported` | "page fault" and "general protection" are signal 11 (`gdbstub.h:257`, `:260`) | the handlers get a signal number, SIGSEGV has no case, and the report says 7 |

Seen while reading and not run, because one look at the values settles them:
`memory_clock = 0x0EC40E`, "100MHz default" (`nv3_mode_table.c:60`), has the P, N
and M of a clock of about 3 MHz, though nothing reads it; the virtual status
register sets 0x20 in the high byte where the comment (`virtual_pci.c:152`) names
the 66 MHz bit of the low one; "restore original clock" (`nv3_core.c:82`) writes the
base clock of the crystal, whatever the VBIOS had programmed; the test that goes
"from an underclock" (`nv3_core.c:29`) starts at the base clock.
