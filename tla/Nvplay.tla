------------------------------- MODULE Nvplay -------------------------------
(***************************************************************************)
(* The life of an nvplayground process, from the registration of its       *)
(* signal handlers to its exit: main (main.c), the signal handlers, the    *)
(* acquisition and the release of the resources (nvcore_io.c, linux_pci.c, *)
(* virtual_pci.c), around the detection of NvPci and the bring-up of Nv3.  *)
(*                                                                         *)
(* There is one thread.  A handler runs on top of the frame it interrupts  *)
(* and never returns, as it ends in exit(1): the interrupted frame stays   *)
(* frozen where it was, and the running frame is the one of the last       *)
(* signal.  A signal can arrive between a system call and the store of its *)
(* result, and between a release and the reset of the pointer.             *)
(***************************************************************************)
EXTENDS Nv3, NvPci

CONSTANT Signals    (* the signals that may arrive, of SIGINT and SIGTERM    *)

ASSUME SignalsAreNotMain == "main" \notin Signals

(***************************************************************************)
(* The resources, numbered in the order main acquires them, and the place  *)
(* of each in the order cleanup releases them: the reverse on hardware,    *)
(* the same in the virtual build.                                          *)
(***************************************************************************)
pacc   == 1      \* virtual build: virtual_mmio
mem_fd == 2      \* virtual build: virtual_vram
mmio   == 3      \* virtual build: virtual_ramin; 4 is vram and 5 is ramin

Last     == IF USE_VIRTUAL_PCI THEN 3 ELSE 5
Resource == 1 .. Last
Nth(n)   == IF USE_VIRTUAL_PCI THEN n ELSE Last + 1 - n

\* pci_cleanup alone starts at pacc, or at the first resource of virtual_pci.c.
PciCleanupStart == IF USE_VIRTUAL_PCI THEN 1 ELSE Last

\* The resource that nv_mmio_read32 and nv_mmio_write32 reach the registers through.
Registers == IF USE_VIRTUAL_PCI THEN 1 ELSE mmio

\* Resources of the heap: releasing one a second time is undefined behaviour.
\* The second munmap or close of the others is an error without effect.
OnHeap(r) == USE_VIRTUAL_PCI \/ r = pacc

VARIABLES
  held,      (* the resources the process holds, for the kernel and libc     *)
  ptr,       (* the static pointer (or descriptor) of each resource          *)
  code,      (* what main is about to return                                 *)
  status,    (* "live", "exited", or "killed" by undefined behaviour         *)
  running,   (* the frame that runs: main or a signal handler                *)
  pc,        (* where each frame is                                          *)
  cursor     (* the resource main acquires, the step of cleanup a frame is at *)

framevars == <<running, pc, cursor>>
procvars  == <<held, ptr, code, status, running, pc, cursor>>
vars      == <<nv3vars, pcivars, procvars>>

Frames == {"main"} \cup Signals

NvplayInit ==
  /\ Nv3Init
  /\ PciInit
  /\ held = [r \in Resource |-> FALSE]
  /\ ptr = [r \in Resource |-> "null"]
  /\ code = 0
  /\ status = "live"
  /\ running = "main"
  /\ pc = [f \in Frames |-> IF f = "main" THEN "acquire" ELSE "off"]
  /\ cursor = [f \in Frames |-> 1]

-----------------------------------------------------------------------------
At(f, label) == status = "live" /\ running = f /\ pc[f] = label

\* Frame f goes on at a label, with a resource or a step of cleanup.
GoTo(f, label, n) ==
  /\ pc' = [pc EXCEPT ![f] = label]
  /\ cursor' = [cursor EXCEPT ![f] = n]
  /\ UNCHANGED running

\* Fault: main returns without cleanup.
FailFrom_no_cleanup(c, n) == code' = c /\ GoTo("main", "exit", 1)

\* main fails: it will return c, after the cleanup from step n on.
FailFrom(c, n) == code' = c /\ GoTo("main", "test", n)

-----------------------------------------------------------------------------
(***************************************************************************)
(* Acquisition: the call, then the store of its result.                    *)
(***************************************************************************)
AcquireNext ==
  /\ At("main", "acquire")
  /\ \E ok \in BOOLEAN : held' = [held EXCEPT ![cursor["main"]] = ok]
  /\ GoTo("main", "store", cursor["main"])
  /\ UNCHANGED <<nv3vars, pcivars, ptr, code, status>>

\* A failed mmap returns MAP_FAILED, which is not null.
ResultOf(r) == IF held[r] THEN "addr"
               ELSE IF OnHeap(r) \/ r = mem_fd THEN "null" ELSE "failed"

StoreResult ==
  /\ At("main", "store")
  /\ ptr' = [ptr EXCEPT ![cursor["main"]] = ResultOf(cursor["main"])]
  /\ UNCHANGED <<nv3vars, pcivars, held, status>>

\* Hardware: pci_init takes pacc, init_mmio_mappings the others.
StoreAndGoOn ==
  LET r == cursor["main"]
  IN /\ ~USE_VIRTUAL_PCI
     /\ StoreResult
     /\ held[r]
     /\ UNCHANGED code
     /\ GoTo("main", CASE r = pacc -> "detect" [] r = Last -> "nv3"
                       [] OTHER -> "acquire", r + 1)

\* pci_init fails: main returns 1 at once.
StoreNoPacc ==
  /\ ~USE_VIRTUAL_PCI
  /\ StoreResult
  /\ cursor["main"] = pacc /\ ~held[pacc]
  /\ code' = 1
  /\ GoTo("main", "exit", 1)

\* /dev/mem does not open: init_function returns false, main cleans up.
StoreNoMemFd ==
  /\ ~USE_VIRTUAL_PCI
  /\ StoreResult
  /\ cursor["main"] = mem_fd /\ ~held[mem_fd]
  /\ FailFrom(4, 1)

\* mmap fails: init_mmio_mappings first releases what it took before.
StoreNoMapping ==
  LET r == cursor["main"]
  IN /\ ~USE_VIRTUAL_PCI
     /\ StoreResult
     /\ r > mem_fd /\ ~held[r]
     /\ UNCHANGED code
     /\ GoTo("main", "undo", r - 1)

\* Faults: it releases pacc as well; it steps past the first resource; it does not
\* step at all.
Undo_pacc_too ==
  LET r == cursor["main"]
  IN /\ At("main", "undo")
     /\ held' = [held EXCEPT ![r] = FALSE]
     /\ \/ r > pacc /\ GoTo("main", "undo", r - 1) /\ UNCHANGED code
        \/ r = pacc /\ FailFrom(4, 1)
     /\ UNCHANGED <<nv3vars, pcivars, ptr, status>>

Undo_past_first ==
  LET r == cursor["main"]
  IN /\ At("main", "undo")
     /\ held' = [held EXCEPT ![r] = FALSE]
     /\ GoTo("main", "undo", r - 1)
     /\ UNCHANGED <<nv3vars, pcivars, code, ptr, status>>

Undo_stuck ==
  /\ At("main", "undo")
  /\ held' = [held EXCEPT ![cursor["main"]] = FALSE]
  /\ UNCHANGED <<nv3vars, pcivars, code, ptr, status, framevars>>

\* The error paths of init_mmio_mappings: release down to mem_fd, and leave the
\* static pointers as they are.
Undo ==
  LET r == cursor["main"]
  IN /\ At("main", "undo")
     /\ held' = [held EXCEPT ![r] = FALSE]
     /\ \/ r > mem_fd /\ GoTo("main", "undo", r - 1) /\ UNCHANGED code
        \/ r = mem_fd /\ FailFrom(4, 1)
     /\ UNCHANGED <<nv3vars, pcivars, ptr, status>>

\* Fault: an allocation fails and main returns without virtual_pci_cleanup.
StoreVirtual_no_cleanup ==
  LET r == cursor["main"]
  IN /\ USE_VIRTUAL_PCI
     /\ StoreResult
     /\ \/ r < Last /\ GoTo("main", "acquire", r + 1) /\ UNCHANGED code
        \/ /\ r = Last
           /\ \A a \in Resource : ptr'[a] # "null"
           /\ GoTo("main", "detect", r)
           /\ UNCHANGED code
        \/ /\ r = Last
           /\ \E a \in Resource : ptr'[a] = "null"
           /\ code' = 1
           /\ GoTo("main", "exit", 1)

\* Virtual: the three results are looked at after the third calloc.
StoreVirtual ==
  LET r == cursor["main"]
  IN /\ USE_VIRTUAL_PCI
     /\ StoreResult
     /\ \/ r < Last /\ GoTo("main", "acquire", r + 1) /\ UNCHANGED code
        \/ /\ r = Last
           /\ \A a \in Resource : ptr'[a] # "null"
           /\ GoTo("main", "detect", r)
           /\ UNCHANGED code
        \/ /\ r = Last
           /\ \E a \in Resource : ptr'[a] = "null"
           /\ FailFrom(1, 1)

-----------------------------------------------------------------------------
(***************************************************************************)
(* Detection and bring-up.                                                 *)
(***************************************************************************)
Detect ==
  /\ At("main", "detect")
  /\ Probe \/ NotFound
  /\ UNCHANGED <<nv3vars, procvars>>

\* No GPU: main returns 2 after pci_cleanup only.
NoGpu ==
  /\ At("main", "detect")
  /\ probe.outcome = "none"
  /\ FailFrom(2, PciCleanupStart)
  /\ UNCHANGED <<nv3vars, pcivars, held, ptr, status>>

\* A GPU without init_function: main returns 3 after cleanup.
NotYetSupported ==
  /\ At("main", "detect")
  /\ probe.outcome = "found" /\ ~Supported
  /\ FailFrom(3, 1)
  /\ UNCHANGED <<nv3vars, pcivars, held, ptr, status>>

\* nv3_init reads the BARs and calls init_mmio_mappings, which in the virtual
\* build has nothing to do.
InitFunction ==
  /\ At("main", "detect")
  /\ ReadBars
  /\ GoTo("main", IF USE_VIRTUAL_PCI THEN "nv3" ELSE "acquire", mem_fd)
  /\ UNCHANGED <<nv3vars, held, ptr, code, status>>

BringUp ==
  /\ At("main", "nv3")
  /\ Nv3Step
  /\ UNCHANGED <<pcivars, procvars>>

\* Fault: nv3_init falls through to return false.
EnterIdle_false ==
  /\ At("main", "nv3")
  /\ at = "done"
  /\ FailFrom(4, 1)
  /\ UNCHANGED <<nv3vars, pcivars, held, ptr, status>>

\* nv3_init returned true: main sleeps until a signal comes.
EnterIdle ==
  /\ At("main", "nv3")
  /\ at = "done"
  /\ GoTo("main", "idle", cursor["main"])
  /\ UNCHANGED <<nv3vars, pcivars, held, ptr, code, status>>

-----------------------------------------------------------------------------
(***************************************************************************)
(* cleanup, for main and for the handlers: if the pointer is set, release  *)
(* the resource and reset the pointer, resource after resource; then exit. *)
(***************************************************************************)
\* Faults: the condition is inverted; a null pointer is tested for ever.
Test_inverted(f) ==
  LET r == Nth(cursor[f])
  IN /\ At(f, "test")
     /\ cursor[f] <= Last
     /\ \/ ptr[r] # "null" /\ GoTo(f, "test", cursor[f] + 1)
        \/ ptr[r] = "null" /\ GoTo(f, "release", cursor[f])
     /\ UNCHANGED <<nv3vars, pcivars, held, ptr, code, status>>

Test_stuck(f) ==
  LET r == Nth(cursor[f])
  IN /\ At(f, "test")
     /\ cursor[f] <= Last
     /\ GoTo(f, IF ptr[r] = "null" THEN "test" ELSE "release", cursor[f])
     /\ UNCHANGED <<nv3vars, pcivars, held, ptr, code, status>>

Test(f) ==
  LET r == Nth(cursor[f])
  IN /\ At(f, "test")
     /\ cursor[f] <= Last
     /\ \/ ptr[r] = "null" /\ GoTo(f, "test", cursor[f] + 1)
        \/ ptr[r] # "null" /\ GoTo(f, "release", cursor[f])
     /\ UNCHANGED <<nv3vars, pcivars, held, ptr, code, status>>

ReleaseIt(f) ==
  LET r == Nth(cursor[f])
  IN /\ At(f, "release")
     /\ held' = [held EXCEPT ![r] = FALSE]
     /\ GoTo(f, "clear", cursor[f])
     /\ UNCHANGED <<nv3vars, pcivars, ptr, code, status>>

\* A heap resource released twice: what libc does is undefined.
ReleaseTwice(f) ==
  LET r == Nth(cursor[f])
  IN /\ At(f, "release")
     /\ ~held[r] /\ OnHeap(r)
     /\ status' = "killed"
     /\ UNCHANGED <<nv3vars, pcivars, held, ptr, code, framevars>>

\* Fault: the pointer is not reset.
Clear_forgotten(f) ==
  /\ At(f, "clear")
  /\ GoTo(f, "test", cursor[f] + 1)
  /\ UNCHANGED <<nv3vars, pcivars, held, ptr, code, status>>

Clear(f) ==
  LET r == Nth(cursor[f])
  IN /\ At(f, "clear")
     /\ ptr' = [ptr EXCEPT ![r] = "null"]
     /\ GoTo(f, "test", cursor[f] + 1)
     /\ UNCHANGED <<nv3vars, pcivars, held, code, status>>

\* Fault: a handler returns to main instead of calling exit.
Exit_returns(f) ==
  /\ At(f, "test") /\ cursor[f] > Last
  /\ running' = "main"
  /\ status' = IF f = "main" THEN "exited" ELSE "live"
  /\ UNCHANGED <<nv3vars, pcivars, held, ptr, code, pc, cursor>>

\* main returns code; a handler calls exit(1).
Exit(f) ==
  /\ At(f, "exit") \/ (At(f, "test") /\ cursor[f] > Last)
  /\ status' = "exited"
  /\ UNCHANGED <<nv3vars, pcivars, held, ptr, code, framevars>>

\* A signal arrives.  It stays blocked while its handler runs, so each handler
\* is entered at most once.
Deliver(s) ==
  /\ status = "live"
  /\ pc[s] = "off"
  /\ running' = s
  /\ pc' = [pc EXCEPT ![s] = "test"]
  /\ UNCHANGED <<nv3vars, pcivars, held, ptr, code, status, cursor>>

-----------------------------------------------------------------------------
MainStep ==
  \/ AcquireNext \/ StoreAndGoOn \/ StoreNoPacc \/ StoreNoMemFd \/ StoreNoMapping
  \/ Undo \/ StoreVirtual
  \/ Detect \/ NoGpu \/ NotYetSupported \/ InitFunction \/ BringUp \/ EnterIdle

CleanupStep(f) ==
  Test(f) \/ ReleaseIt(f) \/ ReleaseTwice(f) \/ Clear(f) \/ Exit(f)

FrameStep == MainStep \/ \E f \in Frames : CleanupStep(f)

\* The idle loop of main, and the end of the process.
Rest ==
  /\ status # "live" \/ At("main", "idle")
  /\ UNCHANGED vars

NvplayNext == FrameStep \/ (\E s \in Signals : Deliver(s)) \/ Rest

NvplaySpec == NvplayInit /\ [][NvplayNext]_vars

\* The frame on top of the stack is scheduled: it takes its next step unless a
\* signal comes first.  No fairness for the signals: they need not come.
NvplayFairSpec == NvplaySpec /\ WF_vars(FrameStep)

-----------------------------------------------------------------------------
(***************************************************************************)
(* Properties.                                                             *)
(***************************************************************************)
Labels == {"off", "acquire", "store", "undo", "detect", "nv3", "idle",
           "test", "release", "clear", "exit"}

\* The types of the process state.
NvplayTypeOK ==
  /\ held \in [Resource -> BOOLEAN]
  /\ ptr \in [Resource -> {"null", "addr", "failed"}]
  /\ code \in 0 .. 4
  /\ status \in {"live", "exited", "killed"}
  /\ running \in Frames
  /\ pc \in [Frames -> Labels]
  /\ cursor \in [Frames -> 1 .. Last + 1]

\* main stands between the call that acquires r and the store of its result.
CutAt(r) == pc["main"] = "store" /\ cursor["main"] = r

\* Frame f stands between the release of r and the reset of its pointer.
Clearing(f, r) == pc[f] = "clear" /\ Nth(cursor[f]) = r

\* Whatever the path and the signals, a process that exits has released all it
\* held, but for the one resource whose acquisition a signal cut short.
LeakOnlyAtCut ==
  status = "exited" => \A r \in Resource : held[r] => running # "main" /\ CutAt(r)

\* A pointer that is set points to something held, except after a failed
\* init_mmio_mappings and while some frame stands between release and reset.
StaleOnlyAtCut ==
  \A r \in Resource : ptr[r] # "null" /\ ~held[r] =>
    \/ ~USE_VIRTUAL_PCI /\ pc["main"] = "undo"
    \/ ~USE_VIRTUAL_PCI /\ code = 4
    \/ \E f \in Frames : Clearing(f, r)

\* Every access to a register of the card goes through a mapping that is held:
\* no frame that unmaps it ever gives control back to nv3_init.
AccessMapped ==
  At("main", "nv3") => held[Registers] /\ ptr[Registers] = "addr"

\* Undefined behaviour takes two handlers, or a handler in the middle of main's
\* own cleanup: a frame is frozen between the release of what is released again
\* and the reset of its pointer.
KilledOnlyByReentry ==
  status = "killed" => \E f \in Frames \ {running} : Clearing(f, Nth(cursor[running]))

\* When main returns an error nothing was written to the card.
FailedInitLeavesChip ==
  code # 0 => chip = found

\* Left to itself the process ends or comes to rest in the idle loop.
MainSettles == <>(status # "live" \/ pc["main"] = "idle" \/ running # "main")

\* A caught signal ends the process, wherever main was.
SignalEnds == \A s \in Signals : pc[s] # "off" ~> status # "live"

-----------------------------------------------------------------------------
(***************************************************************************)
(* The process implements the abstract life cycle of its resources.        *)
(***************************************************************************)
GoingDown ==
  running # "main" \/ pc["main"] \in {"undo", "test", "release", "clear", "exit"}

owned == {r \in Resource : held[r]}
phase == IF status = "exited" THEN "ended"
         ELSE IF status = "killed" THEN "crashed"
         ELSE IF GoingDown THEN "down" ELSE "up"

Life == INSTANCE Lifecycle WITH owned <- owned, phase <- phase

\* The process acquires only while it goes up, releases only while it goes down,
\* loses at most one resource, and having begun to go down it ends.
ImplementsLifecycle == Life!LFairSpec

-----------------------------------------------------------------------------
(***************************************************************************)
(* What comments and messages of the source say, and the code does not do. *)
(***************************************************************************)

\* "Caught signal %d, cleaning up and exiting..." (main.c:14): a process that
\* caught a signal cleans up and exits.
CaughtSignalExits == status # "killed"

=============================================================================
