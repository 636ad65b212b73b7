------------------------------ MODULE GdbStub -------------------------------
(***************************************************************************)
(* The stub of gdbstub.h and the program it is linked into: exceptions and *)
(* their handlers, gdb_loop with handler_mutex, the commands that read and *)
(* change the registers and the memory of the program, continue and step.  *)
(* Which commands come is up to the debugger; how they travel is in        *)
(* GdbPacket and GdbSession.                                               *)
(*                                                                         *)
(* A context is what exception_save_registers keeps of the interrupted     *)
(* code: EIP, the trap flag of EFLAGS, and EAX for all other registers.    *)
(***************************************************************************)
EXTENDS Integers, SequencesExt

CONSTANTS
  Eips, Values,      (* addresses of the program's code, values of a register *)
  Addresses, Mapped, (* memory the debugger asks for, and what there is of it *)
  Exceptions         (* the processor exceptions the program may run into     *)

ASSUME StubAssumption ==
  /\ "stub" \notin Eips /\ "none" \notin Eips /\ Eips # {}
  /\ Addresses \subseteq Nat
  /\ Mapped \subseteq Addresses
  /\ Exceptions \subseteq 0 .. 31 \ {7}

Context     == [eip : Eips, tf : BOOLEAN, eax : Values]
StubContext == [eip |-> "stub", tf |-> FALSE, eax |-> "stub"]

\* The signal that DJGPP raises for an exception.  Handlers installed with signal
\* get this number as their argument, not the exception's.  Exception 7 raises SIGNOFP,
\* for which the stub installs no handler.
SIGFPE  == 289
SIGILL  == 290
SIGSEGV == 291
SIGTRAP == 302

RaisedSignal(exception) ==
  CASE exception \in {1, 3}                      -> SIGTRAP
    [] exception \in {0, 4, 16}                  -> SIGFPE
    [] exception \in {5, 8, 9, 11, 12, 13, 14}   -> SIGSEGV
    [] OTHER                                     -> SIGILL

exception_to_signal(number) ==
  CASE number \in {0, 7}       -> 8
    [] number \in {1, 3, 302}  -> 5
    [] number \in {4, 5}       -> 16
    [] number = 6              -> 4
    [] number \in 9 .. 14      -> 11
    [] OTHER                   -> 7

-----------------------------------------------------------------------------
(***************************************************************************)
(* What a packet asks for.  "text" stands for the commands that are only   *)
(* answered (?, H, q, Q, d, k, unknown ones), "malformed" for P, m and M   *)
(* whose operands cannot be parsed or whose register does not exist.       *)
(***************************************************************************)
Reads   == [op : {"m"}, addr : Addresses, length : 0 .. 2]
Writes  == [op : {"M"}, addr : Addresses, data : UNION {[1 .. n -> Values] : n \in 0 .. 2}]
Resumes == [op : {"s", "c"}, addr : Eips \cup {"none"}]
Sets    == [op : {"P"}, reg : {"eip"}, val : Eips]
             \cup [op : {"P"}, reg : {"tf"}, val : BOOLEAN]
             \cup [op : {"P"}, reg : {"eax"}, val : Values]
Others  == [op : {"g", "D", "text", "malformed"}]

Commands == Reads \cup Writes \cup Resumes \cup Sets \cup Others
              \cup [op : {"G"}, context : Context]

VARIABLES
  frames,         (* where each active handler is, the last one running;
                     empty while the program runs                            *)
  status,         (* "boot" before gdb_start, "live", "exited"               *)
  cpu,            (* the program's context, or what the last exception cut   *)
  raised,         (* the last exception                                      *)
  registers,      (* ctx.registers                                           *)
  handler_mutex,
  sigval, stepping, command, index,       (* the locals of gdb_loop          *)
  memory,
  view,           (* the program as the debugger saw it and changed it       *)
  retired         (* instructions since the program went on, 2 for more      *)

gdbvars == <<frames, status, cpu, raised, registers, handler_mutex, sigval,
             stepping, command, index, memory, view, retired>>

locals  == <<sigval, stepping, command, index>>
program == <<cpu, raised, view, retired, status>>

NoCommand == [op |-> "text"]

StubInit ==
  /\ frames = <<>> /\ status = "boot"
  /\ cpu \in [eip : Eips, tf : {FALSE}, eax : Values]
  /\ raised = 0
  /\ registers = StubContext         \* nothing has been saved yet
  /\ handler_mutex = FALSE
  /\ sigval = 0 /\ stepping = FALSE /\ command = NoCommand /\ index = 0
  /\ memory \in [Mapped -> Values]
  /\ view = cpu /\ retired = 0

Top == frames[Len(frames)]
In(at) == frames # <<>> /\ Top = at
Goto(at) == frames' = [frames EXCEPT ![Len(frames)] = at]

-----------------------------------------------------------------------------
(***************************************************************************)
(* The program.                                                            *)
(***************************************************************************)
Executing == status = "live" /\ frames = <<>>

\* An exception starts exception_handler or exception_sigsegv_handler.
Interrupt(exception, context) ==
  /\ raised' = exception
  /\ cpu' = context
  /\ frames' = Append(frames, "save")

\* gdb_start: _gdb_start installs the handlers, int $3 enters them.
Start ==
  /\ status = "boot"
  /\ status' = "live"
  /\ Interrupt(3, cpu)
  /\ UNCHANGED <<registers, handler_mutex, locals, memory, view, retired>>

\* One instruction; with the trap flag set a debug exception follows it.
Instruction ==
  /\ Executing
  /\ \E eip \in Eips, eax \in Values :
       LET next == [cpu EXCEPT !.eip = eip, !.eax = eax]
       IN /\ view' = next
          /\ IF cpu.tf THEN Interrupt(1, next)
             ELSE cpu' = next /\ UNCHANGED <<raised, frames>>
  /\ retired' = IF retired = 2 THEN 2 ELSE retired + 1
  /\ UNCHANGED <<status, registers, handler_mutex, locals, memory>>

\* A fault, a breakpoint or the int $3 of gdb_checkpoint.
Except ==
  /\ Executing
  /\ \E exception \in Exceptions : Interrupt(exception, cpu)
  /\ UNCHANGED <<status, registers, handler_mutex, locals, memory, view, retired>>

\* The program ends; exception_dispose runs at exit.
Finish ==
  /\ Executing
  /\ status' = "exited"
  /\ UNCHANGED <<frames, cpu, raised, registers, handler_mutex, locals, memory,
                 view, retired>>

-----------------------------------------------------------------------------
(***************************************************************************)
(* The handlers.                                                           *)
(***************************************************************************)
exception_save_registers ==
  /\ In("save")
  /\ registers' = cpu
  /\ Goto("enter")
  /\ UNCHANGED <<program, handler_mutex, locals, memory>>

\* Fault: stepping is not reset.
EnterLoop_keeps_stepping ==
  /\ In("enter")
  /\ ~handler_mutex
  /\ handler_mutex' = TRUE
  /\ sigval' = exception_to_signal(RaisedSignal(raised))
  /\ Goto("write")
  /\ UNCHANGED <<program, registers, stepping, command, index, memory>>

\* Fault: the signal goes into the report as it came.
EnterLoop_raw_signal ==
  /\ In("enter")
  /\ ~handler_mutex
  /\ handler_mutex' = TRUE
  /\ sigval' = RaisedSignal(raised)
  /\ stepping' = FALSE
  /\ Goto("write")
  /\ UNCHANGED <<program, registers, command, index, memory>>

\* gdb_loop up to its first packet, which reports the signal.  (stepping is reset
\* right after that packet; nothing looks at it before.)
EnterLoop ==
  /\ In("enter")
  /\ ~handler_mutex
  /\ handler_mutex' = TRUE
  /\ sigval' = exception_to_signal(RaisedSignal(raised))
  /\ stepping' = FALSE
  /\ Goto("write")
  /\ UNCHANGED <<program, registers, command, index, memory>>

\* Fault: a handler that finds the loop busy starts another one.
EnterBusy_loops ==
  /\ In("enter")
  /\ handler_mutex
  /\ Goto("write")
  /\ UNCHANGED <<program, registers, handler_mutex, locals, memory>>

\* gdb_loop is active already.
EnterBusy ==
  /\ In("enter")
  /\ handler_mutex
  /\ Goto("leave")
  /\ UNCHANGED <<program, registers, handler_mutex, locals, memory>>

\* gdb_write_packet, which sends until its '+' comes.  That a step of it ends takes a
\* debugger that acknowledges.
Write ==
  /\ In("write")
  /\ Goto("read")
  /\ UNCHANGED <<program, registers, handler_mutex, locals, memory>>

\* exception_return: on with whatever code ctx.registers belongs to.
exception_return ==
  /\ In("leave")
  /\ cpu' = registers
  /\ frames' = IF registers = StubContext THEN Front(frames) ELSE <<>>
  /\ retired' = 0
  /\ UNCHANGED <<status, raised, view, registers, handler_mutex, locals, memory>>

-----------------------------------------------------------------------------
(***************************************************************************)
(* The commands.                                                           *)
(***************************************************************************)
\* gdb_read_packet returns a command.
Receive(c) ==
  /\ In("read")
  /\ command' = c

\* The commands that change nothing here: g, malformed operands, texts.
Answer ==
  /\ \E c \in Others : c.op # "D" /\ Receive(c)
  /\ Goto("write")
  /\ UNCHANGED <<program, registers, handler_mutex, sigval, stepping, index, memory>>

\* D
Detach ==
  /\ \E c \in Others : c.op = "D" /\ Receive(c)
  /\ status' = "exited"
  /\ frames' = <<>>
  /\ UNCHANGED <<cpu, raised, view, retired, registers, handler_mutex, sigval,
                 stepping, index, memory>>

\* G and P
SetRegisters ==
  /\ \E c \in Sets \cup [op : {"G"}, context : Context] :
       LET Set(context) == IF c.op = "G" THEN c.context
                           ELSE [context EXCEPT ![c.reg] = c.val]
       IN /\ Receive(c)
          /\ registers' = Set(registers)
          /\ view' = Set(view)
  /\ Goto("write")
  /\ UNCHANGED <<cpu, raised, retired, status, handler_mutex, sigval, stepping,
                 index, memory>>

\* m and M, up to the first byte.
BeginAccess ==
  /\ \E c \in Reads \cup Writes : Receive(c)
  /\ index' = 0
  /\ Goto("access")
  /\ UNCHANGED <<program, registers, handler_mutex, sigval, stepping, memory>>

Length  == IF command.op = "M" THEN Len(command.data) ELSE command.length
Address == command.addr + index

\* One round of mem_to_hex or hex_to_mem.
AccessByte ==
  /\ In("access")
  /\ index < Length
  /\ Address \in Mapped
  /\ memory' = IF command.op = "M"
               THEN [memory EXCEPT ![Address] = command.data[index + 1]] ELSE memory
  /\ index' = index + 1
  /\ UNCHANGED <<frames, program, registers, handler_mutex, sigval, stepping, command>>

\* The byte is not there: the processor faults inside the stub.  Nothing calls
\* ctx.mem_error_callback, so ctx.mem_error stays 0 and E03 is never sent.
AccessFault ==
  /\ In("access")
  /\ index < Length
  /\ Address \notin Mapped
  /\ Interrupt(14, StubContext)
  /\ UNCHANGED <<status, registers, handler_mutex, locals, memory, view, retired>>

EndAccess ==
  /\ In("access")
  /\ index = Length
  /\ Goto("write")
  /\ UNCHANGED <<program, registers, handler_mutex, locals, memory>>

\* Fault: the mutex is not given back.
Resume_keeps_mutex ==
  /\ \E c \in Resumes :
       LET Go(context) ==
             [context EXCEPT !.eip = IF c.addr = "none" THEN @ ELSE c.addr,
                             !.tf = (c.op = "s")]
       IN /\ Receive(c)
          /\ stepping' = (stepping \/ c.op = "s")
          /\ registers' = [Go(registers) EXCEPT !.tf = stepping']
          /\ view' = Go(view)
  /\ Goto("leave")
  /\ UNCHANGED <<cpu, raised, retired, status, handler_mutex, sigval, index, memory>>

\* s and c: the address if there is one, the trap flag, and out of the loop.
Resume ==
  /\ \E c \in Resumes :
       LET Go(context) ==
             [context EXCEPT !.eip = IF c.addr = "none" THEN @ ELSE c.addr,
                             !.tf = (c.op = "s")]
       IN /\ Receive(c)
          /\ stepping' = (stepping \/ c.op = "s")
          /\ registers' = [Go(registers) EXCEPT !.tf = stepping']
          /\ view' = Go(view)
  /\ handler_mutex' = FALSE
  /\ Goto("leave")
  /\ UNCHANGED <<cpu, raised, retired, status, sigval, index, memory>>

Command == Answer \/ Detach \/ SetRegisters \/ BeginAccess \/ Resume

\* After exit nothing happens any more.
Exited == status = "exited" /\ UNCHANGED gdbvars

Handler == exception_save_registers \/ EnterLoop \/ EnterBusy \/ Write
             \/ AccessByte \/ AccessFault \/ EndAccess \/ exception_return

StubNext ==
  Start \/ Instruction \/ Except \/ Finish \/ Handler \/ Command \/ Exited

StubSpec     == StubInit /\ [][StubNext]_gdbvars
StubFairSpec == StubSpec /\ WF_gdbvars(Handler)

-----------------------------------------------------------------------------
(***************************************************************************)
(* Properties.                                                             *)
(***************************************************************************)
Frames == {"save", "enter", "write", "read", "access", "leave"}

StubTypeOK ==
  /\ frames \in Seq(Frames)
  /\ status \in {"boot", "live", "exited"}
  /\ cpu \in Context \cup {StubContext}
  /\ raised \in Exceptions \cup {0, 1, 3, 14}
  /\ registers \in Context \cup {StubContext}
  /\ handler_mutex \in BOOLEAN
  /\ sigval \in {0, 4, 5, 7, 8, 11, 16}
  /\ stepping \in BOOLEAN
  /\ command \in Commands
  /\ index \in 0 .. 2
  /\ memory \in [Mapped -> Values]
  /\ view \in Context
  /\ retired \in 0 .. 2

\* While the program is stopped and the debugger can ask, ctx.registers is the
\* program as the debugger saw and changed it; and so is the program itself when
\* it goes on.  A handler that was entered on top of the loop, and saved the
\* registers of the stub over those of the program, never gets that far.
DebuggerSeesProgram ==
  /\ Executing => cpu = view
  /\ In("read") \/ In("write") => registers = view

\* Handlers nest two deep at most, the one below is in the middle of a memory
\* access, and only the one that holds the mutex ever reads or writes a packet.
OnlyOneFrameTalks ==
  /\ frames # <<>> => (handler_mutex <=> frames[1] \in {"write", "read", "access"})
  /\ Len(frames) > 1 => /\ Len(frames) = 2 /\ frames[1] = "access"
                        /\ frames[2] \in {"save", "enter", "leave"}

\* After a step the program executes one instruction and no more; after a continue
\* it is not trapped by the flag of an earlier step.
StepIsOneInstruction ==
  Executing => IF command.op = "s" THEN retired = 0 ELSE ~cpu.tf

\* Every stop of the program gets the debugger's attention: a mutex left set would
\* turn the next exception into an endless one.  So does every memory access of which
\* all bytes are there.
AllMapped == \A i \in 0 .. Length - 1 : command.addr + i \in Mapped

StopsAndAccessesAreAnswered ==
  frames = <<"save">> \/ (frames = <<"access">> /\ AllMapped) ~> frames = <<"read">>

-----------------------------------------------------------------------------
(***************************************************************************)
(* What comments and messages of the source say, and the code does not do. *)
(***************************************************************************)

\* "page fault" (gdbstub.h:260) and "general protection" (:257) are signal 11: a
\* program stopped by one is reported with that signal.
PageFaultIsReported ==
  frames = <<"read">> /\ raised \in {13, 14} => sigval = 11
=============================================================================
