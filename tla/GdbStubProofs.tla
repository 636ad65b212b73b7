---------------------------- MODULE GdbStubProofs ----------------------------
(***************************************************************************)
(* Safety of the stub for any code, registers, memory and exceptions of    *)
(* the program.  The invariant follows the registers of the program        *)
(* through a stop, and those of the stub through a fault inside a memory   *)
(* access: a nested handler finds the mutex taken, leaves at once, and the *)
(* access faults again, so that ctx.registers, which then hold the stub,   *)
(* never reach the debugger.                                               *)
(***************************************************************************)
EXTENDS GdbStub, SequenceTheorems, TLAPS

\* The shapes of the stack of handlers, and the mutex for each.
FramesOK ==
  \/ /\ frames = <<>>
     /\ status = "boot" \/ status = "live" => ~handler_mutex
  \/ /\ frames \in {<<"save">>, <<"enter">>, <<"leave">>}
     /\ status = "live" /\ ~handler_mutex
  \/ /\ frames \in {<<"write">>, <<"read">>, <<"access">>}
     /\ status = "live" /\ handler_mutex
  \/ /\ frames \in {<<"access", "save">>, <<"access", "enter">>, <<"access", "leave">>}
     /\ status = "live" /\ handler_mutex

\* A byte of the access that is not there: the access can only fault.
Faulting == command.op \in {"m", "M"} /\ index < Length /\ Address \notin Mapped

\* Whose registers are where.
RegistersOK ==
  /\ frames = <<>> /\ status # "exited" => cpu = view
  /\ frames = <<"save">> => cpu = view
  /\ frames \in {<<"enter">>, <<"write">>, <<"read">>, <<"leave">>} => registers = view
  /\ frames = <<"access">> => \/ registers = view
                              \/ registers = StubContext /\ Faulting
  /\ Len(frames) = 2 => Faulting
  /\ frames = <<"access", "save">> => cpu = StubContext
  /\ frames \in {<<"access", "enter">>, <<"access", "leave">>} => registers = StubContext

\* The trap flag belongs to the last step or continue.
TrapOK ==
  /\ frames \in {<<"write">>, <<"read">>, <<"access">>} => ~stepping
  /\ Len(frames) = 2 => ~stepping
  /\ frames = <<"leave">> => registers.tf = (command.op = "s")
  /\ Executing => IF command.op = "s" THEN cpu.tf /\ retired = 0 ELSE ~cpu.tf

AccessOK == frames # <<>> /\ frames[1] = "access" => command.op \in {"m", "M"}

StubInv == StubTypeOK /\ FramesOK /\ RegistersOK /\ TrapOK /\ AccessOK

-----------------------------------------------------------------------------
\* The stub is not a context of the program.
LEMMA StubIsNoContext == StubContext \notin Context
BY StubAssumption DEF StubContext, Context

\* Moving the running handler, when it is the only one.
LEMMA GotoOne ==
  ASSUME NEW x, frames = <<x>>, NEW a, Goto(a)
  PROVE  frames' = <<a>>
BY DEF Goto

\* And when it runs on top of another.
LEMMA GotoTwo ==
  ASSUME NEW w, NEW x, frames = <<w, x>>, NEW a, Goto(a)
  PROVE  frames' = <<w, a>>
BY DEF Goto

\* Where a handler can be, by the shape of the stack.
LEMMA Shapes ==
  ASSUME FramesOK, NEW a, In(a)
  PROVE  \/ frames = <<a>>
         \/ frames = <<"access", a>> /\ a \in {"save", "enter", "leave"}
BY DEF FramesOK, In, Top

\* The stacks that occur are stacks.
LEMMA FramesInSeq ==
  /\ <<>> \in Seq(Frames)
  /\ \A a \in Frames : <<a>> \in Seq(Frames)
  /\ \A a, b \in Frames : <<a, b>> \in Seq(Frames)
OBVIOUS

\* What an exception does to the stack, and its return.
LEMMA NestAndUnnest ==
  ASSUME NEW a, NEW b
  PROVE  Append(<<a>>, b) = <<a, b>> /\ Front(<<a, b>>) = <<a>>
<1> DEFINE S == {a, b}
<1>0. <<a>> \in Seq(S) /\ <<a, b>> \in Seq(S) /\ b \in S
  OBVIOUS
<1>1. Append(<<a>>, b) = <<a, b>>
  <2>1. Append(<<a>>, b) \in Seq(S) /\ Len(Append(<<a>>, b)) = 2
    BY <1>0, AppendProperties
  <2>2. Append(<<a>>, b)[1] = a /\ Append(<<a>>, b)[2] = b
    BY <1>0, AppendProperties
  <2>3. \A i \in 1 .. Len(Append(<<a>>, b)) : Append(<<a>>, b)[i] = <<a, b>>[i]
    BY <2>1, <2>2
  <2>4. Len(<<a, b>>) = 2
    OBVIOUS
  <2> QED
    BY <1>0, <2>1, <2>3, <2>4, SeqEqual
<1>2. Len(<<a, b>>) - 1 = 1
  OBVIOUS
<1>3. SubSeq(<<a, b>>, 1, 1) = <<a>>
  <2>1. SubSeq(<<a, b>>, 1, 1) \in Seq(S) /\ Len(SubSeq(<<a, b>>, 1, 1)) = 1
    BY <1>0, SubSeqProperties
  <2>2. SubSeq(<<a, b>>, 1, 1)[1] = a
    BY <1>0, SubSeqProperties
  <2>3. \A i \in 1 .. Len(SubSeq(<<a, b>>, 1, 1)) : SubSeq(<<a, b>>, 1, 1)[i] = <<a>>[i]
    BY <2>1, <2>2
  <2>4. Len(<<a>>) = 1
    OBVIOUS
  <2> QED
    BY <1>0, <2>1, <2>3, <2>4, SeqEqual
<1> QED
  BY <1>1, <1>2, <1>3 DEF Front

\* Only m and M have memory to access, three bytes of it at most.
LEMMA AccessCommands ==
  ASSUME NEW c \in Commands
  PROVE  /\ c.op = "m" => c \in Reads
         /\ c.op = "M" => c \in Writes
BY DEF Commands, Reads, Writes, Resumes, Sets, Others

\* An access is of two bytes at most.
LEMMA LengthType ==
  ASSUME command \in Commands, command.op \in {"m", "M"}
  PROVE  Length \in 0 .. 2
<1>1. CASE command.op = "m"
  BY <1>1, AccessCommands DEF Length, Reads
<1>2. CASE command.op = "M"
  <2>1. PICK n \in 0 .. 2 : command.data \in [1 .. n -> Values]
    BY <1>2, AccessCommands DEF Writes
  <2>2. Len(command.data) = n
    BY <2>1
  <2> QED
    BY <1>2, <2>2 DEF Length
<1> QED
  BY <1>1, <1>2

\* The invariant holds before gdb_start.
THEOREM StubInitial == StubInit => StubInv
<1> SUFFICES ASSUME StubInit PROVE StubInv
  OBVIOUS
<1>1. FramesOK /\ RegistersOK /\ TrapOK /\ AccessOK
  BY DEF StubInit, FramesOK, RegistersOK, TrapOK, AccessOK, NoCommand, Executing
<1>2. StubTypeOK
  <2>1. cpu \in Context
    BY DEF StubInit, Context
  <2>2. command \in Commands
    BY DEF StubInit, NoCommand, Commands, Others
  <2>3. frames \in Seq(Frames)
    BY FramesInSeq DEF StubInit
  <2>4. index \in 0 .. 2 /\ retired \in 0 .. 2 /\ view \in Context
    BY <2>1 DEF StubInit
  <2>5. handler_mutex \in BOOLEAN /\ stepping \in BOOLEAN
    BY Zenon DEF StubInit
  <2>6. registers \in Context \cup {StubContext} /\ cpu \in Context \cup {StubContext}
    BY <2>1 DEF StubInit
  <2> QED
    BY <2>1, <2>2, <2>3, <2>4, <2>5, <2>6, Zenon DEF StubInit, StubTypeOK
<1> QED
  BY <1>1, <1>2 DEF StubInv

-----------------------------------------------------------------------------
\* One lemma per action: the stack before and after it, then the invariant.
LEMMA StartKeeps == StubInv /\ Start => StubInv'
<1> SUFFICES ASSUME StubInv, Start PROVE StubInv'
  OBVIOUS
<1>1. frames = <<>> /\ frames' = <<"save">> /\ ~handler_mutex
  BY DEF StubInv, FramesOK, Start, Interrupt
<1>2. FramesOK' /\ RegistersOK' /\ TrapOK' /\ AccessOK'
  BY <1>1 DEF StubInv, FramesOK, RegistersOK, TrapOK, AccessOK, Executing, Faulting,
              Length, Address, Start, Interrupt, locals
<1>3. StubTypeOK'
  <2>1. frames' \in Seq(Frames)
    BY <1>1, FramesInSeq DEF Frames
  <2> QED
    BY <2>1 DEF StubInv, StubTypeOK, Start, Interrupt, locals
<1> QED
  BY <1>2, <1>3 DEF StubInv

\* An instruction moves the program and what the debugger may see of it together.
LEMMA InstructionKeeps == StubInv /\ Instruction => StubInv'
<1> SUFFICES ASSUME StubInv, Instruction PROVE StubInv'
  OBVIOUS
<1>1. frames = <<>> /\ status = "live" /\ status' = status /\ handler_mutex' = handler_mutex
      /\ UNCHANGED <<registers, memory, sigval, stepping, command, index>>
  BY DEF Instruction, Executing, locals
<1>2. cpu \in Context /\ (IF command.op = "s" THEN cpu.tf ELSE ~cpu.tf) /\ ~handler_mutex
  BY <1>1 DEF StubInv, StubTypeOK, FramesOK, RegistersOK, TrapOK, Executing
<1>3. PICK eip \in Eips, eax \in Values :
        LET next == [cpu EXCEPT !.eip = eip, !.eax = eax]
        IN /\ view' = next
           /\ IF cpu.tf THEN Interrupt(1, next)
              ELSE cpu' = next /\ UNCHANGED <<raised, frames>>
  BY DEF Instruction
<1>4. view' \in Context /\ cpu' = view' /\ cpu'.tf = cpu.tf
  BY <1>2, <1>3 DEF Context, Interrupt
<1>5. raised' \in Exceptions \cup {0, 1, 3, 14} /\ retired' \in 0 .. 2
  BY <1>3 DEF Instruction, Interrupt, StubInv, StubTypeOK
<1>6. CASE cpu.tf
  <2>1. frames' = <<"save">>
    BY <1>1, <1>3, <1>6 DEF Interrupt
  <2>2. FramesOK' /\ RegistersOK' /\ TrapOK' /\ AccessOK'
    BY <1>1, <1>2, <1>4, <2>1 DEF FramesOK, RegistersOK, TrapOK, AccessOK, Executing
  <2> QED
    BY <1>1, <1>4, <1>5, <2>1, <2>2, FramesInSeq DEF StubInv, StubTypeOK, Frames
<1>7. CASE ~cpu.tf
  <2>1. frames' = <<>>
    BY <1>1, <1>3, <1>7
  <2>2. FramesOK' /\ RegistersOK' /\ TrapOK' /\ AccessOK'
    BY <1>1, <1>2, <1>4, <1>7, <2>1 DEF FramesOK, RegistersOK, TrapOK, AccessOK, Executing
  <2> QED
    BY <1>1, <1>4, <1>5, <2>1, <2>2, FramesInSeq DEF StubInv, StubTypeOK
<1> QED
  BY <1>6, <1>7

\* An exception cuts the program where it is.
LEMMA ExceptKeeps == StubInv /\ Except => StubInv'
<1> SUFFICES ASSUME StubInv, Except PROVE StubInv'
  OBVIOUS
<1>1. frames = <<>> /\ frames' = <<"save">>
  BY DEF Except, Executing, Interrupt
<1>2. FramesOK' /\ RegistersOK' /\ TrapOK' /\ AccessOK'
  BY <1>1 DEF StubInv, FramesOK, RegistersOK, TrapOK, AccessOK, Executing, Faulting,
              Length, Address, Except, Interrupt, locals
<1>3. StubTypeOK'
  <2>1. frames' \in Seq(Frames)
    BY <1>1, FramesInSeq DEF Frames
  <2> QED
    BY <2>1 DEF StubInv, StubTypeOK, Except, Interrupt, locals
<1> QED
  BY <1>2, <1>3 DEF StubInv

\* At the end of the program nothing is left to show.
LEMMA FinishKeeps == StubInv /\ Finish => StubInv'
<1> SUFFICES ASSUME StubInv, Finish PROVE StubInv'
  OBVIOUS
<1>1. frames = <<>> /\ frames' = <<>>
  BY DEF Finish, Executing
<1>2. FramesOK' /\ RegistersOK' /\ TrapOK' /\ AccessOK'
  BY <1>1 DEF StubInv, FramesOK, RegistersOK, TrapOK, AccessOK, Executing, Faulting,
              Length, Address, Finish, locals
<1>3. StubTypeOK'
  <2>1. frames' \in Seq(Frames)
    BY <1>1, FramesInSeq DEF Frames
  <2> QED
    BY <2>1 DEF StubInv, StubTypeOK, Finish, locals
<1> QED
  BY <1>2, <1>3 DEF StubInv

\* The registers saved are those the exception cut: the program's or the stub's.
LEMMA SaveKeeps == StubInv /\ exception_save_registers => StubInv'
<1> SUFFICES ASSUME StubInv, exception_save_registers PROVE StubInv'
  OBVIOUS
<1>1. \/ frames = <<"save">> /\ frames' = <<"enter">>
      \/ frames = <<"access", "save">> /\ frames' = <<"access", "enter">>
  <2>1. FramesOK /\ In("save") /\ Goto("enter")
    BY DEF StubInv, exception_save_registers
  <2>2. CASE frames = <<"save">>
    <3>1. frames' = <<"enter">>
      BY <2>1, <2>2, GotoOne
    <3> QED
      BY <2>2, <3>1
  <2>3. CASE frames = <<"access", "save">>
    BY <2>1, <2>3, GotoTwo
  <2> QED
    BY <2>1, <2>2, <2>3, Shapes
<1>2. FramesOK' /\ RegistersOK' /\ TrapOK' /\ AccessOK'
  BY <1>1 DEF StubInv, FramesOK, RegistersOK, TrapOK, AccessOK, Executing, Faulting,
              Length, Address, exception_save_registers, program, locals
<1>3. StubTypeOK'
  <2>1. frames' \in Seq(Frames)
    BY <1>1, FramesInSeq DEF Frames
  <2> QED
    BY <2>1 DEF StubInv, StubTypeOK, exception_save_registers, program, locals
<1> QED
  BY <1>2, <1>3 DEF StubInv

\* The mutex is free exactly for a handler that cut the program.
LEMMA EnterLoopKeeps == StubInv /\ EnterLoop => StubInv'
<1> SUFFICES ASSUME StubInv, EnterLoop PROVE StubInv'
  OBVIOUS
<1>1. frames = <<"enter">> /\ frames' = <<"write">>
  BY Shapes, GotoOne, GotoTwo DEF StubInv, EnterLoop, FramesOK
<1>2. FramesOK' /\ RegistersOK' /\ TrapOK' /\ AccessOK'
  BY <1>1 DEF StubInv, FramesOK, RegistersOK, TrapOK, AccessOK, Executing, Faulting,
              Length, Address, EnterLoop, program, exception_to_signal, RaisedSignal,
              SIGFPE, SIGILL, SIGSEGV, SIGTRAP
<1>3. StubTypeOK'
  <2>1. frames' \in Seq(Frames)
    BY <1>1, FramesInSeq DEF Frames
  <2> QED
    BY <2>1 DEF StubInv, StubTypeOK, EnterLoop, program, exception_to_signal,
                RaisedSignal, SIGFPE, SIGILL, SIGSEGV, SIGTRAP
<1> QED
  BY <1>2, <1>3 DEF StubInv

\* It is taken for a handler that cut a memory access.
LEMMA EnterBusyKeeps == StubInv /\ EnterBusy => StubInv'
<1> SUFFICES ASSUME StubInv, EnterBusy PROVE StubInv'
  OBVIOUS
<1>1. frames = <<"access", "enter">> /\ frames' = <<"access", "leave">>
  BY Shapes, GotoOne, GotoTwo DEF StubInv, EnterBusy, FramesOK
<1>2. FramesOK' /\ RegistersOK' /\ TrapOK' /\ AccessOK'
  BY <1>1 DEF StubInv, FramesOK, RegistersOK, TrapOK, AccessOK, Executing, Faulting,
              Length, Address, EnterBusy, program, locals
<1>3. StubTypeOK'
  <2>1. frames' \in Seq(Frames)
    BY <1>1, FramesInSeq DEF Frames
  <2> QED
    BY <2>1 DEF StubInv, StubTypeOK, EnterBusy, program, locals
<1> QED
  BY <1>2, <1>3 DEF StubInv

\* A packet written changes no registers.
LEMMA WriteKeeps == StubInv /\ Write => StubInv'
<1> SUFFICES ASSUME StubInv, Write PROVE StubInv'
  OBVIOUS
<1>1. frames = <<"write">> /\ frames' = <<"read">>
  BY Shapes, GotoOne, GotoTwo DEF StubInv, Write
<1>2. FramesOK' /\ RegistersOK' /\ TrapOK' /\ AccessOK'
  BY <1>1 DEF StubInv, FramesOK, RegistersOK, TrapOK, AccessOK, Executing, Faulting,
              Length, Address, Write, program, locals
<1>3. StubTypeOK'
  <2>1. frames' \in Seq(Frames)
    BY <1>1, FramesInSeq DEF Frames
  <2> QED
    BY <2>1 DEF StubInv, StubTypeOK, Write, program, locals
<1> QED
  BY <1>2, <1>3 DEF StubInv

\* A byte that is there is read or written; with the stub's registers saved it never is.
LEMMA AccessByteKeeps == StubInv /\ AccessByte => StubInv'
<1> SUFFICES ASSUME StubInv, AccessByte PROVE StubInv'
  OBVIOUS
<1>1. frames = <<"access">> /\ frames' = <<"access">>
  BY Shapes DEF StubInv, AccessByte
<1>2. FramesOK' /\ RegistersOK' /\ TrapOK' /\ AccessOK'
  BY <1>1 DEF StubInv, FramesOK, RegistersOK, TrapOK, AccessOK, Executing, Faulting,
              Length, Address, AccessByte, program
<1>3. StubTypeOK'
  <2>1. frames' \in Seq(Frames)
    BY <1>1, FramesInSeq DEF Frames
  <2>2. index' \in 0 .. 2
    <3>1. Length \in 0 .. 2
      BY <1>1, LengthType DEF StubInv, StubTypeOK, AccessOK
    <3> QED
      BY <3>1 DEF StubInv, StubTypeOK, AccessByte
  <2>3. memory' \in [Mapped -> Values]
    <3>1. CASE command.op = "M"
      <4>1. index + 1 \in 1 .. Len(command.data) /\ command.data[index + 1] \in Values
        <5>1. PICK n \in 0 .. 2 : command.data \in [1 .. n -> Values]
          BY <3>1, AccessCommands DEF StubInv, StubTypeOK, Writes
        <5> QED
          BY <3>1, <5>1 DEF StubInv, StubTypeOK, AccessByte, Length
      <4> QED
        BY <3>1, <4>1 DEF StubInv, StubTypeOK, AccessByte
    <3>2. CASE command.op # "M"
      BY <3>2 DEF StubInv, StubTypeOK, AccessByte
    <3> QED
      BY <3>1, <3>2
  <2> QED
    BY <2>1, <2>2, <2>3 DEF StubInv, StubTypeOK, AccessByte, program
<1> QED
  BY <1>2, <1>3 DEF StubInv

\* A byte that is not there puts a handler on top of the loop.
LEMMA AccessFaultKeeps == StubInv /\ AccessFault => StubInv'
<1> SUFFICES ASSUME StubInv, AccessFault PROVE StubInv'
  OBVIOUS
<1>1. frames = <<"access">> /\ frames' = <<"access", "save">>
  <2>1. frames = <<"access">>
    BY Shapes DEF StubInv, AccessFault
  <2> QED
    BY <2>1, NestAndUnnest DEF AccessFault, Interrupt
<1>2. FramesOK' /\ RegistersOK' /\ TrapOK' /\ AccessOK'
  <2>1. UNCHANGED <<status, registers, handler_mutex, sigval, stepping, command, index>>
        /\ cpu' = StubContext
    BY DEF AccessFault, Interrupt, locals
  <2>2. Faulting /\ Faulting'
    BY <1>1, <2>1 DEF StubInv, AccessOK, AccessFault, Faulting, Length, Address
  <2>3. Len(frames') = 2 /\ frames'[1] = "access"
    BY <1>1
  <2> QED
    BY <1>1, <2>1, <2>2, <2>3 DEF StubInv, FramesOK, RegistersOK, TrapOK, AccessOK,
                                  Executing, Faulting
<1>3. StubTypeOK'
  <2>1. frames' \in Seq(Frames)
    BY <1>1, FramesInSeq DEF Frames
  <2> QED
    BY <2>1 DEF StubInv, StubTypeOK, AccessFault, locals, Interrupt
<1> QED
  BY <1>2, <1>3 DEF StubInv

\* An access that ends never faulted: ctx.registers are the program's.
LEMMA EndAccessKeeps == StubInv /\ EndAccess => StubInv'
<1> SUFFICES ASSUME StubInv, EndAccess PROVE StubInv'
  OBVIOUS
<1>1. frames = <<"access">> /\ frames' = <<"write">>
  BY Shapes, GotoOne, GotoTwo DEF StubInv, EndAccess
<1>2. FramesOK' /\ RegistersOK' /\ TrapOK' /\ AccessOK'
  <2>1. ~Faulting
    BY <1>1, LengthType DEF StubInv, StubTypeOK, EndAccess, Faulting
  <2> QED
    BY <1>1, <2>1 DEF StubInv, FramesOK, RegistersOK, TrapOK, AccessOK, Executing,
                      EndAccess, program, locals
<1>3. StubTypeOK'
  <2>1. frames' \in Seq(Frames)
    BY <1>1, FramesInSeq DEF Frames
  <2> QED
    BY <2>1 DEF StubInv, StubTypeOK, EndAccess, program, locals
<1> QED
  BY <1>2, <1>3 DEF StubInv

\* The program goes on from its registers, a memory access from the stub's.
LEMMA ReturnKeeps == StubInv /\ exception_return => StubInv'
<1> SUFFICES ASSUME StubInv, exception_return PROVE StubInv'
  OBVIOUS
<1>1. \/ frames = <<"leave">> /\ frames' = <<>>
      \/ frames = <<"access", "leave">> /\ frames' = <<"access">>
  <2>1. CASE frames = <<"leave">>
    <3>1. registers # StubContext
      BY <2>1, StubIsNoContext DEF StubInv, StubTypeOK, RegistersOK
    <3> QED
      BY <2>1, <3>1 DEF exception_return
  <2>2. CASE frames = <<"access", "leave">>
    <3>1. registers = StubContext
      BY <2>2 DEF StubInv, RegistersOK
    <3> QED
      BY <2>2, <3>1, NestAndUnnest DEF exception_return
  <2> QED
    BY <2>1, <2>2, Shapes DEF StubInv, exception_return
<1>2. FramesOK' /\ RegistersOK' /\ TrapOK' /\ AccessOK'
  <2>1. UNCHANGED <<status, handler_mutex, registers, view, sigval, stepping, command, index>>
        /\ cpu' = registers /\ retired' = 0
    BY DEF exception_return, locals
  <2>2. Faulting' = Faulting
    BY <2>1 DEF Faulting, Length, Address, exception_return
  <2>3. CASE frames = <<"leave">> /\ frames' = <<>>
    <3>1. registers = view /\ registers.tf = (command.op = "s") /\ status = "live" /\ ~handler_mutex
      BY <2>3 DEF StubInv, FramesOK, RegistersOK, TrapOK
    <3>2. FramesOK' /\ RegistersOK' /\ AccessOK'
      BY <2>1, <2>3, <3>1 DEF FramesOK, RegistersOK, AccessOK
    <3>3. IF command'.op = "s" THEN cpu'.tf /\ retired' = 0 ELSE ~cpu'.tf
      BY <2>1, <3>1, Zenon
    <3>4. TrapOK'
      BY <2>3, <3>3 DEF TrapOK
    <3> QED
      BY <3>2, <3>4
  <2>4. CASE frames = <<"access", "leave">> /\ frames' = <<"access">>
    <3>1. registers = StubContext /\ Faulting /\ status = "live" /\ handler_mutex /\ ~stepping
      BY <2>4 DEF StubInv, FramesOK, RegistersOK, TrapOK
    <3>2. FramesOK' /\ TrapOK'
      BY <2>1, <2>4, <3>1 DEF FramesOK, TrapOK, Executing
    <3>3. RegistersOK' /\ AccessOK'
      BY <2>1, <2>2, <2>4, <3>1 DEF StubInv, RegistersOK, AccessOK
    <3> QED
      BY <3>2, <3>3
  <2> QED
    BY <1>1, <2>3, <2>4
<1>3. StubTypeOK'
  <2>1. frames' \in Seq(Frames)
    BY <1>1, FramesInSeq DEF Frames
  <2> QED
    BY <2>1 DEF StubInv, StubTypeOK, exception_return, locals
<1> QED
  BY <1>2, <1>3 DEF StubInv

\* A command that only asks.
LEMMA AnswerKeeps == StubInv /\ Answer => StubInv'
<1> SUFFICES ASSUME StubInv, Answer PROVE StubInv'
  OBVIOUS
<1>1. frames = <<"read">> /\ frames' = <<"write">>
  BY Shapes, GotoOne, GotoTwo DEF StubInv, Answer, Receive
<1>2. FramesOK' /\ RegistersOK' /\ TrapOK' /\ AccessOK'
  BY <1>1 DEF StubInv, FramesOK, RegistersOK, TrapOK, AccessOK, Executing, Faulting,
              Length, Address, Answer, Receive, program, Commands
<1>3. StubTypeOK'
  <2>1. frames' \in Seq(Frames)
    BY <1>1, FramesInSeq DEF Frames
  <2> QED
    BY <2>1 DEF StubInv, StubTypeOK, Answer, Receive, program, Commands
<1> QED
  BY <1>2, <1>3 DEF StubInv

\* D ends the program.
LEMMA DetachKeeps == StubInv /\ Detach => StubInv'
<1> SUFFICES ASSUME StubInv, Detach PROVE StubInv'
  OBVIOUS
<1>1. frames = <<"read">> /\ frames' = <<>>
  BY Shapes DEF StubInv, Detach, Receive
<1>2. FramesOK' /\ RegistersOK' /\ TrapOK' /\ AccessOK'
  BY <1>1 DEF StubInv, FramesOK, RegistersOK, TrapOK, AccessOK, Executing, Faulting,
              Length, Address, Detach, Receive, Commands
<1>3. StubTypeOK'
  <2>1. frames' \in Seq(Frames)
    BY <1>1, FramesInSeq DEF Frames
  <2> QED
    BY <2>1 DEF StubInv, StubTypeOK, Detach, Receive, Commands
<1> QED
  BY <1>2, <1>3 DEF StubInv

\* What the debugger sets, it sets in ctx.registers.
LEMMA SetRegistersKeeps == StubInv /\ SetRegisters => StubInv'
<1> SUFFICES ASSUME StubInv, SetRegisters PROVE StubInv'
  OBVIOUS
<1>1. frames = <<"read">> /\ frames' = <<"write">>
  BY Shapes, GotoOne, GotoTwo DEF StubInv, SetRegisters, Receive
<1>2. FramesOK' /\ RegistersOK' /\ TrapOK' /\ AccessOK'
  BY <1>1 DEF StubInv, FramesOK, RegistersOK, TrapOK, AccessOK, Executing, Faulting,
              Length, Address, SetRegisters, Receive, Commands
<1>3. StubTypeOK'
  <2>1. frames' \in Seq(Frames)
    BY <1>1, FramesInSeq DEF Frames
  <2>2. registers \in Context /\ view \in Context /\ registers = view
    BY <1>1 DEF StubInv, StubTypeOK, RegistersOK
  <2>3. PICK c \in Sets \cup [op : {"G"}, context : Context] :
          /\ command' = c
          /\ registers' = IF c.op = "G" THEN c.context ELSE [registers EXCEPT ![c.reg] = c.val]
          /\ view' = IF c.op = "G" THEN c.context ELSE [view EXCEPT ![c.reg] = c.val]
    BY DEF SetRegisters, Receive
  <2>4. command' \in Commands
    BY <2>3 DEF Commands
  <2>5. registers' \in Context /\ view' \in Context
    <3>1. CASE c.op = "G"
      BY <2>3, <3>1 DEF Sets
    <3>2. CASE c.op # "G"
      <4>1. c \in Sets
        BY <2>3, <3>2
      <4>2. [view EXCEPT ![c.reg] = c.val] \in Context
        BY <2>2, <4>1 DEF Sets, Context
      <4> QED
        BY <2>2, <2>3, <3>2, <4>2
    <3> QED
      BY <3>1, <3>2
  <2>6. UNCHANGED <<cpu, raised, retired, status, handler_mutex, sigval, stepping, index, memory>>
    BY DEF SetRegisters
  <2> QED
    BY <2>1, <2>4, <2>5, <2>6 DEF StubInv, StubTypeOK
<1> QED
  BY <1>2, <1>3 DEF StubInv

\* An access begins with the program's registers saved.
LEMMA BeginAccessKeeps == StubInv /\ BeginAccess => StubInv'
<1> SUFFICES ASSUME StubInv, BeginAccess PROVE StubInv'
  OBVIOUS
<1>1. frames = <<"read">> /\ frames' = <<"access">>
  BY Shapes, GotoOne, GotoTwo DEF StubInv, BeginAccess, Receive
<1>2. FramesOK' /\ RegistersOK' /\ TrapOK' /\ AccessOK'
  BY <1>1 DEF StubInv, FramesOK, RegistersOK, TrapOK, AccessOK, Executing, Faulting,
              Length, Address, BeginAccess, Receive, program, Commands, Reads, Writes
<1>3. StubTypeOK'
  <2>1. frames' \in Seq(Frames)
    BY <1>1, FramesInSeq DEF Frames
  <2> QED
    BY <2>1 DEF StubInv, StubTypeOK, BeginAccess, Receive, program, Commands, Reads, Writes
<1> QED
  BY <1>2, <1>3 DEF StubInv

\* s and c set the trap flag as asked, the loop having begun with stepping reset.
LEMMA ResumeKeeps == StubInv /\ Resume => StubInv'
<1> SUFFICES ASSUME StubInv, Resume PROVE StubInv'
  OBVIOUS
<1>1. frames = <<"read">> /\ frames' = <<"leave">>
  BY Shapes, GotoOne, GotoTwo DEF StubInv, Resume, Receive
<1>2. /\ registers \in Context /\ view \in Context /\ registers = view
      /\ status = "live" /\ stepping = FALSE
  BY <1>1 DEF StubInv, StubTypeOK, FramesOK, RegistersOK, TrapOK
<1>3. PICK c \in Resumes :
        LET Go(context) ==
              [context EXCEPT !.eip = IF c.addr = "none" THEN @ ELSE c.addr,
                              !.tf = (c.op = "s")]
        IN /\ command' = c
           /\ stepping' = (stepping \/ c.op = "s")
           /\ registers' = [Go(registers) EXCEPT !.tf = stepping']
           /\ view' = Go(view)
  BY DEF Resume, Receive
<1>4. stepping' = (c.op = "s")
  BY <1>2, <1>3, Zenon
<1>5. view' \in Context /\ view'.tf = (c.op = "s")
  BY <1>2, <1>3 DEF Context, Resumes
<1>6. registers' = view'
  BY <1>2, <1>3, <1>4, <1>5 DEF Context
<1>7. UNCHANGED <<cpu, raised, retired, status, sigval, index, memory>> /\ handler_mutex' = FALSE
  BY DEF Resume
<1>8. FramesOK' /\ RegistersOK' /\ AccessOK'
  BY <1>1, <1>2, <1>6, <1>7 DEF FramesOK, RegistersOK, AccessOK
<1>9. TrapOK'
  <2>1. registers'.tf = (command'.op = "s")
    BY <1>3, <1>5, <1>6, Zenon
  <2> QED
    BY <1>1, <2>1 DEF TrapOK, Executing
<1>10. StubTypeOK'
  <2>1. frames' \in Seq(Frames)
    BY <1>1, FramesInSeq DEF Frames
  <2>2. command' \in Commands
    BY <1>3 DEF Commands
  <2>3. stepping' \in BOOLEAN /\ handler_mutex' \in BOOLEAN
    BY <1>4, <1>7, Zenon
  <2> QED
    BY <1>5, <1>6, <1>7, <2>1, <2>2, <2>3 DEF StubInv, StubTypeOK
<1> QED
  BY <1>8, <1>9, <1>10 DEF StubInv

\* Nothing changes.
LEMMA StutterKeeps == StubInv /\ UNCHANGED gdbvars => StubInv'
<1> SUFFICES ASSUME StubInv, UNCHANGED gdbvars PROVE StubInv'
  OBVIOUS
<1>1. FramesOK' /\ RegistersOK' /\ TrapOK' /\ AccessOK'
  BY DEF StubInv, gdbvars, FramesOK, RegistersOK, TrapOK, AccessOK, Executing, Faulting,
         Length, Address
<1>2. StubTypeOK'
  BY DEF StubInv, gdbvars, StubTypeOK
<1> QED
  BY <1>1, <1>2 DEF StubInv

\* No step breaks the invariant.
LEMMA StubStep == StubInv /\ [StubNext]_gdbvars => StubInv'
<1> SUFFICES ASSUME StubInv, [StubNext]_gdbvars PROVE StubInv'
  OBVIOUS
<1>1. CASE Start \/ Instruction \/ Except \/ Finish
  BY <1>1, StartKeeps, InstructionKeeps, ExceptKeeps, FinishKeeps
<1>2. CASE Handler
  BY <1>2, SaveKeeps, EnterLoopKeeps, EnterBusyKeeps, WriteKeeps, AccessByteKeeps,
     AccessFaultKeeps, EndAccessKeeps, ReturnKeeps DEF Handler
<1>3. CASE Command
  BY <1>3, AnswerKeeps, DetachKeeps, SetRegistersKeeps, BeginAccessKeeps, ResumeKeeps
     DEF Command
<1>4. CASE Exited \/ UNCHANGED gdbvars
  BY <1>4, StutterKeeps DEF Exited
<1> QED
  BY <1>1, <1>2, <1>3, <1>4 DEF StubNext

\* The invariant holds of every run, from these two.
LEMMA StubInvariant == StubSpec => []StubInv
<1>1. StubInit => StubInv
  BY StubInitial
<1>2. StubInv /\ [StubNext]_gdbvars => StubInv'
  BY StubStep
<1> QED
  BY <1>1, <1>2, PTL DEF StubSpec

-----------------------------------------------------------------------------
\* Type correctness, for any program, memory and exceptions.
THEOREM StubTypes == StubSpec => []StubTypeOK
<1>1. StubInv => StubTypeOK
  BY DEF StubInv
<1> QED
  BY <1>1, StubInvariant, PTL

\* Handlers nest in a memory access only, and only the one with the mutex talks:
\* the shapes FramesOK lists.
THEOREM OneFrameTalks == StubSpec => []OnlyOneFrameTalks
<1>1. StubInv => OnlyOneFrameTalks
  <2> SUFFICES ASSUME FramesOK PROVE OnlyOneFrameTalks
    BY DEF StubInv
  <2>1. CASE frames = <<>>
    BY <2>1 DEF OnlyOneFrameTalks
  <2>2. CASE frames \in {<<"save">>, <<"enter">>, <<"leave">>} /\ ~handler_mutex
    <3>1. frames[1] \notin {"write", "read", "access"} /\ Len(frames) = 1
      BY <2>2
    <3> QED
      BY <2>2, <3>1 DEF OnlyOneFrameTalks
  <2>3. CASE frames \in {<<"write">>, <<"read">>, <<"access">>} /\ handler_mutex
    <3>1. frames[1] \in {"write", "read", "access"} /\ Len(frames) = 1
      BY <2>3
    <3> QED
      BY <2>3, <3>1 DEF OnlyOneFrameTalks
  <2>4. CASE /\ frames \in {<<"access", "save">>, <<"access", "enter">>, <<"access", "leave">>}
             /\ handler_mutex
    <3>1. /\ frames[1] = "access" /\ Len(frames) = 2
          /\ frames[2] \in {"save", "enter", "leave"}
      BY <2>4
    <3> QED
      BY <2>4, <3>1 DEF OnlyOneFrameTalks
  <2> QED
    BY <2>1, <2>2, <2>3, <2>4 DEF FramesOK
<1> QED
  BY <1>1, StubInvariant, PTL

\* The debugger sees and changes the registers of the program and never the stub's,
\* and the program goes on with exactly what the debugger left it.
THEOREM DebuggerAlwaysSeesProgram == StubSpec => []DebuggerSeesProgram
<1>1. StubInv => DebuggerSeesProgram
  <2> SUFFICES ASSUME StubInv PROVE DebuggerSeesProgram
    OBVIOUS
  <2>1. Executing => cpu = view
    BY DEF StubInv, RegistersOK, Executing
  <2>2. In("read") \/ In("write") => registers = view
    BY Shapes DEF StubInv, RegistersOK
  <2> QED
    BY <2>1, <2>2 DEF DebuggerSeesProgram
<1> QED
  BY <1>1, StubInvariant, PTL

\* A step is one instruction, and a continue none of an earlier step's.
THEOREM StepsAreSingle == StubSpec => []StepIsOneInstruction
<1>1. StubInv => StepIsOneInstruction
  BY DEF StubInv, TrapOK, StepIsOneInstruction
<1> QED
  BY <1>1, StubInvariant, PTL
=============================================================================
