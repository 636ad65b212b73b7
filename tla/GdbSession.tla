----------------------------- MODULE GdbSession -----------------------------
(***************************************************************************)
(* A debugger and the stub of gdbstub.h on the two ends of a serial line:  *)
(* packets and their acknowledgements, retransmission, QStartNoAckMode,    *)
(* continue, the break byte, the timer tick and gdb_checkpoint.            *)
(*                                                                         *)
(* A packet is one token of the line, good or damaged (GdbPacket has its   *)
(* bytes); a request and its answer carry the number of the request.  The  *)
(* debugger is not in the source.  It does what the stub expects of it: it *)
(* sends one request at a time, again after a '-' or a timeout, takes the  *)
(* first good packet that follows the '+' for its answer, and acknowledges *)
(* packets, those it did not wait for as well.  Its timeout is longer than *)
(* what the line takes; of the stub and the program it knows nothing.      *)
(***************************************************************************)
EXTENDS Naturals, SequencesExt

CONSTANTS
  MaxRequests,      (* bound: requests of the debugger                       *)
  MaxBreaks,        (* bound: break bytes                                    *)
  MaxFaults,        (* bound: tokens lost or damaged                         *)
  MaxLine,          (* bound: tokens to the debugger, when the stub resends  *)
  MaxRest           (* bound: bytes of a request after its '$'               *)

ASSUME SessionAssumption ==
  MaxRequests \in Nat /\ MaxBreaks \in Nat /\ MaxFaults \in Nat /\ MaxLine \in Nat
  /\ MaxRest \in Nat

Kinds == {"data", "continue", "noack"}

\* Tokens.  A packet to the stub has the kind of its request.  The '+' of the stub has
\* the number of the request it is for, which the debugger does not see.
Plus       == [t |-> "+"]
PlusFor(n) == [t |-> "+", n |-> n]
Minus      == [t |-> "-"]
Break      == [t |-> "break"]
Rest(left) == [t |-> "rest", left |-> left]   \* the last bytes of a request
Packet(k, n, good) == [t |-> "$", kind |-> k, n |-> n, good |-> good]

VARIABLES
  (* the debugger *)
  host,             (* "away", "idle", or "ack" or "answer": what it waits
                       for                                                   *)
  host_no_ack,
  kind, request,    (* its last request                                      *)
  answer,           (* the request whose answer it took last                 *)
  breaks,           (* break bytes sent                                      *)
  (* the line *)
  toStub, toHost,
  faults,           (* tokens lost or damaged                                *)
  missing,          (* the requests of which the line lost or damaged a
                       copy, the '+' or an answer                            *)
  again,            (* the requests carried out more than once               *)
  seen,             (* what else the properties must know of the past        *)
  (* the stub and the program *)
  at,               (* where the processor is                                *)
  handler_mutex, no_ack_mode, was_interrupted,
  done              (* the last request carried out                          *)

hostvars == <<host, host_no_ack, kind, request, answer, breaks>>
history  == <<faults, missing, again, seen>>
flags    == <<handler_mutex, no_ack_mode, was_interrupted>>
stubvars == <<at, flags, done>>
sessionvars == <<hostvars, toStub, toHost, history, stubvars>>

\* A debugger that connects before the first report is out, a packet sent again by the
\* stub, a byte of another kind lost.
Events == {"early", "resent", "lost byte"}

Note(happened, what) == seen' = IF happened THEN seen \cup {what} ELSE seen

\* gdb_start has just executed int $3.
SessionInit ==
  /\ host = "away" /\ host_no_ack = FALSE /\ kind = "data"
  /\ request = 0 /\ answer = 0 /\ breaks = 0
  /\ toStub = <<>> /\ toHost = <<>>
  /\ faults = 0 /\ missing = [request |-> {}, ack |-> {}, answer |-> {}]
  /\ again = {} /\ seen = {}
  /\ at = "enter"
  /\ handler_mutex = FALSE /\ no_ack_mode = FALSE /\ was_interrupted = FALSE
  /\ done = 0

-----------------------------------------------------------------------------
(***************************************************************************)
(* The debugger.                                                           *)
(***************************************************************************)
ToStub(tokens) == toStub' = toStub \o tokens

\* The debugger drops what it finds on the line and acknowledges the first report.
Connect ==
  /\ host = "away"
  /\ host' = "idle"
  /\ toHost' = <<>>
  /\ ToStub(<<Plus>>)
  /\ Note(at \in {"enter", "write"}, "early")
  /\ UNCHANGED <<host_no_ack, kind, request, answer, breaks, faults, missing, again,
                 stubvars>>

Ask ==
  /\ host = "idle"
  /\ request < MaxRequests
  /\ request' = request + 1
  /\ kind' \in IF host_no_ack THEN Kinds \ {"noack"} ELSE Kinds
  /\ host' = IF host_no_ack THEN "answer" ELSE "ack"
  /\ ToStub(<<Packet(kind', request', TRUE)>>)
  /\ UNCHANGED <<host_no_ack, answer, breaks, toHost, history, stubvars>>

\* The debugger takes the next token off the line.
Take(token) ==
  /\ toHost # <<>>
  /\ token = Head(toHost)
  /\ toHost' = Tail(toHost)
  /\ UNCHANGED <<breaks, request, kind, history, stubvars>>

Resend == ToStub(<<Packet(kind, request, TRUE)>>)

WhileAck ==
  /\ host = "ack"
  /\ \E token \in ToSet(toHost) :
       /\ Take(token)
       /\ CASE token.t = "+" -> host' = "answer" /\ UNCHANGED toStub
            [] token.t = "-" -> host' = "ack" /\ Resend
            [] OTHER         -> host' = "ack" /\ ToStub(<<Plus>>)
  /\ UNCHANGED <<host_no_ack, answer>>

WhileAnswer ==
  /\ host = "answer"
  /\ \E token \in ToSet(toHost) :
       /\ Take(token)
       /\ CASE token.t # "$" ->
                 UNCHANGED <<host, host_no_ack, answer, toStub>>
            [] token.t = "$" /\ ~token.good ->
                 /\ ToStub(IF host_no_ack THEN <<>> ELSE <<Minus>>)
                 /\ UNCHANGED <<host, host_no_ack, answer>>
            [] OTHER ->
                 /\ host' = "idle"
                 /\ answer' = token.n
                 /\ host_no_ack' = (host_no_ack \/ kind = "noack")
                 /\ ToStub(IF host_no_ack THEN <<>> ELSE <<Plus>>)

\* The debugger loses patience only when nothing is on the line.
Quiet == toStub = <<>> /\ toHost = <<>>

HostTimeout ==
  /\ Quiet
  /\ ~host_no_ack
  /\ \/ host = "ack" /\ Resend
     \/ host = "answer" /\ kind # "continue" /\ ToStub(<<Minus>>)
  /\ UNCHANGED <<hostvars, toHost, history, stubvars>>

\* Ctrl+C in the debugger, while the program runs for all it knows.
SendBreak ==
  /\ host = "answer" /\ kind = "continue"
  /\ breaks < MaxBreaks
  /\ breaks' = breaks + 1
  /\ ToStub(<<Break>>)
  /\ UNCHANGED <<host, host_no_ack, kind, request, answer, toHost, history,
                 stubvars>>

-----------------------------------------------------------------------------
(***************************************************************************)
(* The line.                                                               *)
(***************************************************************************)
Hit ==
  /\ faults < MaxFaults
  /\ faults' = faults + 1
  /\ UNCHANGED <<hostvars, again, stubvars>>

\* What is gone of request n.
Missing(what, n) == missing' = [missing EXCEPT ![what] = @ \cup {n}]

LoseToStub ==
  \E i \in DOMAIN toStub :
    /\ Hit
    /\ toStub' = RemoveAt(toStub, i)
    /\ IF toStub[i].t = "$" THEN Missing("request", toStub[i].n) ELSE UNCHANGED missing
    /\ Note(toStub[i].t # "$", "lost byte")
    /\ UNCHANGED toHost

LoseToHost ==
  \E i \in DOMAIN toHost :
    /\ Hit
    /\ toHost' = RemoveAt(toHost, i)
    /\ CASE toHost[i].t = "$" -> Missing("answer", toHost[i].n)
         [] toHost[i].t = "+" -> Missing("ack", toHost[i].n)
         [] OTHER             -> UNCHANGED missing
    /\ UNCHANGED <<toStub, seen>>

Damaged(token) == Packet(token.kind, token.n, FALSE)

DamageRequest ==
  \E i \in DOMAIN toStub :
    /\ toStub[i].t = "$" /\ toStub[i].good
    /\ Hit
    /\ toStub' = [toStub EXCEPT ![i] = Damaged(@)]
    /\ Missing("request", toStub[i].n)
    /\ UNCHANGED <<toHost, seen>>

DamageAnswer ==
  \E i \in DOMAIN toHost :
    /\ toHost[i].t = "$" /\ toHost[i].good
    /\ Hit
    /\ toHost' = [toHost EXCEPT ![i] = Damaged(@)]
    /\ Missing("answer", toHost[i].n)
    /\ UNCHANGED <<toStub, seen>>

Line == LoseToStub \/ LoseToHost \/ DamageRequest \/ DamageAnswer

-----------------------------------------------------------------------------
(***************************************************************************)
(* The stub.                                                               *)
(***************************************************************************)
\* serial_port_getc, at the place called `place`.
Getc(place, token) ==
  /\ at = place
  /\ toStub # <<>>
  /\ token = Head(toStub)
  /\ toStub' = Tail(toStub)

ToHost(tokens) == toHost' = toHost \o tokens

\* gdb_write_packet up to the getc: the answer to the last request.
WritePacket ==
  /\ at = "write"
  /\ ToHost(<<Packet("answer", done, TRUE)>>)
  /\ at' = IF no_ack_mode THEN "read" ELSE "await"
  /\ UNCHANGED <<hostvars, toStub, history, flags, done>>

\* getc takes the first byte of the line.  What it leaves of a packet may hold a '+',
\* but not at its end, where the checksum is.
Leaves(token) ==
  CASE token.t = "$"                      -> {<<Rest(left)>> : left \in 1 .. MaxRest}
    [] token.t = "rest" /\ token.left > 1 -> {<<Rest(token.left - 1)>>}
    [] OTHER                              -> {<<>>}

IsPlus(token) ==
  IF token.t = "rest" /\ token.left > 1 THEN BOOLEAN ELSE {token.t = "+"}

GetFirstByte(token) ==
  /\ at = "await"
  /\ toStub # <<>>
  /\ token = Head(toStub)
  /\ \E left \in Leaves(token) : toStub' = left \o Tail(toStub)

\* Fault: any byte counts as the acknowledgement.
AwaitAck_any ==
  /\ \E token \in ToSet(toStub) : GetFirstByte(token)
  /\ at' = "read"
  /\ UNCHANGED <<hostvars, toHost, history, flags, done>>

\* Fault: the loop ends on any byte but '+'.
AwaitAck_inverted ==
  /\ \E token \in ToSet(toStub) :
       /\ GetFirstByte(token)
       /\ \E plus \in IsPlus(token) :
            at' = (IF plus THEN "write" ELSE "read") /\ Note(plus, "resent")
  /\ UNCHANGED <<hostvars, toHost, faults, missing, again, flags, done>>

\* Fault: a request that comes while the stub waits is acknowledged.
AwaitAck_acknowledges ==
  /\ \E token \in ToSet(toStub) :
       /\ GetFirstByte(token)
       /\ \E plus \in IsPlus(token) :
            at' = (IF plus THEN "read" ELSE "write") /\ Note(~plus, "resent")
       /\ ToHost(IF token.t = "$" THEN <<PlusFor(token.n)>> ELSE <<>>)
  /\ UNCHANGED <<hostvars, faults, missing, again, flags, done>>

\* The byte after the checksum.  Any other than '+' has the packet sent again, and so
\* has every byte of a request that is read here, up to a '+' in it.
AwaitAck ==
  /\ \E token \in ToSet(toStub) :
       /\ GetFirstByte(token)
       /\ \E plus \in IsPlus(token) :
            at' = (IF plus THEN "read" ELSE "write") /\ Note(~plus, "resent")
  /\ UNCHANGED <<hostvars, toHost, faults, missing, again, flags, done>>

\* getc times out; what it returns is not '+'.
AwaitTimeout ==
  /\ at = "await"
  /\ toStub = <<>>
  /\ Len(toHost) < MaxLine
  /\ at' = "write"
  /\ Note(TRUE, "resent")
  /\ UNCHANGED <<hostvars, toStub, toHost, faults, missing, again, flags, done>>

\* gdb_read_packet passes over what is not a packet.
SkipByte ==
  /\ \E token \in ToSet(toStub) : Getc("read", token) /\ token.t # "$"
  /\ UNCHANGED <<hostvars, toHost, history, stubvars>>

Acknowledge(token) == ToHost(IF no_ack_mode THEN <<>> ELSE <<token>>)

RejectPacket ==
  /\ \E token \in ToSet(toStub) : Getc("read", token) /\ token.t = "$" /\ ~token.good
  /\ Acknowledge(Minus)
  /\ UNCHANGED <<hostvars, history, stubvars>>

\* A good packet: gdb_loop carries out the request.
CarryOut(token) ==
  /\ token.t = "$" /\ token.good
  /\ done' = token.n
  /\ again' = again \cup (IF done = token.n THEN {done} ELSE {})
  /\ no_ack_mode' = (no_ack_mode \/ token.kind = "noack")
  /\ at' = IF token.kind = "continue" THEN "program" ELSE "write"
  /\ handler_mutex' = (token.kind # "continue")
  /\ UNCHANGED <<hostvars, faults, missing, seen, was_interrupted>>

\* Fault: the '+' is forgotten.
AcceptPacket_silent ==
  /\ \E token \in ToSet(toStub) : Getc("read", token) /\ CarryOut(token)
  /\ UNCHANGED toHost

AcceptPacket ==
  /\ \E token \in ToSet(toStub) : Getc("read", token) /\ CarryOut(token)
  /\ Acknowledge(PlusFor(done'))

-----------------------------------------------------------------------------
(***************************************************************************)
(* The program and the timer.                                              *)
(***************************************************************************)
\* The program runs into an exception of its own.
Except ==
  /\ at = "program"
  /\ at' = "enter"
  /\ UNCHANGED <<hostvars, toStub, toHost, history, flags, done>>

\* Fault: the mutex is not looked at.
gdb_tick_handler_any ==
  /\ toStub # <<>>
  /\ was_interrupted' = TRUE
  /\ UNCHANGED <<hostvars, toStub, toHost, history, at, handler_mutex, no_ack_mode, done>>

gdb_tick_handler ==
  /\ toStub # <<>>
  /\ ~handler_mutex
  /\ was_interrupted' = TRUE
  /\ UNCHANGED <<hostvars, toStub, toHost, history, at, handler_mutex, no_ack_mode, done>>

\* _gdb_checkpoint: the test, and the reset followed by int $3.
CheckpointTest ==
  /\ at = "program"
  /\ was_interrupted
  /\ at' = "checkpoint"
  /\ UNCHANGED <<hostvars, toStub, toHost, history, flags, done>>

\* Fault: the function returns false.
CheckpointStop_not ==
  /\ at = "checkpoint"
  /\ was_interrupted' = FALSE
  /\ at' = "program"
  /\ UNCHANGED <<hostvars, toStub, toHost, history, handler_mutex, no_ack_mode, done>>

CheckpointStop ==
  /\ at = "checkpoint"
  /\ was_interrupted' = FALSE
  /\ at' = "enter"
  /\ UNCHANGED <<hostvars, toStub, toHost, history, handler_mutex, no_ack_mode, done>>

\* Fault: the mutex is left alone.
EnterLoop_open ==
  /\ at = "enter"
  /\ at' = "write"
  /\ UNCHANGED <<hostvars, toStub, toHost, history, flags, done>>

\* gdb_loop takes the mutex and reports the stop.
EnterLoop ==
  /\ at = "enter"
  /\ handler_mutex' = TRUE
  /\ at' = "write"
  /\ UNCHANGED <<hostvars, toStub, toHost, history, no_ack_mode, was_interrupted, done>>

Host == WhileAck \/ WhileAnswer \/ HostTimeout
Stub == WritePacket \/ AwaitAck \/ AwaitTimeout \/ SkipByte \/ RejectPacket
          \/ AcceptPacket \/ EnterLoop
Checkpoint == CheckpointTest \/ CheckpointStop

Packets(tokens) == {token \in ToSet(tokens) : token.t = "$"}

\* The debugger waits for an answer that the stub believes to be delivered.
Wedged == host = "answer" /\ at = "read" /\ done = request /\ Packets(toHost) = {}

\* The debugger waits for a '+' that the stub, its acknowledgements off, will not send.
Unheard == /\ host = "ack" /\ no_ack_mode
           /\ \A token \in ToSet(toHost) : token.t # "+"

\* Acknowledgements are off and the stub waits for a request that the debugger takes for
\* delivered.
Dropped == /\ host = "answer" /\ host_no_ack /\ at = "read" /\ done # request
           /\ \A token \in Packets(toStub) : ~token.good

\* Nobody has come to debug, all requests are answered, or the program runs on.
Over ==
  /\ \/ host = "away" \/ (host = "idle" /\ request = MaxRequests) \/ at = "program"
     \/ Wedged \/ Dropped
  /\ UNCHANGED sessionvars

SessionNext == Connect \/ Ask \/ SendBreak \/ Host \/ Line \/ Stub \/ Except
                 \/ gdb_tick_handler \/ Checkpoint \/ Over

SessionSpec == SessionInit /\ [][SessionNext]_sessionvars
SessionFairSpec ==
  /\ SessionSpec
  /\ WF_sessionvars(Host) /\ WF_sessionvars(Stub)
  /\ WF_sessionvars(gdb_tick_handler) /\ WF_sessionvars(Checkpoint)

-----------------------------------------------------------------------------
(***************************************************************************)
(* Properties.                                                             *)
(***************************************************************************)
SessionTypeOK ==
  /\ host \in {"away", "idle", "ack", "answer"}
  /\ host_no_ack \in BOOLEAN
  /\ kind \in Kinds
  /\ request \in 0 .. MaxRequests /\ answer \in 0 .. request
  /\ breaks \in 0 .. MaxBreaks /\ faults \in 0 .. MaxFaults
  /\ ToSet(toStub) \subseteq {Plus, Minus, Break} \cup {Rest(left) : left \in 1 .. MaxRest}
       \cup {Packet(k, n, good) : k \in Kinds, n \in 1 .. MaxRequests, good \in BOOLEAN}
  /\ ToSet(toHost) \subseteq {Minus} \cup {PlusFor(n) : n \in 1 .. MaxRequests} \cup
       {Packet("answer", n, good) : n \in 0 .. MaxRequests, good \in BOOLEAN}
  /\ missing \in [{"request", "ack", "answer"} -> SUBSET (0 .. request)]
  /\ again \subseteq 1 .. done /\ seen \subseteq Events
  /\ at \in {"program", "checkpoint", "enter", "write", "await", "read"}
  /\ handler_mutex = (at \in {"write", "await", "read"})
  /\ no_ack_mode \in BOOLEAN /\ was_interrupted \in BOOLEAN
  /\ done \in 0 .. request

\* The session is a sequence of requests, each done and then answered: the debugger
\* never takes the answer to an earlier request, which retransmission repeats, for
\* the one it waits for, and nothing is done that it has not asked for.
Abstract == INSTANCE RequestReply
              WITH request <- request, done <- done, answer <- answer
ImplementsRequestReply == Abstract!RRSpec

\* A request is only carried out twice, a step or a write included, when the line lost
\* the very '+' that was for it; a request that the stub read as a bad acknowledgement,
\* or of which another copy was damaged, is not.
DoneTwiceOnlyIfAckLost == again \subseteq missing.ack

\* The three ways in which the session comes to a halt.  The answer to this request was
\* lost or damaged and the stub counts it as delivered: an earlier copy of its packet got
\* a '+' too, or acknowledgements are off.  The '+' for QStartNoAckMode was lost, and the
\* stub sends no other.  This request was lost or damaged with acknowledgements off.
HaltedOnlyByLoss ==
  /\ Wedged  => /\ request \in missing.answer
                /\ seen \cap {"resent", "early"} # {} \/ no_ack_mode
  /\ Unheard => kind = "noack" /\ request \in missing.ack
  /\ Dropped => no_ack_mode /\ request \in missing.request

\* What a tick may take for a break while the mutex is free: a break; the acknowledgement
\* of a packet that was sent more than once, or before the debugger came; the request of
\* a debugger that came before the first stop had the mutex; the continue that the stub
\* has already carried out, sent again as its '+' was lost.  A stop at a checkpoint has
\* one of these for its reason.
UnaskedStopExplained ==
  /\ ~handler_mutex => \A token \in ToSet(toStub) :
       \/ token = Break
       \/ token.t \in {"+", "-"} /\ seen \cap {"resent", "early"} # {}
       \/ token.t = "$" /\ done = 0 /\ "early" \in seen
       \/ token.t = "$" /\ token.kind = "continue" /\ token.n = done /\ done \in missing.ack
  /\ at = "checkpoint" =>
       breaks # 0 \/ seen \cap {"resent", "early"} # {} \/ missing.ack # {}

\* The debugger gets its answer, but for the three halts.
Answered == host \in {"ack", "answer"} ~>
              host = "idle" \/ at = "program" \/ Wedged \/ Unheard \/ Dropped

\* A break byte that is on its way to a running program stops it in gdb_loop.
BreakStops ==
  (Break \in ToSet(toStub) /\ at = "program") ~> handler_mutex \/ "lost byte" \in seen
=============================================================================
