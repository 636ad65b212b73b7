--------------------------- MODULE GdbSessionProofs ---------------------------
(***************************************************************************)
(* Safety of a debugging session, for any number of requests, break bytes  *)
(* and faults of the line, and the refinement of RequestReply.             *)
(***************************************************************************)
EXTENDS GdbSession, SequenceTheorems, TLAPS

HostTokens == {Plus, Minus, Break} \cup {Rest(left) : left \in 1 .. MaxRest} \cup
                {Packet(k, n, good) : k \in Kinds, n \in 1 .. MaxRequests, good \in BOOLEAN}
StubTokens == {Minus} \cup {PlusFor(n) : n \in 1 .. MaxRequests} \cup
                {Packet("answer", n, good) : n \in 0 .. MaxRequests, good \in BOOLEAN}

ScalarsOK ==
  /\ host \in {"away", "idle", "ack", "answer"}
  /\ host_no_ack \in BOOLEAN /\ no_ack_mode \in BOOLEAN /\ was_interrupted \in BOOLEAN
  /\ kind \in Kinds
  /\ request \in 0 .. MaxRequests /\ answer \in 0 .. request /\ done \in 0 .. request
  /\ breaks \in 0 .. MaxBreaks /\ faults \in 0 .. MaxFaults
  /\ at \in {"program", "checkpoint", "enter", "write", "await", "read"}
  /\ handler_mutex \in BOOLEAN /\ (handler_mutex <=> at \in {"write", "await", "read"})
  /\ missing \in [{"request", "ack", "answer"} -> SUBSET (0 .. request)]
  /\ again \subseteq 1 .. done /\ seen \subseteq Events

LinesOK == toStub \in Seq(HostTokens) /\ toHost \in Seq(StubTokens)

\* What stands at place i of a line.
RequestAt(i) == i \in DOMAIN toStub /\ toStub[i].t = "$"
PlusUpAt(i)  == i \in DOMAIN toStub /\ toStub[i].t = "+"
AnswerAt(i)  == i \in DOMAIN toHost /\ toHost[i].t = "$"
PlusAt(i)    == i \in DOMAIN toHost /\ toHost[i].t = "+"
MinusAt(i)   == i \in DOMAIN toHost /\ toHost[i].t = "-"

\* The debugger has its '+', or will find it on the line; and the packets it will then
\* take for its answer.
Heard    == host = "answer" \/ \E i \in DOMAIN toHost : PlusAt(i)
Takes(j) == AnswerAt(j) /\ (host = "answer" \/ \E i \in DOMAIN toHost : PlusAt(i) /\ i < j)

\* The three counters; what is on the line is of the last request.
CountersOK ==
  /\ host \in {"away", "idle"} => answer = request /\ done = request
  /\ host \in {"ack", "answer"} => request = answer + 1 /\ answer <= done
  /\ host = "away" => toStub = <<>> /\ at \in {"enter", "write", "await"} /\ ~no_ack_mode
  /\ \A i \in DOMAIN toStub : RequestAt(i) => toStub[i].n = request /\ toStub[i].kind = kind
  /\ \A i \in DOMAIN toHost : AnswerAt(i) => toHost[i].n <= done
  /\ \A i \in DOMAIN toHost : PlusAt(i) => toHost[i].n = request

\* A request is on its way to the stub, or its acknowledgement on its way back, never
\* two such at once.
OneOutstanding ==
  /\ host = "ack" => ~host_no_ack
  /\ \A i \in DOMAIN toStub : RequestAt(i) => host = "ack" \/ (host = "answer" /\ host_no_ack)
  /\ \A i \in DOMAIN toHost : PlusAt(i) \/ MinusAt(i) => host = "ack"
  /\ \A i \in DOMAIN toHost : MinusAt(i) => at = "read"
  /\ \A i, j \in DOMAIN toStub : RequestAt(i) /\ RequestAt(j) => i = j
  /\ \A i, j \in DOMAIN toHost : ~AnswerAt(i) /\ ~AnswerAt(j) => i = j
  /\ \A i \in DOMAIN toStub, j \in DOMAIN toHost : RequestAt(i) => AnswerAt(j)

\* What the debugger takes for its answer is its answer.
Fresh ==
  /\ Heard /\ ~host_no_ack => done = request
  /\ \A j \in DOMAIN toHost : Takes(j) => toHost[j].n = request

\* With acknowledgements off nothing is sent twice.
NoAckOK ==
  /\ host_no_ack => no_ack_mode
  /\ no_ack_mode => at # "await"
  /\ kind = "noack" /\ done = request => no_ack_mode
  /\ no_ack_mode /\ ~host_no_ack =>
       kind = "noack" /\ done = request /\ host \in {"ack", "answer"} /\ at \in {"write", "read"}
  /\ no_ack_mode => /\ \A i, j \in DOMAIN toHost : Takes(i) /\ Takes(j) => i = j
                    /\ \A i \in DOMAIN toHost : Takes(i) => at = "read"
  /\ host_no_ack => /\ \A i \in DOMAIN toHost : AnswerAt(i) => host = "answer"
                    /\ host = "idle" \/ done # request => at = "read"
                    /\ \A i \in DOMAIN toStub : RequestAt(i) => at = "read" /\ done = answer
                    /\ \A i \in DOMAIN toStub, j \in DOMAIN toHost : ~(RequestAt(i) /\ AnswerAt(j))

\* A good one among the packets that the debugger will take.
Promised == \E j \in DOMAIN toHost : Takes(j) /\ toHost[j].good

\* A good copy of the request.
Requested == \E i \in DOMAIN toStub : RequestAt(i) /\ toStub[i].good

\* What is missing was lost or damaged.
LossesOK ==
  /\ host = "ack" /\ done = request => \/ \E i \in DOMAIN toHost : PlusAt(i)
                                       \/ request \in missing.ack
  /\ Heard /\ done = request /\ at \in {"await", "read"} =>
       Promised \/ request \in missing.answer
  /\ host = "answer" /\ done # request => Requested \/ request \in missing.request
  /\ \A i \in DOMAIN toHost : AnswerAt(i) => toHost[i].good \/ toHost[i].n \in missing.answer
  /\ again \subseteq missing.ack

\* The program runs, after a continue that is not answered yet.
Running == at \in {"program", "checkpoint", "enter"}
RunningOK ==
  Running =>
    \/ done = 0 /\ (host = "away" \/ "early" \in seen)
    \/ /\ host \in {"ack", "answer"} /\ done = request /\ kind = "continue"
       /\ \A j \in DOMAIN toHost : ~Takes(j)

\* As long as the stub has sent nothing twice, the '+' it reads is for its last packet.
Clean == "resent" \notin seen /\ "early" \notin seen
InOrder ==
  /\ \A i \in DOMAIN toStub : PlusUpAt(i) => at = "await" /\ host \in {"idle", "ack"}
  /\ \A i \in DOMAIN toHost : AnswerAt(i) => at = "await" /\ host # "idle"
  /\ \A i, j \in DOMAIN toStub : PlusUpAt(i) /\ PlusUpAt(j) => i = j
  /\ \A i, j \in DOMAIN toHost : AnswerAt(i) /\ AnswerAt(j) => i = j
  /\ \A i \in DOMAIN toStub, j \in DOMAIN toHost : PlusUpAt(i) => MinusAt(j)
  /\ at = "read" => host \in {"idle", "ack"} /\ \A i \in DOMAIN toHost : ~PlusAt(i)
  /\ \A i, j \in DOMAIN toHost : AnswerAt(i) /\ PlusAt(j) => j < i
  /\ \A i \in DOMAIN toStub, j \in DOMAIN toHost : RequestAt(i) /\ AnswerAt(j) => done = request
  /\ host = "idle" \/ done # request => at \in {"await", "read"}
Orderly == Clean /\ ~no_ack_mode => InOrder

\* What may follow a request on the line, and what a tick may find there.
StopsOK ==
  /\ \A i \in DOMAIN toStub : toStub[i].t = "break" => breaks # 0
  /\ \A i \in DOMAIN toStub :
       toStub[i].t = "rest" => i = 1 /\ handler_mutex /\ "resent" \in seen
  /\ \A i, j \in DOMAIN toStub :
       RequestAt(i) /\ i < j => toStub[j].t = "break" \/ (PlusUpAt(j) /\ ~host_no_ack)
  /\ Clean /\ Running => \A i \in DOMAIN toStub : toStub[i].t \in {"break", "$"}
  /\ was_interrupted \/ at = "checkpoint" => breaks # 0 \/ ~Clean \/ missing.ack # {}

SessionInv ==
  ScalarsOK /\ LinesOK /\ CountersOK /\ OneOutstanding /\ Fresh /\ NoAckOK /\ LossesOK
    /\ RunningOK /\ Orderly /\ StopsOK

-----------------------------------------------------------------------------
(***************************************************************************)
(* Tokens and lines.                                                       *)
(***************************************************************************)
\* Packets that are made.
LEMMA MadePackets ==
  /\ \A k \in Kinds, n \in 1 .. MaxRequests, good \in BOOLEAN : Packet(k, n, good) \in HostTokens
  /\ \A n \in 0 .. MaxRequests, good \in BOOLEAN : Packet("answer", n, good) \in StubTokens
  /\ \A k, n, good : /\ Packet(k, n, good).t = "$" /\ Packet(k, n, good).kind = k
                     /\ Packet(k, n, good).n = n /\ Packet(k, n, good).good = good
<1>1. \A k \in Kinds, n \in 1 .. MaxRequests, good \in BOOLEAN : Packet(k, n, good) \in HostTokens
  BY DEF HostTokens
<1>2. \A n \in 0 .. MaxRequests, good \in BOOLEAN : Packet("answer", n, good) \in StubTokens
  BY DEF StubTokens
<1>3. \A k, n, good : /\ Packet(k, n, good).t = "$" /\ Packet(k, n, good).kind = k
                     /\ Packet(k, n, good).n = n /\ Packet(k, n, good).good = good
  BY DEF Packet
<1>. QED  BY <1>1, <1>2, <1>3

\* Packets as they are sent.
LEMMA GoodPackets ==
  /\ \A k \in Kinds, n \in 1 .. MaxRequests : Packet(k, n, TRUE) \in HostTokens
  /\ \A n \in 0 .. MaxRequests : Packet("answer", n, TRUE) \in StubTokens
  /\ \A k, n : /\ Packet(k, n, TRUE).t = "$" /\ Packet(k, n, TRUE).kind = k
               /\ Packet(k, n, TRUE).n = n /\ Packet(k, n, TRUE).good = TRUE
<1>1. \A k \in Kinds, n \in 1 .. MaxRequests : Packet(k, n, TRUE) \in HostTokens
  BY MadePackets, Zenon
<1>2. \A n \in 0 .. MaxRequests : Packet("answer", n, TRUE) \in StubTokens
  BY MadePackets, Zenon
<1>3. \A k, n : /\ Packet(k, n, TRUE).t = "$" /\ Packet(k, n, TRUE).kind = k
                /\ Packet(k, n, TRUE).n = n /\ Packet(k, n, TRUE).good = TRUE
  BY DEF Packet
<1>. QED  BY <1>1, <1>2, <1>3, Zenon

\* The tokens to the stub: their types tell them apart.
LEMMA HostTokenShapes ==
  /\ Plus \in HostTokens /\ Minus \in HostTokens /\ Break \in HostTokens
  /\ Plus.t = "+" /\ Minus.t = "-" /\ Break.t = "break"
  /\ \A left : Rest(left).t = "rest" /\ (left \in 1 .. MaxRest => Rest(left) \in HostTokens)
  /\ \A x \in HostTokens :
       /\ x.t \in {"+", "-", "break", "rest", "$"}
       /\ x = Break <=> x.t = "break"
       /\ x.t = "rest" => x.left \in 1 .. MaxRest
       /\ x.t = "$" => /\ x.kind \in Kinds /\ x.n \in 1 .. MaxRequests /\ x.good \in BOOLEAN
                       /\ Damaged(x) \in HostTokens /\ Damaged(x).t = "$"
                       /\ Damaged(x).kind = x.kind /\ Damaged(x).n = x.n
<1>1. Plus.t = "+" /\ Minus.t = "-" /\ Break.t = "break"
  BY DEF Plus, Minus, Break
<1>2. \A left : Rest(left).t = "rest" /\ Rest(left).left = left
  BY DEF Rest
<1>3. \A left \in 1 .. MaxRest : Rest(left) \in HostTokens
  BY DEF HostTokens
<1>4. ASSUME NEW x \in HostTokens
      PROVE  /\ x.t \in {"+", "-", "break", "rest", "$"}
             /\ x = Break <=> x.t = "break"
             /\ x.t = "rest" => x.left \in 1 .. MaxRest
             /\ x.t = "$" => /\ x.kind \in Kinds /\ x.n \in 1 .. MaxRequests
                             /\ x.good \in BOOLEAN
                             /\ Damaged(x) \in HostTokens /\ Damaged(x).t = "$"
                             /\ Damaged(x).kind = x.kind /\ Damaged(x).n = x.n
  <2>1. CASE x \in {Plus, Minus, Break}
    BY <1>1, <2>1
  <2>2. CASE \E left \in 1 .. MaxRest : x = Rest(left)
    BY <1>1, <1>2, <2>2
  <2>3. CASE x \notin {Plus, Minus, Break} /\ ~\E left \in 1 .. MaxRest : x = Rest(left)
    <3>1. PICK k \in Kinds, n \in 1 .. MaxRequests, good \in BOOLEAN : x = Packet(k, n, good)
      BY <2>3 DEF HostTokens
    <3>2. x.t = "$" /\ x.kind = k /\ x.n = n /\ x.good = good
      BY <3>1 DEF Packet
    <3>3. Damaged(x) = Packet(k, n, FALSE)
      BY <3>2 DEF Damaged
    <3>4. Damaged(x).t = "$" /\ Damaged(x).kind = k /\ Damaged(x).n = n
      BY <3>3 DEF Packet
    <3>5. Damaged(x) \in HostTokens
      BY <3>3, MadePackets
    <3>. QED  BY <1>1, <3>2, <3>4, <3>5
  <2>. QED  BY <2>1, <2>2, <2>3
<1>. QED  BY <1>1, <1>2, <1>3, <1>4 DEF HostTokens

\* The tokens to the debugger.
LEMMA StubTokenShapes ==
  /\ Minus \in StubTokens /\ Minus.t = "-"
  /\ \A n : PlusFor(n).t = "+" /\ PlusFor(n).n = n
  /\ \A n \in 1 .. MaxRequests : PlusFor(n) \in StubTokens
  /\ \A x \in StubTokens :
       /\ x.t \in {"+", "-", "$"}
       /\ x.t = "+" => x.n \in 1 .. MaxRequests
       /\ x.t = "$" => /\ x.n \in 0 .. MaxRequests /\ x.good \in BOOLEAN
                       /\ Damaged(x) \in StubTokens /\ Damaged(x).t = "$"
                       /\ Damaged(x).n = x.n /\ ~Damaged(x).good
<1>1. Minus.t = "-"
  BY DEF Minus
<1>2. \A n : PlusFor(n).t = "+" /\ PlusFor(n).n = n
  BY DEF PlusFor
<1>3. \A n \in 1 .. MaxRequests : PlusFor(n) \in StubTokens
  BY DEF StubTokens
<1>4. ASSUME NEW x \in StubTokens
      PROVE  /\ x.t \in {"+", "-", "$"}
             /\ x.t = "+" => x.n \in 1 .. MaxRequests
             /\ x.t = "$" => /\ x.n \in 0 .. MaxRequests /\ x.good \in BOOLEAN
                             /\ Damaged(x) \in StubTokens /\ Damaged(x).t = "$"
                             /\ Damaged(x).n = x.n /\ ~Damaged(x).good
  <2>1. CASE x = Minus
    BY <1>1, <2>1
  <2>2. CASE \E n \in 1 .. MaxRequests : x = PlusFor(n)
    BY <1>2, <2>2
  <2>3. CASE x # Minus /\ ~\E n \in 1 .. MaxRequests : x = PlusFor(n)
    <3>1. PICK n \in 0 .. MaxRequests, good \in BOOLEAN : x = Packet("answer", n, good)
      BY <2>3 DEF StubTokens
    <3>2. x.t = "$" /\ x.kind = "answer" /\ x.n = n /\ x.good = good
      BY <3>1 DEF Packet
    <3>3. Damaged(x) = Packet("answer", n, FALSE)
      BY <3>2 DEF Damaged
    <3>4. Damaged(x).t = "$" /\ Damaged(x).n = n /\ ~Damaged(x).good
      BY <3>3 DEF Packet
    <3>5. Damaged(x) \in StubTokens
      BY <3>3, MadePackets
    <3>. QED  BY <3>2, <3>4, <3>5
  <2>. QED  BY <2>1, <2>2, <2>3
<1>. QED  BY <1>1, <1>2, <1>3, <1>4 DEF StubTokens

\* A line is empty, or has places 1 to its length.
LEMMA Places ==
  ASSUME NEW S, NEW s \in Seq(S)
  PROVE  /\ Len(s) \in Nat /\ DOMAIN s = 1 .. Len(s)
         /\ \A i \in 1 .. Len(s) : s[i] \in S
         /\ s = <<>> <=> Len(s) = 0
<1>1. Len(s) \in Nat /\ DOMAIN s = 1 .. Len(s) /\ \A i \in 1 .. Len(s) : s[i] \in S
  BY LenProperties, ElementOfSeq
<1>2. s = <<>> <=> Len(s) = 0
  BY EmptySeq
<1>. QED  BY <1>1, <1>2

\* A token put on a line.
LEMMA PutOn ==
  ASSUME NEW S, NEW s \in Seq(S), NEW x \in S
  PROVE  /\ s \o <<x>> \in Seq(S) /\ s \o <<>> = s
         /\ Len(s \o <<x>>) = Len(s) + 1
         /\ \A i \in 1 .. Len(s) : (s \o <<x>>)[i] = s[i]
         /\ (s \o <<x>>)[Len(s) + 1] = x
<1>1. <<x>> \in Seq(S) /\ Len(<<x>>) = 1 /\ <<x>>[1] = x
  OBVIOUS
<1>2. Len(s) \in Nat
  BY LenProperties
<1>3. s \o <<>> = s
  BY ConcatEmptySeq
<1>. QED  BY <1>1, <1>2, <1>3, ConcatProperties

\* The first token taken off a line.
LEMMA TakeOff ==
  ASSUME NEW S, NEW s \in Seq(S), s # <<>>
  PROVE  /\ Tail(s) \in Seq(S) /\ Len(Tail(s)) = Len(s) - 1 /\ Len(s) \in Nat /\ Len(s) >= 1
         /\ Head(s) = s[1] /\ s[1] \in S
         /\ \A i \in 1 .. Len(s) - 1 : Tail(s)[i] = s[i + 1]
BY HeadTailProperties, LenProperties, EmptySeq, ElementOfSeq

\* The place that the i-th token had on the line before the k-th was lost.
From(i, k) == IF i < k THEN i ELSE i + 1

\* Places are counted from it in order, and only the k-th is skipped.
LEMMA FromProperties ==
  ASSUME NEW n \in Nat, NEW k \in 1 .. n
  PROVE  /\ \A i \in 1 .. n - 1 : From(i, k) \in 1 .. n /\ (From(i, k) = n => i = n - 1)
         /\ \A i, j \in 1 .. n - 1 : (From(i, k) < From(j, k) <=> i < j) /\ (From(i, k) = From(j, k) => i = j)
         /\ \A m \in 1 .. n : m # k => \E i \in 1 .. n - 1 : From(i, k) = m
<1>1. \A i \in 1 .. n - 1 : From(i, k) \in 1 .. n /\ (From(i, k) = n => i = n - 1)
  BY DEF From
<1>2. \A i, j \in 1 .. n - 1 : From(i, k) < From(j, k) <=> i < j
  BY DEF From
<1>3. \A i, j \in 1 .. n - 1 : From(i, k) = From(j, k) => i = j
  BY DEF From
<1>4. ASSUME NEW m \in 1 .. n, m # k
      PROVE  \E i \in 1 .. n - 1 : From(i, k) = m
  <2>1. CASE m < k
    BY <2>1 DEF From
  <2>2. CASE m > k
    <3>1. m - 1 \in 1 .. n - 1 /\ From(m - 1, k) = m
      BY <2>2 DEF From
    <3>. QED  BY <3>1
  <2>. QED  BY <1>4, <2>1, <2>2
<1>. QED  BY <1>1, <1>2, <1>3, <1>4

\* A token lost.
LEMMA TakeOut ==
  ASSUME NEW S, NEW s \in Seq(S), NEW k \in 1 .. Len(s)
  PROVE  /\ RemoveAt(s, k) \in Seq(S) /\ Len(RemoveAt(s, k)) = Len(s) - 1 /\ Len(s) \in Nat
         /\ \A i \in 1 .. Len(s) - 1 : RemoveAt(s, k)[i] = s[From(i, k)]
<1>1. Len(s) \in Nat /\ \A i \in 1 .. Len(s) : s[i] \in S
  BY LenProperties, ElementOfSeq
<1>2. /\ SubSeq(s, 1, k - 1) \in Seq(S)
      /\ Len(SubSeq(s, 1, k - 1)) = k - 1
      /\ \A i \in 1 .. k - 1 : SubSeq(s, 1, k - 1)[i] = s[i]
  BY <1>1, SubSeqProperties
<1>3. /\ SubSeq(s, k + 1, Len(s)) \in Seq(S)
      /\ Len(SubSeq(s, k + 1, Len(s))) = Len(s) - k
      /\ \A i \in 1 .. Len(s) - k : SubSeq(s, k + 1, Len(s))[i] = s[k + i]
  BY <1>1, SubSeqProperties
<1>. DEFINE a == SubSeq(s, 1, k - 1)
            b == SubSeq(s, k + 1, Len(s))
<1>4. /\ a \o b \in Seq(S) /\ Len(a \o b) = Len(a) + Len(b)
      /\ \A i \in 1 .. Len(a) + Len(b) : (a \o b)[i] = IF i <= Len(a) THEN a[i] ELSE b[i - Len(a)]
  BY <1>2, <1>3, ConcatProperties
<1>5. RemoveAt(s, k) = a \o b
  BY DEF RemoveAt
<1>6. Len(a) = k - 1 /\ Len(b) = Len(s) - k
  BY <1>2, <1>3
<1>. HIDE DEF a, b
<1>7. ASSUME NEW i \in 1 .. Len(s) - 1
      PROVE  (a \o b)[i] = IF i < k THEN s[i] ELSE s[i + 1]
  <2>1. (a \o b)[i] = IF i <= k - 1 THEN a[i] ELSE b[i - (k - 1)]
    BY <1>4, <1>6
  <2>2. CASE i < k
    BY <1>1, <1>2, <2>1, <2>2 DEF a
  <2>3. CASE i >= k
    <3>1. i - (k - 1) \in 1 .. Len(s) - k /\ k + (i - (k - 1)) = i + 1 /\ ~(i <= k - 1)
      BY <1>1, <2>3
    <3>2. b[i - (k - 1)] = s[k + (i - (k - 1))]
      BY <1>3, <3>1 DEF b
    <3>. QED  BY <2>1, <2>3, <3>1, <3>2
  <2>4. i < k \/ (i >= k /\ ~(i < k))
    BY <1>1
  <2>. QED  BY <2>2, <2>3, <2>4
<1>8. Len(a) + Len(b) = Len(s) - 1
  BY <1>1, <1>6
<1>. QED  BY <1>1, <1>4, <1>5, <1>7, <1>8 DEF From

-----------------------------------------------------------------------------
(***************************************************************************)
(* What the operations do to the lines.                                    *)
(***************************************************************************)
\* The two lines.
LEMMA LineFacts ==
  ASSUME LinesOK
  PROVE  /\ Len(toStub) \in Nat /\ DOMAIN toStub = 1 .. Len(toStub)
         /\ \A i \in 1 .. Len(toStub) : toStub[i] \in HostTokens
         /\ Len(toHost) \in Nat /\ DOMAIN toHost = 1 .. Len(toHost)
         /\ \A i \in 1 .. Len(toHost) : toHost[i] \in StubTokens
         /\ \A i \in 1 .. Len(toHost) : toHost[i].t \in {"$", "+", "-"}
BY Places, StubTokenShapes DEF LinesOK

\* The set of tokens of a line.
LEMMA TokensOf ==
  ASSUME NEW S, NEW s \in Seq(S)
  PROVE  ToSet(s) \subseteq S
BY Places DEF ToSet

\* The debugger takes a token.
LEMMA HostTakes ==
  ASSUME LinesOK, toHost # <<>>, toHost' = Tail(toHost)
  PROVE  /\ toHost' \in Seq(StubTokens)
         /\ Head(toHost) = toHost[1] /\ toHost[1] \in StubTokens /\ Len(toHost) >= 1
         /\ Len(toHost') = Len(toHost) - 1 /\ DOMAIN toHost' = 1 .. Len(toHost) - 1
         /\ \A i \in 1 .. Len(toHost) - 1 : toHost'[i] = toHost[i + 1]
BY TakeOff, Places DEF LinesOK

\* The stub takes a token.
LEMMA StubTakes ==
  ASSUME LinesOK, toStub # <<>>, toStub' = Tail(toStub)
  PROVE  /\ toStub' \in Seq(HostTokens)
         /\ Head(toStub) = toStub[1] /\ toStub[1] \in HostTokens /\ Len(toStub) >= 1
         /\ Len(toStub') = Len(toStub) - 1 /\ DOMAIN toStub' = 1 .. Len(toStub) - 1
         /\ \A i \in 1 .. Len(toStub) - 1 : toStub'[i] = toStub[i + 1]
BY TakeOff, Places DEF LinesOK

\* The debugger sends a token.
LEMMA HostSends ==
  ASSUME LinesOK, NEW x \in HostTokens, toStub' = toStub \o <<x>>
  PROVE  /\ toStub' \in Seq(HostTokens)
         /\ Len(toStub') = Len(toStub) + 1 /\ DOMAIN toStub' = 1 .. Len(toStub) + 1
         /\ \A i \in 1 .. Len(toStub) : toStub'[i] = toStub[i]
         /\ toStub'[Len(toStub) + 1] = x
BY PutOn, Places DEF LinesOK

\* The stub sends a token.
LEMMA StubSends ==
  ASSUME LinesOK, NEW x \in StubTokens, toHost' = toHost \o <<x>>
  PROVE  /\ toHost' \in Seq(StubTokens)
         /\ Len(toHost') = Len(toHost) + 1 /\ DOMAIN toHost' = 1 .. Len(toHost) + 1
         /\ \A i \in 1 .. Len(toHost) : toHost'[i] = toHost[i]
         /\ toHost'[Len(toHost) + 1] = x
BY PutOn, Places DEF LinesOK

\* Nothing is sent.
LEMMA NothingSent ==
  ASSUME LinesOK
  PROVE  toStub \o <<>> = toStub /\ toHost \o <<>> = toHost
BY ConcatEmptySeq DEF LinesOK

\* What the debugger does with a token while it waits for a '+'.
LEMMA WhileAckFacts ==
  ASSUME LinesOK, WhileAck
  PROVE  /\ host = "ack" /\ toHost # <<>> /\ toHost' = Tail(toHost)
         /\ UNCHANGED <<host_no_ack, kind, request, answer, breaks, history, stubvars>>
         /\ \/ toHost[1].t = "+" /\ host' = "answer" /\ toStub' = toStub
            \/ toHost[1].t = "-" /\ host' = "ack"
                 /\ toStub' = toStub \o <<Packet(kind, request, TRUE)>>
            \/ toHost[1].t = "$" /\ host' = "ack" /\ toStub' = toStub \o <<Plus>>
<1>1. PICK token \in ToSet(toHost) :
        /\ Take(token)
        /\ CASE token.t = "+" -> host' = "answer" /\ UNCHANGED toStub
             [] token.t = "-" -> host' = "ack" /\ Resend
             [] OTHER         -> host' = "ack" /\ ToStub(<<Plus>>)
  BY DEF WhileAck
<1>2. host = "ack" /\ UNCHANGED <<host_no_ack, answer>>
  BY DEF WhileAck
<1>3. /\ toHost # <<>> /\ token = Head(toHost) /\ toHost' = Tail(toHost)
      /\ UNCHANGED <<breaks, request, kind, history, stubvars>>
  BY <1>1 DEF Take
<1>4. token = toHost[1] /\ token \in StubTokens
  BY <1>3, HostTakes
<1>5. token.t \in {"+", "-", "$"}
  BY <1>4, StubTokenShapes
<1>6. CASE token.t = "+"
  BY <1>1, <1>2, <1>3, <1>4, <1>6
<1>7. CASE token.t = "-"
  BY <1>1, <1>2, <1>3, <1>4, <1>7 DEF Resend, ToStub
<1>8. CASE token.t = "$"
  BY <1>1, <1>2, <1>3, <1>4, <1>8 DEF ToStub
<1>. QED  BY <1>5, <1>6, <1>7, <1>8

\* And while it waits for its answer; bytes that are no packet it passes over.
LEMMA WhileAnswerFacts ==
  ASSUME LinesOK, WhileAnswer
  PROVE  /\ host = "answer" /\ toHost # <<>> /\ toHost' = Tail(toHost)
         /\ UNCHANGED <<kind, request, breaks, history, stubvars>>
         /\ \/ toHost[1].t # "$" /\ UNCHANGED <<host, host_no_ack, answer, toStub>>
            \/ /\ toHost[1].t = "$" /\ ~toHost[1].good
               /\ toStub' = IF host_no_ack THEN toStub ELSE toStub \o <<Minus>>
               /\ UNCHANGED <<host, host_no_ack, answer>>
            \/ /\ toHost[1].t = "$" /\ toHost[1].good
               /\ host' = "idle" /\ answer' = toHost[1].n
               /\ host_no_ack' = (host_no_ack \/ kind = "noack")
               /\ toStub' = IF host_no_ack THEN toStub ELSE toStub \o <<Plus>>
<1>1. PICK token \in ToSet(toHost) :
        /\ Take(token)
        /\ CASE token.t # "$" ->
                  UNCHANGED <<host, host_no_ack, answer, toStub>>
             [] token.t = "$" /\ ~token.good ->
                  /\ ToStub(IF host_no_ack THEN <<>> ELSE <<Minus>>)
                  /\ UNCHANGED <<host, host_no_ack, answer>>
             [] OTHER ->
                  /\ host' = "idle"
                  /\ answer' = token.n
                  /\ host_no_ack' = (host_no_ack \/ kind = "noack")
                  /\ ToStub(IF host_no_ack THEN <<>> ELSE <<Plus>>)
  BY DEF WhileAnswer
<1>2. host = "answer"
  BY DEF WhileAnswer
<1>3. /\ toHost # <<>> /\ token = Head(toHost) /\ toHost' = Tail(toHost)
      /\ UNCHANGED <<breaks, request, kind, history, stubvars>>
  BY <1>1 DEF Take
<1>4. token = toHost[1]
  BY <1>3, HostTakes
<1>5. CASE token.t # "$"
  BY <1>1, <1>2, <1>3, <1>4, <1>5
<1>6. CASE token.t = "$" /\ ~token.good
  BY <1>1, <1>2, <1>3, <1>4, <1>6, NothingSent DEF ToStub
<1>7. CASE token.t = "$" /\ token.good
  BY <1>1, <1>2, <1>3, <1>4, <1>7, NothingSent DEF ToStub
<1>. QED  BY <1>5, <1>6, <1>7

\* A byte of the line comes after a packet: the stub has taken the first token and, of a
\* packet or the rest of one, only its first byte.
LEMMA AwaitAckFacts ==
  ASSUME LinesOK, AwaitAck
  PROVE  /\ at = "await" /\ toStub # <<>>
         /\ UNCHANGED <<hostvars, toHost, faults, missing, again, flags, done>>
         /\ \/ /\ toStub[1].t = "+" /\ toStub' = Tail(toStub) /\ at' = "read" /\ seen' = seen
            \/ /\ toStub[1].t # "+" /\ toStub[1].t # "$" /\ toStub' = Tail(toStub)
               /\ at' = "write" /\ seen' = seen \cup {"resent"}
            \/ /\ toStub[1].t = "$" \/ toStub[1].t = "rest"
               /\ \E left \in 1 .. MaxRest : toStub' = <<Rest(left)>> \o Tail(toStub)
               /\ \/ at' = "write" /\ seen' = seen \cup {"resent"}
                  \/ at' = "read" /\ seen' = seen /\ toStub[1].t = "rest"
<1>1. PICK token \in ToSet(toStub) :
        /\ GetFirstByte(token)
        /\ \E plus \in IsPlus(token) :
             at' = (IF plus THEN "read" ELSE "write") /\ Note(~plus, "resent")
  BY DEF AwaitAck
<1>2. UNCHANGED <<hostvars, toHost, faults, missing, again, flags, done>>
  BY DEF AwaitAck
<1>3. PICK left \in Leaves(token) : toStub' = left \o Tail(toStub)
  BY <1>1 DEF GetFirstByte
<1>4. /\ at = "await" /\ toStub # <<>> /\ token = Head(toStub)
      /\ token = toStub[1] /\ token \in HostTokens /\ Tail(toStub) \in Seq(HostTokens)
  BY <1>1, TakeOff DEF GetFirstByte, LinesOK
<1>5. <<>> \o Tail(toStub) = Tail(toStub)
  BY <1>4, ConcatEmptySeq
<1>6. token.t \in {"+", "-", "break", "rest", "$"} /\ (token.t = "rest" => token.left \in 1 .. MaxRest)
  BY <1>4, HostTokenShapes
<1>7. PICK plus \in IsPlus(token) :
        at' = (IF plus THEN "read" ELSE "write") /\ Note(~plus, "resent")
  BY <1>1
<1>8. CASE token.t = "+"
  <2>1. left = <<>> /\ plus = TRUE
    BY <1>3, <1>7, <1>8 DEF Leaves, IsPlus
  <2>. QED  BY <1>2, <1>3, <1>4, <1>5, <1>7, <1>8, <2>1 DEF Note
<1>9. CASE token.t = "$"
  <2>1. \E l \in 1 .. MaxRest : left = <<Rest(l)>>
    BY <1>3, <1>9 DEF Leaves
  <2>2. plus = FALSE
    BY <1>7, <1>9 DEF IsPlus
  <2>. QED  BY <1>2, <1>3, <1>4, <1>7, <1>9, <2>1, <2>2 DEF Note
<1>10. CASE token.t = "rest" /\ token.left > 1
  <2>1. left = <<Rest(token.left - 1)>> /\ token.left - 1 \in 1 .. MaxRest
    BY <1>3, <1>6, <1>10, SessionAssumption DEF Leaves
  <2>2. plus \in BOOLEAN
    BY <1>7, <1>10 DEF IsPlus
  <2>3. toStub' = <<Rest(token.left - 1)>> \o Tail(toStub)
    BY <1>3, <2>1
  <2>4. CASE plus = TRUE
    BY <1>2, <1>4, <1>7, <1>10, <2>1, <2>3, <2>4 DEF Note
  <2>5. CASE plus = FALSE
    BY <1>2, <1>4, <1>7, <1>10, <2>1, <2>3, <2>5 DEF Note
  <2>. QED  BY <2>2, <2>4, <2>5
<1>11. CASE token.t \in {"-", "break"} \/ (token.t = "rest" /\ ~(token.left > 1))
  <2>1. left = <<>>
    BY <1>3, <1>11 DEF Leaves
  <2>2. plus = FALSE
    BY <1>7, <1>11 DEF IsPlus
  <2>. QED  BY <1>2, <1>3, <1>4, <1>5, <1>7, <1>11, <2>1, <2>2 DEF Note
<1>. QED  BY <1>6, <1>8, <1>9, <1>10, <1>11

\* The rest of a packet takes the packet's place.
LEMMA RestStays ==
  ASSUME LinesOK, toStub # <<>>, NEW left \in 1 .. MaxRest,
         toStub' = <<Rest(left)>> \o Tail(toStub)
  PROVE  /\ toStub' \in Seq(HostTokens)
         /\ Len(toStub') = Len(toStub) /\ DOMAIN toStub' = 1 .. Len(toStub) /\ Len(toStub) >= 1
         /\ toStub'[1].t = "rest"
         /\ \A i \in 2 .. Len(toStub) : toStub'[i] = toStub[i]
<1>. DEFINE rest == Rest(left)
<1>1. rest \in HostTokens /\ rest.t = "rest" /\ toStub' = <<rest>> \o Tail(toStub)
  BY HostTokenShapes
<1>. HIDE DEF rest
<1>2. /\ Tail(toStub) \in Seq(HostTokens) /\ Len(Tail(toStub)) = Len(toStub) - 1
      /\ Len(toStub) \in Nat /\ Len(toStub) >= 1
      /\ \A i \in 1 .. Len(toStub) - 1 : Tail(toStub)[i] = toStub[i + 1]
  BY TakeOff DEF LinesOK
<1>3. <<rest>> \in Seq(HostTokens) /\ Len(<<rest>>) = 1 /\ <<rest>>[1] = rest
  BY <1>1
<1>4. /\ toStub' \in Seq(HostTokens) /\ Len(toStub') = 1 + (Len(toStub) - 1)
      /\ \A i \in 1 .. 1 + (Len(toStub) - 1) :
           toStub'[i] = IF i <= 1 THEN <<rest>>[i] ELSE Tail(toStub)[i - 1]
  BY <1>1, <1>2, <1>3, ConcatProperties
<1>5. Len(toStub') = Len(toStub) /\ DOMAIN toStub' = 1 .. Len(toStub)
  BY <1>2, <1>4, Places
<1>6. toStub'[1].t = "rest"
  BY <1>1, <1>2, <1>3, <1>4
<1>7. ASSUME NEW i \in 2 .. Len(toStub)
      PROVE  toStub'[i] = toStub[i]
  <2>1. i \in 1 .. 1 + (Len(toStub) - 1) /\ ~(i <= 1) /\ i - 1 \in 1 .. Len(toStub) - 1
    BY <1>2
  <2>2. Tail(toStub)[i - 1] = toStub[(i - 1) + 1] /\ (i - 1) + 1 = i
    BY <1>2, <2>1
  <2>. QED  BY <1>4, <2>1, <2>2
<1>. QED  BY <1>2, <1>4, <1>5, <1>6, <1>7

\* A stub that reads takes the first token of the line.
LEMMA GetcFacts ==
  ASSUME LinesOK, NEW token, Getc("read", token)
  PROVE  at = "read" /\ toStub # <<>> /\ toStub' = Tail(toStub) /\ token = toStub[1]
BY TakeOff DEF Getc, LinesOK

\* It passes over what is no packet.
LEMMA SkipFacts ==
  ASSUME LinesOK, SkipByte
  PROVE  /\ at = "read" /\ toStub # <<>> /\ toStub' = Tail(toStub)
         /\ toStub[1].t # "$"
         /\ UNCHANGED <<hostvars, toHost, history, stubvars>>
<1>1. PICK token \in ToSet(toStub) : Getc("read", token) /\ token.t # "$"
  BY DEF SkipByte
<1>2. UNCHANGED <<hostvars, toHost, history, stubvars>>
  BY DEF SkipByte
<1>. QED  BY <1>1, <1>2, GetcFacts

\* It rejects a damaged packet.
LEMMA RejectFacts ==
  ASSUME LinesOK, RejectPacket
  PROVE  /\ at = "read" /\ toStub # <<>> /\ toStub' = Tail(toStub)
         /\ toStub[1].t = "$" /\ ~toStub[1].good
         /\ toHost' = IF no_ack_mode THEN toHost ELSE toHost \o <<Minus>>
         /\ UNCHANGED <<hostvars, history, stubvars>>
<1>1. PICK token \in ToSet(toStub) : Getc("read", token) /\ token.t = "$" /\ ~token.good
  BY DEF RejectPacket
<1>2. UNCHANGED <<hostvars, history, stubvars>>
  BY DEF RejectPacket
<1>3. toHost' = IF no_ack_mode THEN toHost ELSE toHost \o <<Minus>>
  BY NothingSent DEF RejectPacket, Acknowledge, ToHost
<1>. QED  BY <1>1, <1>2, <1>3, GetcFacts

\* It carries out a good one.
LEMMA AcceptFacts ==
  ASSUME LinesOK, AcceptPacket
  PROVE  /\ at = "read" /\ toStub # <<>> /\ toStub' = Tail(toStub)
         /\ toStub[1].t = "$" /\ toStub[1].good
         /\ toHost' = IF no_ack_mode THEN toHost ELSE toHost \o <<PlusFor(toStub[1].n)>>
         /\ done' = toStub[1].n
         /\ again' = again \cup (IF done = toStub[1].n THEN {done} ELSE {})
         /\ no_ack_mode' = (no_ack_mode \/ toStub[1].kind = "noack")
         /\ at' = IF toStub[1].kind = "continue" THEN "program" ELSE "write"
         /\ handler_mutex' = (toStub[1].kind # "continue")
         /\ UNCHANGED <<hostvars, faults, missing, seen, was_interrupted>>
<1>1. PICK token \in ToSet(toStub) : Getc("read", token) /\ CarryOut(token)
  BY DEF AcceptPacket
<1>2. at = "read" /\ toStub # <<>> /\ toStub' = Tail(toStub) /\ token = toStub[1]
  BY <1>1, GetcFacts
<1>3. done' = toStub[1].n
  BY <1>1, <1>2 DEF CarryOut
<1>4. toHost' = IF no_ack_mode THEN toHost ELSE toHost \o <<PlusFor(toStub[1].n)>>
  BY <1>3, NothingSent DEF AcceptPacket, Acknowledge, ToHost
<1>. QED  BY <1>1, <1>2, <1>3, <1>4 DEF CarryOut

\* What is gone stays gone.
LEMMA MissingFacts ==
  ASSUME ScalarsOK, NEW what \in {"request", "ack", "answer"}, NEW n \in 0 .. request,
         Missing(what, n)
  PROVE  /\ missing' \in [{"request", "ack", "answer"} -> SUBSET (0 .. request)]
         /\ missing.request \subseteq missing'.request /\ missing.ack \subseteq missing'.ack
         /\ missing.answer \subseteq missing'.answer
         /\ n \in missing'[what]
<1>1. missing \in [{"request", "ack", "answer"} -> SUBSET (0 .. request)]
  BY DEF ScalarsOK
<1>2. missing' = [missing EXCEPT ![what] = missing[what] \cup {n}]
  BY DEF Missing
<1>3. \A w \in {"request", "ack", "answer"} :
        missing'[w] = IF w = what THEN missing[what] \cup {n} ELSE missing[w]
  BY <1>1, <1>2
<1>4. missing' \in [{"request", "ack", "answer"} -> SUBSET (0 .. request)]
  BY <1>1, <1>2
<1>. QED  BY <1>3, <1>4

\* A token to the stub is lost.
LEMMA LoseToStubFacts ==
  ASSUME LinesOK, LoseToStub
  PROVE  \E k \in 1 .. Len(toStub) :
           /\ toStub' \in Seq(HostTokens)
           /\ Len(toStub') = Len(toStub) - 1 /\ DOMAIN toStub' = 1 .. Len(toStub) - 1
           /\ \A i \in 1 .. Len(toStub) - 1 :
                toStub'[i] = toStub[From(i, k)]
           /\ Hit
           /\ IF toStub[k].t = "$" THEN Missing("request", toStub[k].n) ELSE UNCHANGED missing
           /\ Note(toStub[k].t # "$", "lost byte")
           /\ UNCHANGED toHost
<1>1. PICK k \in DOMAIN toStub :
        /\ Hit
        /\ toStub' = RemoveAt(toStub, k)
        /\ IF toStub[k].t = "$" THEN Missing("request", toStub[k].n) ELSE UNCHANGED missing
        /\ Note(toStub[k].t # "$", "lost byte")
        /\ UNCHANGED toHost
  BY DEF LoseToStub
<1>2. k \in 1 .. Len(toStub)
  BY LineFacts
<1>3. /\ toStub' \in Seq(HostTokens) /\ Len(toStub') = Len(toStub) - 1
      /\ \A i \in 1 .. Len(toStub) - 1 :
            toStub'[i] = toStub[From(i, k)]
  BY <1>1, <1>2, TakeOut DEF LinesOK
<1>4. DOMAIN toStub' = 1 .. Len(toStub) - 1
  BY <1>3, Places
<1>. QED  BY <1>1, <1>2, <1>3, <1>4

\* A token to the debugger is lost, and the loss noted.
LEMMA LoseToHostFacts ==
  ASSUME LinesOK, LoseToHost
  PROVE  \E k \in 1 .. Len(toHost) :
           /\ toHost' \in Seq(StubTokens)
           /\ Len(toHost') = Len(toHost) - 1 /\ DOMAIN toHost' = 1 .. Len(toHost) - 1
           /\ \A i \in 1 .. Len(toHost) - 1 :
                toHost'[i] = toHost[From(i, k)]
           /\ Hit
           /\ toHost[k].t = "$" => Missing("answer", toHost[k].n)
           /\ toHost[k].t = "+" => Missing("ack", toHost[k].n)
           /\ toHost[k].t = "-" => UNCHANGED missing
           /\ UNCHANGED <<toStub, seen>>
<1>1. PICK k \in DOMAIN toHost :
        /\ Hit
        /\ toHost' = RemoveAt(toHost, k)
        /\ CASE toHost[k].t = "$" -> Missing("answer", toHost[k].n)
             [] toHost[k].t = "+" -> Missing("ack", toHost[k].n)
             [] OTHER             -> UNCHANGED missing
        /\ UNCHANGED <<toStub, seen>>
  BY DEF LoseToHost
<1>2. k \in 1 .. Len(toHost)
  BY LineFacts
<1>3. /\ toHost' \in Seq(StubTokens) /\ Len(toHost') = Len(toHost) - 1
      /\ \A i \in 1 .. Len(toHost) - 1 :
            toHost'[i] = toHost[From(i, k)]
  BY <1>1, <1>2, TakeOut DEF LinesOK
<1>4. DOMAIN toHost' = 1 .. Len(toHost) - 1
  BY <1>3, Places
<1>5. /\ toHost[k].t = "$" => Missing("answer", toHost[k].n)
      /\ toHost[k].t = "+" => Missing("ack", toHost[k].n)
      /\ toHost[k].t = "-" => UNCHANGED missing
  BY <1>1
<1>. QED  BY <1>1, <1>2, <1>3, <1>4, <1>5

\* A packet is damaged and keeps what it is about.
LEMMA DamageRequestFacts ==
  ASSUME LinesOK, DamageRequest
  PROVE  \E k \in 1 .. Len(toStub) :
         /\ toStub' \in Seq(HostTokens)
         /\ Len(toStub') = Len(toStub) /\ DOMAIN toStub' = 1 .. Len(toStub)
         /\ \A i \in 1 .. Len(toStub) :
              /\ toStub'[i].t = toStub[i].t
              /\ toStub[i].t = "$" => /\ toStub'[i].n = toStub[i].n
                                      /\ toStub'[i].kind = toStub[i].kind
              /\ i # k => toStub'[i] = toStub[i]
         /\ Hit
         /\ toStub[k].t = "$" /\ Missing("request", toStub[k].n)
         /\ UNCHANGED <<toHost, seen>>
<1>1. PICK k \in DOMAIN toStub :
        /\ toStub[k].t = "$"
        /\ Hit
        /\ toStub' = [toStub EXCEPT ![k] = Damaged(toStub[k])]
        /\ Missing("request", toStub[k].n)
        /\ UNCHANGED <<toHost, seen>>
  BY DEF DamageRequest
<1>2. k \in 1 .. Len(toStub) /\ toStub[k] \in HostTokens
  BY LineFacts
<1>3. /\ Damaged(toStub[k]) \in HostTokens /\ Damaged(toStub[k]).t = "$"
      /\ Damaged(toStub[k]).kind = toStub[k].kind /\ Damaged(toStub[k]).n = toStub[k].n
  BY <1>1, <1>2, HostTokenShapes
<1>4. /\ toStub' \in Seq(HostTokens) /\ Len(toStub') = Len(toStub)
      /\ \A i \in 1 .. Len(toStub) :
            toStub'[i] = IF i = k THEN Damaged(toStub[k]) ELSE toStub[i]
  <2>. DEFINE damaged == Damaged(toStub[k])
  <2>1. damaged \in HostTokens /\ toStub \in Seq(HostTokens) /\ toStub' = [toStub EXCEPT ![k] = damaged]
    BY <1>1, <1>3 DEF LinesOK
  <2>. HIDE DEF damaged
  <2>2. /\ toStub' \in Seq(HostTokens) /\ Len(toStub') = Len(toStub)
        /\ \A i \in 1 .. Len(toStub) : toStub'[i] = IF i = k THEN damaged ELSE toStub[i]
    BY <1>2, <2>1, ExceptSeq
  <2>. QED  BY <2>2 DEF damaged
<1>5. DOMAIN toStub' = 1 .. Len(toStub)
  BY <1>4, Places
<1>. QED  BY <1>1, <1>2, <1>3, <1>4, <1>5

\* The same on the way to the debugger.
LEMMA DamageAnswerFacts ==
  ASSUME LinesOK, DamageAnswer
  PROVE  \E k \in 1 .. Len(toHost) :
         /\ toHost' \in Seq(StubTokens)
         /\ Len(toHost') = Len(toHost) /\ DOMAIN toHost' = 1 .. Len(toHost)
         /\ \A i \in 1 .. Len(toHost) :
              /\ toHost'[i].t = toHost[i].t
              /\ toHost[i].t # "-" => toHost'[i].n = toHost[i].n
              /\ i # k => toHost'[i] = toHost[i]
         /\ Hit
         /\ toHost[k].t = "$" /\ Missing("answer", toHost[k].n)
         /\ UNCHANGED <<toStub, seen>>
<1>1. PICK k \in DOMAIN toHost :
        /\ toHost[k].t = "$"
        /\ Hit
        /\ toHost' = [toHost EXCEPT ![k] = Damaged(toHost[k])]
        /\ Missing("answer", toHost[k].n)
        /\ UNCHANGED <<toStub, seen>>
  BY DEF DamageAnswer
<1>2. k \in 1 .. Len(toHost) /\ toHost[k] \in StubTokens
  BY LineFacts
<1>3. /\ Damaged(toHost[k]) \in StubTokens /\ Damaged(toHost[k]).t = "$"
      /\ Damaged(toHost[k]).n = toHost[k].n
  BY <1>1, <1>2, StubTokenShapes
<1>4. /\ toHost' \in Seq(StubTokens) /\ Len(toHost') = Len(toHost)
      /\ \A i \in 1 .. Len(toHost) :
            toHost'[i] = IF i = k THEN Damaged(toHost[k]) ELSE toHost[i]
  <2>. DEFINE damaged == Damaged(toHost[k])
  <2>1. damaged \in StubTokens /\ toHost \in Seq(StubTokens) /\ toHost' = [toHost EXCEPT ![k] = damaged]
    BY <1>1, <1>3 DEF LinesOK
  <2>. HIDE DEF damaged
  <2>2. /\ toHost' \in Seq(StubTokens) /\ Len(toHost') = Len(toHost)
        /\ \A i \in 1 .. Len(toHost) : toHost'[i] = IF i = k THEN damaged ELSE toHost[i]
    BY <1>2, <2>1, ExceptSeq
  <2>. QED  BY <2>2 DEF damaged
<1>5. DOMAIN toHost' = 1 .. Len(toHost)
  BY <1>4, Places
<1>. QED  BY <1>1, <1>2, <1>3, <1>4, <1>5


-----------------------------------------------------------------------------
(***************************************************************************)
(* Every operation keeps the invariant: the debugger.                      *)
(***************************************************************************)
\* The line is empty when the debugger comes.
LEMMA ConnectKeeps == SessionInv /\ Connect => SessionInv'
<1>. SUFFICES ASSUME SessionInv, Connect
              PROVE  SessionInv'
  OBVIOUS
<1>1. /\ host = "away" /\ host' = "idle" /\ toHost' = <<>> /\ toStub' = toStub \o <<Plus>>
      /\ seen' = IF at \in {"enter", "write"} THEN seen \cup {"early"} ELSE seen
      /\ UNCHANGED <<host_no_ack, kind, request, answer, breaks, faults, missing, again, stubvars>>
  BY DEF Connect, ToStub, Note
<1>2. /\ toStub = <<>> /\ Len(toStub) = 0 /\ toHost' \in Seq(StubTokens) /\ DOMAIN toHost' = {}
      /\ Plus.t = "+" /\ Plus \in HostTokens
  BY <1>1, EmptySeq, HostTokenShapes DEF SessionInv, CountersOK
<1>3. /\ toStub' \in Seq(HostTokens) /\ Len(toStub') = 1 /\ DOMAIN toStub' = {1}
      /\ toStub'[1].t = "+"
  BY <1>1, <1>2, HostSends DEF SessionInv
<1>. USE <1>1, <1>2, <1>3 DEF stubvars, flags, SessionInv,
         RequestAt, PlusUpAt, AnswerAt, PlusAt, MinusAt, Heard, Takes, Clean
<1>4. ScalarsOK'
  BY DEF ScalarsOK, Events
<1>5. LinesOK'
  BY DEF LinesOK
<1>6. CountersOK'
  BY DEF CountersOK
<1>7. OneOutstanding'
  BY DEF OneOutstanding, NoAckOK, CountersOK
<1>8. Fresh'
  BY DEF Fresh, CountersOK
<1>9. NoAckOK'
  BY DEF NoAckOK, CountersOK
<1>10. LossesOK'
  BY DEF LossesOK, Promised, CountersOK
<1>11. RunningOK'
  BY DEF RunningOK, Running, CountersOK
<1>12. Orderly'
  BY DEF Orderly, InOrder, CountersOK
<1>13. StopsOK'
  <2>1. \A i \in DOMAIN toStub' : toStub'[i].t = "+"
    OBVIOUS
  <2>2. Clean' => Clean /\ ~Running'
    BY DEF CountersOK, Running
  <2>3. was_interrupted' \/ at' = "checkpoint" => was_interrupted \/ at = "checkpoint"
    OBVIOUS
  <2>4. breaks' = breaks /\ missing' = missing
    OBVIOUS
  <2>. HIDE DEF Clean
  <2>. QED  BY <2>1, <2>2, <2>3, <2>4 DEF StopsOK
<1>. QED  BY <1>4, <1>5, <1>6, <1>7, <1>8, <1>9, <1>10, <1>12, <1>13, <1>11

\* A request follows the last answer.
LEMMA AskKeeps == SessionInv /\ Ask => SessionInv'
<1>. SUFFICES ASSUME SessionInv, Ask
              PROVE  SessionInv'
  OBVIOUS
<1>1. /\ host = "idle" /\ request < MaxRequests /\ request' = request + 1
      /\ host' = IF host_no_ack THEN "answer" ELSE "ack"
      /\ toStub' = toStub \o <<Packet(kind', request', TRUE)>>
      /\ kind' \in Kinds
      /\ host_no_ack => kind' # "noack"
      /\ UNCHANGED <<host_no_ack, answer, breaks, toHost, history, stubvars>>
  BY DEF Ask, ToStub
<1>2. /\ request' \in 1 .. MaxRequests /\ answer' = request /\ done' = request
      /\ request \in Nat /\ request' = answer' + 1 /\ done' # request' /\ answer' <= done'
      /\ answer' \in 0 .. request' /\ done' \in 0 .. request'
  BY <1>1, SessionAssumption DEF SessionInv, ScalarsOK, CountersOK, stubvars
<1>3. PICK packet \in HostTokens :
        /\ packet.t = "$" /\ packet.n = request' /\ packet.kind = kind' /\ packet.good = TRUE
        /\ toStub' = toStub \o <<packet>>
  <2>1. Packet(kind', request', TRUE) \in HostTokens
    BY <1>1, <1>2, GoodPackets
  <2>2. /\ Packet(kind', request', TRUE).t = "$" /\ Packet(kind', request', TRUE).n = request'
        /\ Packet(kind', request', TRUE).kind = kind' /\ Packet(kind', request', TRUE).good = TRUE
    BY GoodPackets, Zenon
  <2>. QED  BY <1>1, <2>1, <2>2
<1>4. /\ toStub' \in Seq(HostTokens)
      /\ Len(toStub') = Len(toStub) + 1 /\ DOMAIN toStub' = 1 .. Len(toStub) + 1
      /\ \A i \in 1 .. Len(toStub) : toStub'[i] = toStub[i]
      /\ toStub'[Len(toStub) + 1] = packet
  BY <1>3, HostSends DEF SessionInv
<1>5. /\ Len(toStub) \in Nat /\ DOMAIN toStub = 1 .. Len(toStub)
      /\ Len(toHost) \in Nat /\ DOMAIN toHost = 1 .. Len(toHost)
      /\ \A i \in 1 .. Len(toHost) : toHost[i].t \in {"$", "+", "-"}
  BY LineFacts DEF SessionInv
<1>6. /\ Len(toStub) + 1 \in DOMAIN toStub'
      /\ \A i \in DOMAIN toStub' : \/ i \in DOMAIN toStub /\ toStub'[i] = toStub[i]
                                   \/ i = Len(toStub) + 1 /\ toStub'[i] = packet
  BY <1>4, <1>5
<1>. USE <1>1, <1>2, <1>3, <1>4, <1>5 DEF history, stubvars, flags, SessionInv,
         RequestAt, PlusUpAt, AnswerAt, PlusAt, MinusAt, Heard, Takes, Clean
<1>7. ScalarsOK'
  BY DEF ScalarsOK
<1>8. LinesOK'
  BY DEF LinesOK
<1>9. CountersOK'
  <2>1. \A i \in DOMAIN toStub' : RequestAt(i)' => toStub'[i].n = request' /\ toStub'[i].kind = kind'
    <3>. SUFFICES ASSUME NEW i \in 1 .. Len(toStub) + 1, RequestAt(i)'
                  PROVE  toStub'[i].n = request' /\ toStub'[i].kind = kind'
      OBVIOUS
    <3>1. i = Len(toStub) + 1
      BY DEF OneOutstanding
    <3>. QED  BY <3>1
  <2>2. \A i \in DOMAIN toHost' : AnswerAt(i)' => toHost'[i].n <= done'
    BY DEF CountersOK
  <2>3. \A i \in DOMAIN toHost' : ~PlusAt(i)'
    BY DEF OneOutstanding
  <2>. QED  BY <2>1, <2>2, <2>3 DEF CountersOK
<1>10. OneOutstanding'
  BY DEF OneOutstanding
<1>11. Fresh'
  BY DEF Fresh, OneOutstanding, NoAckOK
<1>12. NoAckOK'
  BY DEF NoAckOK, OneOutstanding
<1>13. LossesOK'
  <2>1. Requested'
    BY <1>6 DEF Requested
  <2>2. \A i \in DOMAIN toHost : ~PlusAt(i)
    BY DEF OneOutstanding
  <2>. QED  BY <2>1, <2>2 DEF LossesOK
<1>14. RunningOK'
  BY DEF RunningOK, Running
<1>15. Orderly'
  <2>. SUFFICES ASSUME Clean, ~no_ack_mode
                PROVE  InOrder'
    BY DEF Orderly
  <2>1. host' = "ack" /\ InOrder
    BY DEF NoAckOK, Orderly
  <2>2. /\ \A i \in DOMAIN toHost : ~AnswerAt(i) /\ ~PlusAt(i) /\ ~MinusAt(i)
        /\ \A i \in DOMAIN toStub : ~RequestAt(i) /\ (~PlusUpAt(i) \/ at = "await")
        /\ at \in {"await", "read"}
    BY <2>1 DEF InOrder, OneOutstanding
  <2>3. Len(toHost) = 0
    BY <2>2
  <2>4. \A i, j \in DOMAIN toStub' : PlusUpAt(i)' /\ PlusUpAt(j)' => i = j
    BY <2>1 DEF InOrder
  <2>5. \A i \in DOMAIN toStub' : PlusUpAt(i)' => at = "await"
    BY <2>1 DEF InOrder
  <2>. QED  BY <2>1, <2>2, <2>3, <2>4, <2>5 DEF InOrder
<1>16. StopsOK'
  <2>1. \A i \in DOMAIN toStub : ~RequestAt(i) /\ toStub[i].t # "$"
    BY DEF OneOutstanding
  <2>2. Running => "early" \in seen
    BY DEF RunningOK
  <2>3. ASSUME NEW i \in DOMAIN toStub'
        PROVE  \/ i \in DOMAIN toStub /\ toStub'[i] = toStub[i]
               \/ i = Len(toStub) + 1 /\ toStub'[i].t = "$"
    BY <1>6
  <2>4. \A i, j \in DOMAIN toStub' : RequestAt(i)' /\ i < j => FALSE
    BY <2>1, <2>3
  <2>5. Running' => Running
    BY DEF Running
  <2>. HIDE DEF RequestAt, PlusUpAt
  <2>. QED  BY <2>2, <2>3, <2>4, <2>5 DEF StopsOK
<1>. QED  BY <1>7, <1>8, <1>9, <1>10, <1>11, <1>12, <1>13, <1>15, <1>16, <1>14

\* The debugger finds its '+'.
LEMMA HearsPlusKeeps ==
  ASSUME SessionInv, WhileAck, toHost[1].t = "+"
  PROVE  SessionInv'
<1>1. /\ host = "ack" /\ host' = "answer" /\ toHost # <<>> /\ toHost' = Tail(toHost)
      /\ UNCHANGED <<toStub, host_no_ack, kind, request, answer, breaks, history, stubvars>>
  BY WhileAckFacts DEF SessionInv
<1>2. /\ Len(toStub) \in Nat /\ DOMAIN toStub = 1 .. Len(toStub)
      /\ Len(toHost) \in Nat /\ DOMAIN toHost = 1 .. Len(toHost) /\ Len(toHost) >= 1
      /\ toHost' \in Seq(StubTokens)
      /\ Len(toHost') = Len(toHost) - 1 /\ DOMAIN toHost' = 1 .. Len(toHost) - 1
      /\ \A i \in 1 .. Len(toHost) - 1 : toHost'[i] = toHost[i + 1]
      /\ \A i \in 1 .. Len(toHost) : toHost[i].t \in {"$", "+", "-"}
  BY <1>1, HostTakes, LineFacts DEF SessionInv
<1>. USE <1>1, <1>2 DEF history, stubvars, flags, SessionInv,
         RequestAt, PlusUpAt, AnswerAt, PlusAt, MinusAt, Heard, Takes, Clean
<1>3. ScalarsOK'
  BY DEF ScalarsOK
<1>4. LinesOK'
  BY DEF LinesOK
<1>5. CountersOK'
  BY DEF CountersOK
<1>6. OneOutstanding'
  BY DEF OneOutstanding
<1>7. Fresh'
  BY DEF Fresh, OneOutstanding
<1>8. NoAckOK'
  <2>1. \A i \in DOMAIN toHost' : Takes(i)' => Takes(i + 1) /\ i + 1 \in DOMAIN toHost
    OBVIOUS
  <2>2. ~host_no_ack
    BY DEF OneOutstanding
  <2>. HIDE DEF Takes
  <2>3. no_ack_mode => \A i, j \in DOMAIN toHost' : Takes(i)' /\ Takes(j)' => i = j
    <3>. SUFFICES ASSUME no_ack_mode, NEW i \in 1 .. Len(toHost) - 1, Takes(i)',
                         NEW j \in 1 .. Len(toHost) - 1, Takes(j)'
                  PROVE  i = j
      OBVIOUS
    <3>1. i + 1 = j + 1
      BY <2>1 DEF NoAckOK
    <3>. QED  BY <3>1
  <2>4. no_ack_mode => \A i \in DOMAIN toHost' : Takes(i)' => at = "read"
    BY <2>1 DEF NoAckOK
  <2>. QED  BY <2>2, <2>3, <2>4 DEF NoAckOK
<1>9. LossesOK'
  <2>1. ASSUME Promised
        PROVE  Promised'
    <3>1. PICK j \in 1 .. Len(toHost) : Takes(j) /\ toHost[j].good
      BY <2>1 DEF Promised
    <3>2. j # 1 /\ AnswerAt(j)
      BY <3>1
    <3>3. j - 1 \in 1 .. Len(toHost) - 1 /\ toHost'[j - 1] = toHost[j]
      BY <3>2
    <3>. QED  BY <3>1, <3>2, <3>3 DEF Promised
  <2>2. Heard
    OBVIOUS
  <2>3. \A i \in DOMAIN toHost' : AnswerAt(i)' => toHost'[i].good \/ toHost'[i].n \in missing.answer
    <3>. SUFFICES ASSUME NEW i \in 1 .. Len(toHost) - 1, AnswerAt(i)'
                  PROVE  toHost'[i].good \/ toHost'[i].n \in missing.answer
      OBVIOUS
    <3>1. i + 1 \in 1 .. Len(toHost) /\ AnswerAt(i + 1) /\ toHost'[i] = toHost[i + 1]
      OBVIOUS
    <3>. QED  BY <3>1 DEF LossesOK
  <2>4. host' # "ack" /\ (Promised => Promised') /\ Heard /\ done = request
    BY <2>1, <2>2 DEF Fresh, OneOutstanding
  <2>. HIDE DEF Heard
  <2>. QED  BY <2>3, <2>4 DEF LossesOK
<1>10. RunningOK'
  BY DEF RunningOK, Running, CountersOK
<1>11. Orderly'
  BY DEF Orderly, InOrder, OneOutstanding
<1>12. StopsOK'
  <2>. HIDE DEF RequestAt, PlusUpAt
  <2>. QED  BY DEF StopsOK, RequestAt, PlusUpAt, Running
<1>. QED  BY <1>3, <1>4, <1>5, <1>6, <1>7, <1>8, <1>9, <1>11, <1>12, <1>10

\* It finds a '-' and sends its request again.
LEMMA HearsMinusKeeps ==
  ASSUME SessionInv, WhileAck, toHost[1].t = "-"
  PROVE  SessionInv'
<1>1. /\ host = "ack" /\ host' = "ack" /\ toHost # <<>> /\ toHost' = Tail(toHost)
      /\ toStub' = toStub \o <<Packet(kind, request, TRUE)>>
      /\ UNCHANGED <<host_no_ack, kind, request, answer, breaks, history, stubvars>>
  BY WhileAckFacts DEF SessionInv
<1>2. PICK packet \in HostTokens :
        /\ packet.t = "$" /\ packet.n = request /\ packet.kind = kind
        /\ toStub' = toStub \o <<packet>>
  <2>1. kind \in Kinds /\ request \in 1 .. MaxRequests
    BY <1>1, SessionAssumption DEF SessionInv, ScalarsOK, CountersOK
  <2>2. Packet(kind, request, TRUE) \in HostTokens
    BY <2>1, GoodPackets
  <2>3. /\ Packet(kind, request, TRUE).t = "$" /\ Packet(kind, request, TRUE).n = request
        /\ Packet(kind, request, TRUE).kind = kind
    BY GoodPackets, Zenon
  <2>. QED  BY <1>1, <2>2, <2>3
<1>3. /\ Len(toStub) \in Nat /\ DOMAIN toStub = 1 .. Len(toStub)
      /\ Len(toHost) \in Nat /\ DOMAIN toHost = 1 .. Len(toHost) /\ Len(toHost) >= 1
      /\ toHost' \in Seq(StubTokens)
      /\ Len(toHost') = Len(toHost) - 1 /\ DOMAIN toHost' = 1 .. Len(toHost) - 1
      /\ \A i \in 1 .. Len(toHost) - 1 : toHost'[i] = toHost[i + 1]
      /\ \A i \in 1 .. Len(toHost) : toHost[i].t \in {"$", "+", "-"}
  BY <1>1, HostTakes, LineFacts DEF SessionInv
<1>4. /\ toStub' \in Seq(HostTokens)
      /\ Len(toStub') = Len(toStub) + 1 /\ DOMAIN toStub' = 1 .. Len(toStub) + 1
      /\ \A i \in 1 .. Len(toStub) : toStub'[i] = toStub[i]
      /\ toStub'[Len(toStub) + 1] = packet
  BY <1>2, HostSends DEF SessionInv
<1>5. \A i \in DOMAIN toStub' : \/ i \in DOMAIN toStub /\ toStub'[i] = toStub[i]
                                \/ i = Len(toStub) + 1 /\ toStub'[i] = packet
  BY <1>3, <1>4
<1>. USE <1>1, <1>2, <1>3, <1>4 DEF history, stubvars, flags, SessionInv,
         RequestAt, PlusUpAt, AnswerAt, PlusAt, MinusAt, Heard, Takes, Clean
<1>6. /\ at = "read" /\ \A i \in 1 .. Len(toStub) : ~RequestAt(i)
      /\ \A i \in 2 .. Len(toHost) : AnswerAt(i)
  <2>1. 1 \in DOMAIN toHost /\ MinusAt(1) /\ ~AnswerAt(1)
    OBVIOUS
  <2>2. at = "read"
    BY <2>1 DEF OneOutstanding
  <2>3. \A i \in 1 .. Len(toStub) : ~RequestAt(i)
    BY <2>1 DEF OneOutstanding
  <2>4. ASSUME NEW i \in 2 .. Len(toHost)
        PROVE  AnswerAt(i)
    <3>1. i \in DOMAIN toHost /\ i # 1
      OBVIOUS
    <3>. HIDE DEF AnswerAt
    <3>. QED  BY <2>1, <3>1 DEF OneOutstanding
  <2>. QED  BY <2>2, <2>3, <2>4
<1>7. ScalarsOK'
  BY DEF ScalarsOK
<1>8. LinesOK'
  BY DEF LinesOK
<1>9. CountersOK'
  <2>1. \A i \in DOMAIN toStub' : RequestAt(i)' => toStub'[i].n = request' /\ toStub'[i].kind = kind'
    <3>. SUFFICES ASSUME NEW i \in 1 .. Len(toStub) + 1, RequestAt(i)'
                  PROVE  toStub'[i].n = request' /\ toStub'[i].kind = kind'
      OBVIOUS
    <3>1. i = Len(toStub) + 1
      BY <1>6
    <3>. QED  BY <3>1
  <2>2. \A i \in DOMAIN toHost' : AnswerAt(i)' => toHost'[i].n <= done'
    BY DEF CountersOK
  <2>3. \A i \in DOMAIN toHost' : ~PlusAt(i)'
    BY <1>6
  <2>. QED  BY <2>1, <2>2, <2>3 DEF CountersOK
<1>10. OneOutstanding'
  BY <1>6 DEF OneOutstanding
<1>11. Fresh'
  BY <1>6 DEF Fresh
<1>12. NoAckOK'
  BY <1>6 DEF NoAckOK, OneOutstanding
<1>13. LossesOK'
  <2>1. ~Heard /\ ~Heard'
    <3>1. \A i \in 1 .. Len(toHost) : ~PlusAt(i)
      <4>1. ~PlusAt(1)
        OBVIOUS
      <4>2. \A i \in 2 .. Len(toHost) : ~PlusAt(i)
        BY <1>6
      <4>. QED  BY <4>1, <4>2
    <3>2. \A i \in 1 .. Len(toHost) - 1 : ~PlusAt(i)'
      <4>. SUFFICES ASSUME NEW i \in 1 .. Len(toHost) - 1
                    PROVE  ~PlusAt(i)'
        OBVIOUS
      <4>1. i + 1 \in 1 .. Len(toHost) /\ ~PlusAt(i + 1) /\ toHost'[i] = toHost[i + 1]
        BY <3>1
      <4>. QED  BY <4>1
    <3>. QED  BY <3>1, <3>2
  <2>2. \A i \in DOMAIN toHost' : AnswerAt(i)' => toHost'[i].good \/ toHost'[i].n \in missing.answer
    <3>. SUFFICES ASSUME NEW i \in 1 .. Len(toHost) - 1, AnswerAt(i)'
                  PROVE  toHost'[i].good \/ toHost'[i].n \in missing.answer
      OBVIOUS
    <3>1. i + 1 \in 1 .. Len(toHost) /\ AnswerAt(i + 1) /\ toHost'[i] = toHost[i + 1]
      OBVIOUS
    <3>. QED  BY <3>1 DEF LossesOK
  <2>3. ~(host = "ack" /\ done = request) \/ request \in missing.ack
    BY <2>1 DEF LossesOK
  <2>. HIDE DEF Heard
  <2>. QED  BY <2>1, <2>2, <2>3 DEF LossesOK
<1>14. RunningOK'
  BY DEF RunningOK, Running, CountersOK
<1>15. Orderly'
  <2>. SUFFICES ASSUME Clean, ~no_ack_mode
                PROVE  InOrder'
    BY DEF Orderly
  <2>1. InOrder
    BY DEF Orderly
  <2>2. /\ \A i \in 2 .. Len(toHost) : ~AnswerAt(i)
        /\ \A i \in 1 .. Len(toStub) : ~PlusUpAt(i)
    BY <1>6, <2>1 DEF InOrder
  <2>3. DOMAIN toHost' = {}
    BY <1>6, <2>2
  <2>4. ASSUME NEW i \in DOMAIN toStub'
        PROVE  ~PlusUpAt(i)'
    <3>1. CASE i = Len(toStub) + 1
      BY <3>1
    <3>2. CASE i \in 1 .. Len(toStub)
      BY <2>2, <3>2
    <3>. QED  BY <3>1, <3>2
  <2>. QED  BY <1>6, <2>3, <2>4 DEF InOrder
<1>16. StopsOK'
  <2>1. ASSUME NEW i \in DOMAIN toStub'
        PROVE  \/ i \in DOMAIN toStub /\ toStub'[i] = toStub[i] /\ toStub[i].t # "$"
               \/ i = Len(toStub) + 1 /\ toStub'[i].t = "$"
    BY <1>6, <1>5
  <2>2. \A i, j \in DOMAIN toStub' : RequestAt(i)' /\ i < j => FALSE
    BY <2>1
  <2>3. ~Running'
    BY <1>6 DEF Running
  <2>. HIDE DEF RequestAt, PlusUpAt
  <2>. QED  BY <2>1, <2>2, <2>3 DEF StopsOK
<1>. QED  BY <1>7, <1>8, <1>9, <1>10, <1>11, <1>12, <1>13, <1>15, <1>16, <1>14

\* It finds a packet before its '+', and acknowledges it.
LEMMA HearsAnswerKeeps ==
  ASSUME SessionInv, WhileAck, toHost[1].t = "$"
  PROVE  SessionInv'
<1>1. /\ host = "ack" /\ host' = "ack" /\ toHost # <<>> /\ toHost' = Tail(toHost)
      /\ toStub' = toStub \o <<Plus>>
      /\ UNCHANGED <<host_no_ack, kind, request, answer, breaks, history, stubvars>>
  BY WhileAckFacts DEF SessionInv
<1>2. /\ Len(toStub) \in Nat /\ DOMAIN toStub = 1 .. Len(toStub)
      /\ Len(toHost) \in Nat /\ DOMAIN toHost = 1 .. Len(toHost) /\ Len(toHost) >= 1
      /\ toHost' \in Seq(StubTokens)
      /\ Len(toHost') = Len(toHost) - 1 /\ DOMAIN toHost' = 1 .. Len(toHost) - 1
      /\ \A i \in 1 .. Len(toHost) - 1 : toHost'[i] = toHost[i + 1]
      /\ \A i \in 1 .. Len(toHost) : toHost[i].t \in {"$", "+", "-"}
  BY <1>1, HostTakes, LineFacts DEF SessionInv
<1>3. /\ toStub' \in Seq(HostTokens)
      /\ Len(toStub') = Len(toStub) + 1 /\ DOMAIN toStub' = 1 .. Len(toStub) + 1
      /\ \A i \in 1 .. Len(toStub) : toStub'[i] = toStub[i]
      /\ toStub'[Len(toStub) + 1].t = "+"
  BY <1>1, HostSends, HostTokenShapes DEF SessionInv
<1>. USE <1>1, <1>2, <1>3 DEF history, stubvars, flags, SessionInv,
         RequestAt, PlusUpAt, AnswerAt, PlusAt, MinusAt, Heard, Takes, Clean
<1>4. ScalarsOK'
  BY DEF ScalarsOK
<1>5. LinesOK'
  BY DEF LinesOK
<1>6. CountersOK'
  BY DEF CountersOK
<1>7. OneOutstanding'
  <2>1. ASSUME NEW i \in DOMAIN toStub', RequestAt(i)'
        PROVE  i \in DOMAIN toStub /\ RequestAt(i)
    BY <2>1
  <2>2. ASSUME NEW i \in DOMAIN toHost'
        PROVE  /\ i + 1 \in DOMAIN toHost
               /\ AnswerAt(i)' <=> AnswerAt(i + 1)
               /\ PlusAt(i)' <=> PlusAt(i + 1)
               /\ MinusAt(i)' <=> MinusAt(i + 1)
    OBVIOUS
  <2>3. \A i, j \in DOMAIN toHost' : i + 1 = j + 1 => i = j
    OBVIOUS
  <2>. HIDE DEF RequestAt, AnswerAt, PlusAt, MinusAt
  <2>. QED  BY <2>1, <2>2, <2>3 DEF OneOutstanding
<1>8. Fresh'
  BY DEF Fresh
<1>9. NoAckOK'
  <2>1. \A i \in DOMAIN toHost' : Takes(i)' => Takes(i + 1)
    OBVIOUS
  <2>2. ~host_no_ack
    BY DEF OneOutstanding
  <2>. HIDE DEF Takes
  <2>3. no_ack_mode => \A i, j \in DOMAIN toHost' : Takes(i)' /\ Takes(j)' => i = j
    <3>. SUFFICES ASSUME no_ack_mode, NEW i \in 1 .. Len(toHost) - 1, Takes(i)',
                         NEW j \in 1 .. Len(toHost) - 1, Takes(j)'
                  PROVE  i = j
      OBVIOUS
    <3>1. Takes(i + 1) /\ Takes(j + 1)
      BY <2>1
    <3>2. i + 1 \in DOMAIN toHost /\ j + 1 \in DOMAIN toHost
      OBVIOUS
    <3>3. i + 1 = j + 1
      BY <3>1, <3>2 DEF NoAckOK
    <3>. QED  BY <3>3
  <2>4. no_ack_mode => \A i \in DOMAIN toHost' : Takes(i)' => at = "read"
    BY <2>1 DEF NoAckOK
  <2>. QED  BY <2>2, <2>3, <2>4 DEF NoAckOK
<1>10. LossesOK'
  <2>1. ASSUME NEW i \in 1 .. Len(toHost), PlusAt(i)
        PROVE  PlusAt(i - 1)' /\ i - 1 \in DOMAIN toHost'
    BY <2>1
  <2>2. ASSUME Promised
        PROVE  Promised'
    <3>1. PICK j \in 1 .. Len(toHost) : Takes(j) /\ toHost[j].good
      BY <2>2 DEF Promised
    <3>2. PICK i \in 1 .. Len(toHost) : PlusAt(i) /\ i < j
      BY <3>1
    <3>3. /\ j - 1 \in 1 .. Len(toHost) - 1 /\ toHost'[j - 1] = toHost[j]
          /\ i - 1 \in 1 .. Len(toHost) - 1 /\ PlusAt(i - 1)' /\ i - 1 < j - 1
      BY <2>1, <3>1, <3>2
    <3>. QED  BY <3>1, <3>3 DEF Promised
  <2>3. Heard' => Heard
    OBVIOUS
  <2>4. \A i \in DOMAIN toHost' : AnswerAt(i)' => toHost'[i].good \/ toHost'[i].n \in missing.answer
    <3>. SUFFICES ASSUME NEW i \in 1 .. Len(toHost) - 1, AnswerAt(i)'
                  PROVE  toHost'[i].good \/ toHost'[i].n \in missing.answer
      OBVIOUS
    <3>1. i + 1 \in 1 .. Len(toHost) /\ AnswerAt(i + 1) /\ toHost'[i] = toHost[i + 1]
      OBVIOUS
    <3>. QED  BY <3>1 DEF LossesOK
  <2>5. (\E i \in DOMAIN toHost : PlusAt(i)) => \E i \in DOMAIN toHost' : PlusAt(i)'
    BY <2>1
  <2>6. (Promised => Promised') /\ (Heard' => Heard)
    BY <2>2, <2>3
  <2>. HIDE DEF Heard
  <2>. QED  BY <2>4, <2>5, <2>6 DEF LossesOK
<1>11. RunningOK'
  BY DEF RunningOK, Running, CountersOK
<1>12. Orderly'
  <2>. SUFFICES ASSUME Clean, ~no_ack_mode
                PROVE  InOrder'
    BY DEF Orderly
  <2>1. InOrder
    BY DEF Orderly
  <2>2. /\ \A i \in 2 .. Len(toHost) : ~AnswerAt(i) /\ ~PlusAt(i) /\ MinusAt(i)
        /\ \A i \in 1 .. Len(toStub) : ~PlusUpAt(i)
        /\ at = "await"
    <3>1. 1 \in DOMAIN toHost /\ AnswerAt(1) /\ ~MinusAt(1)
      OBVIOUS
    <3>2. at = "await" /\ \A i \in 1 .. Len(toStub) : ~PlusUpAt(i)
      BY <2>1, <3>1 DEF InOrder
    <3>3. ASSUME NEW i \in 2 .. Len(toHost)
          PROVE  ~AnswerAt(i) /\ ~PlusAt(i)
      <4>1. i \in DOMAIN toHost /\ i # 1 /\ ~(i < 1)
        OBVIOUS
      <4>. HIDE DEF AnswerAt, PlusAt
      <4>. QED  BY <2>1, <3>1, <4>1 DEF InOrder
    <3>4. ASSUME NEW i \in 2 .. Len(toHost)
          PROVE  AnswerAt(i) \/ PlusAt(i) \/ MinusAt(i)
      <4>1. i \in 1 .. Len(toHost)
        OBVIOUS
      <4>. QED  BY <4>1
    <3>. HIDE DEF AnswerAt, PlusAt, MinusAt, PlusUpAt
    <3>. QED  BY <3>2, <3>3, <3>4
  <2>. QED  BY <2>1, <2>2 DEF InOrder
<1>13. StopsOK'
  <2>1. ~host_no_ack
    BY DEF OneOutstanding
  <2>2. ~(Clean /\ Running)
    <3>1. 1 \in DOMAIN toHost /\ AnswerAt(1)
      OBVIOUS
    <3>2. ~no_ack_mode \/ at \in {"write", "read"}
      BY <2>1 DEF NoAckOK
    <3>. HIDE DEF AnswerAt
    <3>. QED  BY <3>1, <3>2 DEF Orderly, InOrder, Running
  <2>3. ~(Clean' /\ Running')
    BY <2>2 DEF Running
  <2>. QED  BY <2>1, <2>3 DEF StopsOK
<1>. QED  BY <1>4, <1>5, <1>6, <1>7, <1>8, <1>9, <1>10, <1>12, <1>13, <1>11

\* The packet that the debugger finds while it waits for its answer.
LEMMA FoundAnswer ==
  ASSUME SessionInv, WhileAnswer
  PROVE  /\ toHost[1].t = "$" /\ Takes(1) /\ toHost[1].n = request /\ done = request
         /\ Len(toHost) >= 1 /\ 1 \in DOMAIN toHost
         /\ host = "answer" /\ request = answer + 1
         /\ \A i \in DOMAIN toHost : AnswerAt(i) /\ ~PlusAt(i) /\ ~MinusAt(i)
         /\ ~host_no_ack => \A i \in DOMAIN toStub : ~RequestAt(i)
         /\ Clean /\ ~no_ack_mode => at = "await" /\ Len(toHost) = 1
         /\ no_ack_mode => at = "read" /\ Len(toHost) = 1
<1>1. host = "answer" /\ toHost # <<>> /\ toHost' = Tail(toHost)
  BY WhileAnswerFacts DEF SessionInv
<1>2. /\ Len(toHost) \in Nat /\ DOMAIN toHost = 1 .. Len(toHost) /\ Len(toHost) >= 1
      /\ \A i \in 1 .. Len(toHost) : toHost[i].t \in {"$", "+", "-"}
      /\ Len(toStub) \in Nat /\ DOMAIN toStub = 1 .. Len(toStub)
  BY <1>1, LineFacts, HostTakes DEF SessionInv
<1>3. \A i \in DOMAIN toHost : ~PlusAt(i) /\ ~MinusAt(i)
  BY <1>1 DEF SessionInv, OneOutstanding
<1>4. \A i \in DOMAIN toHost : AnswerAt(i)
  BY <1>2, <1>3 DEF PlusAt, MinusAt, AnswerAt
<1>5. toHost[1].t = "$" /\ Takes(1) /\ 1 \in DOMAIN toHost /\ AnswerAt(1)
  BY <1>1, <1>2, <1>4 DEF Takes, AnswerAt
<1>6. toHost[1].n = request
  BY <1>5 DEF SessionInv, Fresh
<1>7. done = request
  <2>1. toHost[1].n <= done /\ request \in Nat /\ done \in 0 .. request
    BY <1>5, SessionAssumption DEF SessionInv, CountersOK, ScalarsOK
  <2>. QED  BY <1>6, <2>1
<1>8. request = answer + 1
  BY <1>1 DEF SessionInv, CountersOK
<1>9. ASSUME ~host_no_ack, NEW i \in DOMAIN toStub
      PROVE  ~RequestAt(i)
  BY <1>1, <1>9 DEF SessionInv, OneOutstanding
<1>10. ASSUME Clean, ~no_ack_mode
       PROVE  at = "await" /\ Len(toHost) = 1
  <2>1. at = "await" /\ \A i \in DOMAIN toHost : i = 1
    BY <1>4, <1>5, <1>10 DEF SessionInv, Orderly, InOrder
  <2>. QED  BY <1>2, <2>1
<1>11. ASSUME no_ack_mode
       PROVE  at = "read" /\ Len(toHost) = 1
  <2>1. \A i \in DOMAIN toHost : Takes(i)
    BY <1>1, <1>4 DEF Takes
  <2>2. at = "read" /\ \A i \in DOMAIN toHost : i = 1
    BY <1>5, <1>11, <2>1 DEF SessionInv, NoAckOK
  <2>. QED  BY <1>2, <2>2
<1>. QED  BY <1>1, <1>2, <1>3, <1>4, <1>5, <1>6, <1>7, <1>8, <1>9, <1>10, <1>11

\* The debugger rejects a damaged packet.
LEMMA RejectsAnswerKeeps ==
  ASSUME SessionInv, WhileAnswer, ~toHost[1].good
  PROVE  SessionInv'
<1>1. /\ toHost # <<>> /\ toHost' = Tail(toHost)
      /\ toStub' = IF host_no_ack THEN toStub ELSE toStub \o <<Minus>>
      /\ UNCHANGED <<hostvars, history, stubvars>>
  BY WhileAnswerFacts, FoundAnswer DEF SessionInv, hostvars
<1>2. /\ Len(toHost) \in Nat /\ DOMAIN toHost = 1 .. Len(toHost)
      /\ toHost' \in Seq(StubTokens)
      /\ Len(toHost') = Len(toHost) - 1 /\ DOMAIN toHost' = 1 .. Len(toHost) - 1
      /\ \A i \in 1 .. Len(toHost) - 1 : toHost'[i] = toHost[i + 1]
      /\ \A i \in 1 .. Len(toHost) : toHost[i].t \in {"$", "+", "-"}
      /\ Len(toStub) \in Nat /\ DOMAIN toStub = 1 .. Len(toStub)
  BY <1>1, HostTakes, LineFacts DEF SessionInv
<1>3. /\ toStub' \in Seq(HostTokens)
      /\ DOMAIN toStub \subseteq DOMAIN toStub'
      /\ \A i \in DOMAIN toStub' : \/ i \in DOMAIN toStub /\ toStub'[i] = toStub[i]
                                   \/ ~host_no_ack /\ toStub'[i].t = "-"
  <2>1. CASE host_no_ack
    BY <1>1, <2>1 DEF SessionInv, LinesOK
  <2>2. CASE ~host_no_ack
    BY <1>1, <1>2, <2>2, HostSends, HostTokenShapes DEF SessionInv
  <2>. QED  BY <2>1, <2>2
<1>4. /\ host = "answer" /\ done = request
      /\ \A i \in DOMAIN toHost : AnswerAt(i) /\ ~PlusAt(i) /\ ~MinusAt(i)
      /\ ~host_no_ack => \A i \in DOMAIN toStub : ~RequestAt(i)
      /\ Clean /\ ~no_ack_mode => at = "await" /\ Len(toHost) = 1
      /\ no_ack_mode => at = "read" /\ Len(toHost) = 1
      /\ 1 \in DOMAIN toHost
  BY FoundAnswer
<1>5. request \in missing.answer
  BY <1>4, FoundAnswer DEF SessionInv, LossesOK
<1>6. ~(Clean /\ Running)
  BY FoundAnswer DEF Running
<1>7. /\ \A i \in DOMAIN toStub' : RequestAt(i)' => i \in DOMAIN toStub /\ RequestAt(i) /\ host_no_ack
      /\ \A i \in DOMAIN toStub' : PlusUpAt(i)' => i \in DOMAIN toStub /\ PlusUpAt(i)
      /\ \A i \in DOMAIN toHost' : AnswerAt(i)' /\ ~PlusAt(i)' /\ ~MinusAt(i)'
      /\ \A i \in DOMAIN toHost' : i + 1 \in DOMAIN toHost /\ toHost'[i] = toHost[i + 1]
  <2>1. ASSUME NEW i \in DOMAIN toStub', RequestAt(i)'
        PROVE  i \in DOMAIN toStub /\ RequestAt(i) /\ host_no_ack
    <3>1. i \in DOMAIN toStub /\ toStub'[i] = toStub[i] /\ RequestAt(i)
      BY <1>3, <2>1 DEF RequestAt
    <3>. QED  BY <1>4, <3>1
  <2>2. ASSUME NEW i \in DOMAIN toStub', PlusUpAt(i)'
        PROVE  i \in DOMAIN toStub /\ PlusUpAt(i)
    BY <1>3, <2>2 DEF PlusUpAt
  <2>3. \A i \in DOMAIN toHost' : i + 1 \in DOMAIN toHost /\ toHost'[i] = toHost[i + 1]
    BY <1>2
  <2>4. \A i \in DOMAIN toHost' : AnswerAt(i)' /\ ~PlusAt(i)' /\ ~MinusAt(i)'
    BY <1>4, <2>3 DEF AnswerAt, PlusAt, MinusAt
  <2>. QED  BY <2>1, <2>2, <2>3, <2>4
<1>. USE <1>1, <1>4, <1>7 DEF hostvars, history, stubvars, flags, SessionInv
<1>8. ScalarsOK'
  BY DEF ScalarsOK
<1>9. LinesOK'
  BY <1>2, <1>3 DEF LinesOK
<1>10. CountersOK'
  <2>1. \A i \in DOMAIN toStub' : RequestAt(i)' => toStub'[i].n = request' /\ toStub'[i].kind = kind'
    BY DEF CountersOK
  <2>2. \A i \in DOMAIN toHost' : toHost'[i].n <= done'
    BY DEF CountersOK
  <2>. QED  BY <2>1, <2>2 DEF CountersOK
<1>11. OneOutstanding'
  BY DEF OneOutstanding
<1>12. Fresh'
  <2>1. \A i \in DOMAIN toHost' : toHost'[i].n = request
    BY DEF Fresh, Takes
  <2>. QED  BY <2>1 DEF Fresh
<1>13. NoAckOK'
  <2>1. no_ack_mode => DOMAIN toHost' = {}
    BY <1>2
  <2>. QED  BY <2>1 DEF NoAckOK
<1>14. LossesOK'
  BY <1>5 DEF LossesOK
<1>15. RunningOK'
  BY DEF RunningOK, Running, Takes
<1>16. Orderly'
  <2>1. Clean /\ ~no_ack_mode => DOMAIN toHost' = {}
    BY <1>2
  <2>. QED  BY <2>1 DEF Orderly, InOrder, Clean
<1>17. StopsOK'
  BY <1>2, <1>3, <1>6 DEF StopsOK, PlusUpAt, RequestAt, Clean, Running
<1>. QED  BY <1>8, <1>9, <1>10, <1>11, <1>12, <1>13, <1>14, <1>16, <1>17, <1>15

\* The debugger takes its answer, and sends a '+' for it.
LEMMA TakesAnswerKeeps ==
  ASSUME SessionInv, WhileAnswer, toHost[1].good
  PROVE  SessionInv'
<1>1. /\ toHost # <<>> /\ toHost' = Tail(toHost)
      /\ host' = "idle" /\ answer' = toHost[1].n
      /\ host_no_ack' = (host_no_ack \/ kind = "noack")
      /\ toStub' = IF host_no_ack THEN toStub ELSE toStub \o <<Plus>>
      /\ UNCHANGED <<kind, request, breaks, history, stubvars>>
  BY WhileAnswerFacts, FoundAnswer DEF SessionInv
<1>2. /\ Len(toHost) \in Nat /\ DOMAIN toHost = 1 .. Len(toHost)
      /\ toHost' \in Seq(StubTokens)
      /\ Len(toHost') = Len(toHost) - 1 /\ DOMAIN toHost' = 1 .. Len(toHost) - 1
      /\ \A i \in 1 .. Len(toHost) - 1 : toHost'[i] = toHost[i + 1]
      /\ Len(toStub) \in Nat /\ DOMAIN toStub = 1 .. Len(toStub)
  BY <1>1, HostTakes, LineFacts DEF SessionInv
<1>3. /\ toStub' \in Seq(HostTokens)
      /\ \/ host_no_ack /\ toStub' = toStub
         \/ /\ ~host_no_ack /\ Len(toStub') = Len(toStub) + 1
            /\ DOMAIN toStub' = 1 .. Len(toStub) + 1
            /\ \A i \in DOMAIN toStub : toStub'[i] = toStub[i]
            /\ toStub'[Len(toStub) + 1].t = "+"
  <2>1. CASE host_no_ack
    BY <1>1, <2>1 DEF SessionInv, LinesOK
  <2>2. CASE ~host_no_ack
    <3>1. toStub' = toStub \o <<Plus>> /\ Plus \in HostTokens /\ Plus.t = "+"
      BY <1>1, <2>2, HostTokenShapes
    <3>. QED  BY <1>2, <2>2, <3>1, HostSends DEF SessionInv
  <2>. QED  BY <2>1, <2>2
<1>4. \A i \in DOMAIN toStub' : \/ i \in DOMAIN toStub /\ toStub'[i] = toStub[i]
                                \/ toStub'[i].t = "+"
  <2>1. Len(toStub) \in Nat /\ DOMAIN toStub = 1 .. Len(toStub)
    BY <1>2
  <2>. QED  BY <1>3, <2>1
<1>5. /\ host = "answer" /\ done = request /\ answer' = request
      /\ \A i \in DOMAIN toHost : AnswerAt(i) /\ ~PlusAt(i) /\ ~MinusAt(i)
      /\ ~host_no_ack => \A i \in DOMAIN toStub : ~RequestAt(i)
      /\ Clean /\ ~no_ack_mode => at = "await" /\ Len(toHost) = 1
      /\ no_ack_mode => at = "read" /\ Len(toHost) = 1
      /\ 1 \in DOMAIN toHost
  BY <1>1, FoundAnswer
<1>6. ~Running \/ (done = 0 /\ "early" \in seen)
  BY <1>5, FoundAnswer DEF SessionInv, RunningOK
<1>7. no_ack_mode <=> host_no_ack'
  BY <1>1, <1>5 DEF SessionInv, NoAckOK
<1>8. \A i \in DOMAIN toStub' : ~RequestAt(i)'
  <2>1. \A i \in DOMAIN toStub : ~RequestAt(i)
    BY <1>5 DEF SessionInv, NoAckOK
  <2>. QED  BY <1>2, <1>3, <2>1 DEF RequestAt
<1>9. \A i \in DOMAIN toHost' : /\ AnswerAt(i)' /\ ~PlusAt(i)' /\ ~MinusAt(i)'
                                /\ i + 1 \in DOMAIN toHost /\ toHost'[i] = toHost[i + 1]
  BY <1>2, <1>5 DEF AnswerAt, PlusAt, MinusAt
<1>10. (Clean /\ ~no_ack_mode) \/ no_ack_mode => DOMAIN toHost' = {}
  BY <1>2, <1>5
<1>. USE <1>1, <1>5, <1>7, <1>8, <1>9, <1>10 DEF history, stubvars, flags, SessionInv
<1>11. ScalarsOK'
  BY SessionAssumption DEF ScalarsOK
<1>12. LinesOK'
  BY <1>2, <1>3 DEF LinesOK
<1>13. CountersOK'
  <2>1. \A i \in DOMAIN toHost' : toHost'[i].n <= done'
    BY DEF CountersOK
  <2>. QED  BY <2>1 DEF CountersOK
<1>14. OneOutstanding'
  BY DEF OneOutstanding
<1>15. Fresh'
  BY DEF Fresh, Heard, Takes
<1>16. NoAckOK'
  BY DEF NoAckOK
<1>17. LossesOK'
  <2>1. \A i \in DOMAIN toHost' : AnswerAt(i)' => toHost'[i].good \/ toHost'[i].n \in missing.answer
    BY DEF LossesOK
  <2>2. ~Heard'
    BY DEF Heard
  <2>. QED  BY <2>1, <2>2 DEF LossesOK
<1>18. RunningOK'
  BY <1>6 DEF RunningOK, Running
<1>19. Orderly'
  <2>. SUFFICES ASSUME Clean, ~no_ack_mode
                PROVE  InOrder'
    BY DEF Orderly, Clean
  <2>1. at = "await" /\ DOMAIN toHost' = {} /\ ~host_no_ack
    BY DEF NoAckOK
  <2>2. \A i \in DOMAIN toStub : ~PlusUpAt(i)
    BY <2>1 DEF Orderly, InOrder, MinusAt
  <2>3. ASSUME NEW i \in DOMAIN toStub', PlusUpAt(i)'
        PROVE  i = Len(toStub) + 1
    <3>1. i \in 1 .. Len(toStub) + 1 /\ \A j \in DOMAIN toStub : toStub'[j] = toStub[j]
      BY <1>3, <2>1
    <3>2. i \notin DOMAIN toStub
      BY <2>2, <2>3, <3>1 DEF PlusUpAt
    <3>. QED  BY <1>2, <3>1, <3>2
  <2>. QED  BY <2>1, <2>3 DEF InOrder
<1>20. StopsOK'
  <2>1. ~(Clean /\ Running)
    BY <1>6 DEF Clean
  <2>2. ASSUME NEW i \in DOMAIN toStub'
        PROVE  \/ i \in DOMAIN toStub /\ toStub'[i] = toStub[i]
               \/ toStub'[i].t = "+"
    BY <1>4
  <2>3. Clean' = Clean /\ Running' = Running
    BY DEF Clean, Running
  <2>. QED  BY <2>1, <2>2, <2>3 DEF StopsOK
<1>. QED  BY <1>11, <1>12, <1>13, <1>14, <1>15, <1>16, <1>17, <1>19, <1>20, <1>18

\* The debugger loses patience: the line is empty.
LEMMA HostTimeoutKeeps == SessionInv /\ HostTimeout => SessionInv'
<1>. SUFFICES ASSUME SessionInv, HostTimeout
              PROVE  SessionInv'
  OBVIOUS
<1>1. /\ toStub = <<>> /\ toHost = <<>> /\ ~host_no_ack
      /\ UNCHANGED <<hostvars, toHost, history, stubvars>>
  BY DEF HostTimeout, Quiet
<1>2. PICK token \in HostTokens :
        /\ toStub' = toStub \o <<token>>
        /\ \/ host = "ack" /\ token.t = "$" /\ token.n = request /\ token.kind = kind
           \/ host = "answer" /\ token.t = "-" /\ kind # "continue"
  <2>1. CASE host = "ack" /\ Resend
    <3>1. kind \in Kinds /\ request \in 1 .. MaxRequests
      BY <2>1, SessionAssumption DEF SessionInv, ScalarsOK, CountersOK
    <3>2. Packet(kind, request, TRUE) \in HostTokens
      BY <3>1, GoodPackets
    <3>3. /\ Packet(kind, request, TRUE).t = "$" /\ Packet(kind, request, TRUE).n = request
          /\ Packet(kind, request, TRUE).kind = kind
      BY GoodPackets, Zenon
    <3>. QED  BY <2>1, <3>2, <3>3 DEF Resend, ToStub
  <2>2. CASE host = "answer" /\ kind # "continue" /\ ToStub(<<Minus>>)
    BY <2>2, HostTokenShapes DEF ToStub
  <2>. QED  BY <2>1, <2>2 DEF HostTimeout
<1>3. /\ toStub' \in Seq(HostTokens) /\ Len(toStub') = 1 /\ DOMAIN toStub' = {1}
      /\ toStub'[1] = token /\ DOMAIN toHost = {}
  <2>1. Len(toStub) = 0 /\ DOMAIN toHost = {}
    BY <1>1, EmptySeq
  <2>. QED  BY <1>2, <2>1, HostSends DEF SessionInv
<1>. USE <1>1, <1>2, <1>3 DEF hostvars, history, stubvars, flags, SessionInv,
         RequestAt, PlusUpAt, AnswerAt, PlusAt, MinusAt, Heard, Takes, Clean
<1>4. ScalarsOK'
  BY DEF ScalarsOK
<1>5. LinesOK'
  BY DEF LinesOK
<1>6. CountersOK'
  BY DEF CountersOK
<1>7. OneOutstanding'
  BY DEF OneOutstanding
<1>8. Fresh'
  BY DEF Fresh
<1>9. NoAckOK'
  BY DEF NoAckOK
<1>10. LossesOK'
  BY DEF LossesOK, Promised, Requested, Fresh
<1>11. RunningOK'
  BY DEF RunningOK, Running, CountersOK
<1>12. Orderly'
  BY DEF Orderly, InOrder
<1>13. StopsOK'
  BY DEF StopsOK, RunningOK, Running
<1>. QED  BY <1>4, <1>5, <1>6, <1>7, <1>8, <1>9, <1>10, <1>12, <1>13, <1>11

\* Ctrl+C.
LEMMA SendBreakKeeps == SessionInv /\ SendBreak => SessionInv'
<1>. SUFFICES ASSUME SessionInv, SendBreak
              PROVE  SessionInv'
  OBVIOUS
<1>1. /\ host = "answer" /\ breaks < MaxBreaks /\ breaks' = breaks + 1
      /\ toStub' = toStub \o <<Break>>
      /\ UNCHANGED <<host, host_no_ack, kind, request, answer, toHost, history, stubvars>>
  BY DEF SendBreak, ToStub
<1>2. /\ toStub' \in Seq(HostTokens) /\ Len(toStub) \in Nat /\ DOMAIN toStub = 1 .. Len(toStub)
      /\ Len(toStub') = Len(toStub) + 1 /\ DOMAIN toStub' = 1 .. Len(toStub) + 1
      /\ \A i \in 1 .. Len(toStub) : toStub'[i] = toStub[i]
      /\ toStub'[Len(toStub) + 1].t = "break"
  BY <1>1, HostSends, HostTokenShapes, LineFacts DEF SessionInv
<1>3. /\ breaks' \in 0 .. MaxBreaks /\ breaks' # 0
  BY <1>1, SessionAssumption DEF SessionInv, ScalarsOK
<1>4. \A i \in DOMAIN toStub' :
        /\ RequestAt(i)' => i \in DOMAIN toStub /\ RequestAt(i) /\ toStub'[i] = toStub[i]
        /\ PlusUpAt(i)' => i \in DOMAIN toStub /\ PlusUpAt(i)
  BY <1>2 DEF RequestAt, PlusUpAt
<1>5. Requested => Requested'
  BY <1>2 DEF Requested, RequestAt
<1>. USE <1>1, <1>3, <1>4 DEF history, stubvars, flags, SessionInv,
         AnswerAt, PlusAt, MinusAt, Heard, Takes, Clean
<1>6. ScalarsOK'
  BY DEF ScalarsOK
<1>7. LinesOK'
  BY <1>2 DEF LinesOK
<1>8. CountersOK'
  BY DEF CountersOK
<1>9. OneOutstanding'
  BY DEF OneOutstanding
<1>10. Fresh'
  BY DEF Fresh
<1>11. NoAckOK'
  BY DEF NoAckOK
<1>12. LossesOK'
  BY <1>5 DEF LossesOK, Promised
<1>13. RunningOK'
  BY DEF RunningOK, Running, CountersOK
<1>14. Orderly'
  BY DEF Orderly, InOrder
<1>15. StopsOK'
  BY <1>2 DEF StopsOK, RequestAt, PlusUpAt, Running
<1>. QED  BY <1>6, <1>7, <1>8, <1>9, <1>10, <1>11, <1>12, <1>14, <1>15, <1>13

-----------------------------------------------------------------------------
(***************************************************************************)
(* The line.                                                               *)
(***************************************************************************)
\* A fault is counted within its bound, and the stub and the debugger know nothing of it.
LEMMA FaultCounted ==
  ASSUME SessionInv, Hit
  PROVE  /\ faults' \in 0 .. MaxFaults
         /\ UNCHANGED <<hostvars, again, stubvars>>
BY SessionAssumption DEF SessionInv, ScalarsOK, Hit

\* A token to the stub is lost.
LEMMA LoseToStubKeeps == SessionInv /\ LoseToStub => SessionInv'
<1>. SUFFICES ASSUME SessionInv, LoseToStub
              PROVE  SessionInv'
  OBVIOUS
<1>1. PICK k \in 1 .. Len(toStub) :
        /\ toStub' \in Seq(HostTokens)
        /\ Len(toStub') = Len(toStub) - 1 /\ DOMAIN toStub' = 1 .. Len(toStub) - 1
        /\ \A i \in 1 .. Len(toStub) - 1 :
             toStub'[i] = toStub[From(i, k)]
        /\ Hit
        /\ IF toStub[k].t = "$" THEN Missing("request", toStub[k].n) ELSE UNCHANGED missing
        /\ Note(toStub[k].t # "$", "lost byte")
        /\ UNCHANGED toHost
  BY LoseToStubFacts DEF SessionInv
<1>2. /\ faults' \in 0 .. MaxFaults /\ UNCHANGED <<hostvars, again, stubvars, toHost>>
      /\ seen \subseteq seen' /\ seen' \subseteq seen \cup {"lost byte"}
  BY <1>1, FaultCounted DEF Note
<1>3. Len(toStub) \in Nat /\ DOMAIN toStub = 1 .. Len(toStub) /\ toStub # <<>>
  <2>1. Len(toStub) \in Nat /\ DOMAIN toStub = 1 .. Len(toStub)
    BY LineFacts DEF SessionInv
  <2>2. k \in Nat /\ 1 <= k /\ k <= Len(toStub)
    BY <2>1
  <2>3. Len(<<>>) = 0
    BY EmptySeq
  <2>4. toStub # <<>>
    BY <2>2, <2>3
  <2>. QED  BY <2>1, <2>4
<1>4. ASSUME NEW i \in DOMAIN toStub'
      PROVE  /\ From(i, k) \in DOMAIN toStub /\ toStub'[i] = toStub[From(i, k)]
             /\ From(i, k) = Len(toStub) => i = Len(toStub')
  BY <1>1, <1>3, FromProperties
<1>5. ASSUME NEW i \in DOMAIN toStub', NEW j \in DOMAIN toStub', From(i, k) = From(j, k)
      PROVE  i = j
  <2>. DEFINE n == Len(toStub)
  <2>1. n \in Nat /\ k \in 1 .. n /\ DOMAIN toStub' = 1 .. n - 1
    BY <1>1, <1>3
  <2>. HIDE DEF n
  <2>2. \A p, q \in 1 .. n - 1 : From(p, k) = From(q, k) => p = q
    BY <2>1 DEF From
  <2>. QED  BY <1>5, <2>1, <2>2
<1>6. ASSUME NEW i \in DOMAIN toStub'
      PROVE  /\ RequestAt(i)' => RequestAt(From(i, k))
             /\ PlusUpAt(i)' => PlusUpAt(From(i, k))
  BY <1>4 DEF RequestAt, PlusUpAt
<1>7. /\ missing' \in [{"request", "ack", "answer"} -> SUBSET (0 .. request)]
      /\ missing.request \subseteq missing'.request /\ missing.ack \subseteq missing'.ack
      /\ missing.answer \subseteq missing'.answer
      /\ toStub[k].t = "$" => request \in missing'.request
  <2>1. CASE toStub[k].t = "$"
    <3>1. toStub[k].n = request
      BY <1>3, <2>1 DEF SessionInv, CountersOK, RequestAt
    <3>2. request \in 0 .. request
      BY SessionAssumption DEF SessionInv, ScalarsOK
    <3>. QED  BY <1>1, <2>1, <3>1, <3>2, MissingFacts DEF SessionInv
  <2>2. CASE toStub[k].t # "$"
    BY <1>1, <2>2 DEF SessionInv, ScalarsOK
  <2>. QED  BY <2>1, <2>2
<1>8. ASSUME NEW i \in DOMAIN toStub', From(i, k) = 1
      PROVE  i = 1
  <2>. DEFINE n == Len(toStub)
  <2>1. n \in Nat /\ k \in 1 .. n /\ DOMAIN toStub' = 1 .. n - 1
    BY <1>1, <1>3
  <2>. HIDE DEF n
  <2>2. \A p \in 1 .. n - 1 : From(p, k) = 1 => p = 1
    BY <2>1 DEF From
  <2>. QED  BY <1>8, <2>1, <2>2
<1>9. ASSUME NEW i \in DOMAIN toStub', NEW j \in DOMAIN toStub', i < j
      PROVE  From(i, k) < From(j, k)
  BY <1>1, <1>3, <1>9, FromProperties
<1>10. ASSUME NEW m \in DOMAIN toStub, m # k
      PROVE  \E i \in DOMAIN toStub' : From(i, k) = m
  <2>1. \A p \in 1 .. Len(toStub) : p # k => \E i \in 1 .. Len(toStub) - 1 : From(i, k) = p
    BY <1>3, FromProperties
  <2>. QED  BY <1>1, <1>3, <1>10, <2>1
<1>11. ASSUME Requested
      PROVE  Requested' \/ request \in missing'.request
  <2>1. PICK m \in DOMAIN toStub : RequestAt(m) /\ toStub[m].good
    BY <1>11 DEF Requested
  <2>2. CASE m = k
    BY <1>7, <2>1, <2>2 DEF RequestAt
  <2>3. CASE m # k
    <3>1. PICK i \in DOMAIN toStub' : From(i, k) = m
      BY <1>10, <2>3
    <3>. QED  BY <1>4, <2>1, <3>1 DEF RequestAt, Requested
  <2>. QED  BY <2>2, <2>3
<1>. USE <1>2, <1>4, <1>5, <1>6 DEF hostvars, stubvars, flags, SessionInv,
         AnswerAt, PlusAt, MinusAt, Heard, Takes, Clean
<1>12. ScalarsOK'
  BY <1>7 DEF ScalarsOK, Events
<1>13. LinesOK'
  BY <1>1 DEF LinesOK
<1>14. CountersOK'
  <2>1. host # "away"
    BY <1>3 DEF CountersOK
  <2>. QED  BY <2>1 DEF CountersOK
<1>15. OneOutstanding'
  BY DEF OneOutstanding
<1>16. Fresh'
  BY DEF Fresh
<1>17. NoAckOK'
  <2>1. \A i \in DOMAIN toHost' : Takes(i)' <=> Takes(i)
    OBVIOUS
  <2>. HIDE DEF Takes
  <2>. QED  BY <2>1 DEF NoAckOK
<1>18. LossesOK'
  BY <1>7, <1>11 DEF LossesOK, Promised
<1>19. RunningOK'
  BY DEF RunningOK, Running
<1>20. Orderly'
  BY DEF Orderly, InOrder
<1>21. StopsOK'
  <2>1. ASSUME NEW i \in DOMAIN toStub'
        PROVE  /\ toStub'[i].t = "break" => breaks' # 0
               /\ toStub'[i].t = "rest" => i = 1 /\ handler_mutex' /\ "resent" \in seen'
               /\ Clean /\ Running => toStub'[i].t \in {"break", "$"}
    <3>1. toStub'[i] = toStub[From(i, k)] /\ From(i, k) \in DOMAIN toStub
      OBVIOUS
    <3>2. From(i, k) = 1 => i = 1
      BY <1>8
    <3>. HIDE DEF Clean
    <3>. QED  BY <3>1, <3>2 DEF StopsOK
  <2>2. ASSUME NEW i \in DOMAIN toStub', NEW j \in DOMAIN toStub', RequestAt(i)', i < j
        PROVE  toStub'[j].t = "break" \/ (PlusUpAt(j)' /\ ~host_no_ack)
    <3>1. RequestAt(From(i, k)) /\ From(i, k) < From(j, k)
      BY <1>9, <2>2
    <3>2. toStub[From(j, k)].t = "break" \/ (PlusUpAt(From(j, k)) /\ ~host_no_ack)
      BY <3>1 DEF StopsOK
    <3>. QED  BY <3>2 DEF PlusUpAt
  <2>3. breaks' = breaks /\ handler_mutex' = handler_mutex /\ (Clean' <=> Clean) /\ (Running' <=> Running)
    BY DEF Running
  <2>4. was_interrupted' \/ at' = "checkpoint" => breaks' # 0 \/ ~Clean' \/ missing'.ack # {}
    BY <1>7 DEF StopsOK
  <2>. HIDE DEF Clean, RequestAt, PlusUpAt
  <2>. QED  BY <2>1, <2>2, <2>3, <2>4 DEF StopsOK
<1>. QED  BY <1>12, <1>13, <1>14, <1>15, <1>16, <1>17, <1>18, <1>20, <1>21, <1>19

\* A token to the debugger is lost.
LEMMA LoseToHostKeeps == SessionInv /\ LoseToHost => SessionInv'
<1>. SUFFICES ASSUME SessionInv, LoseToHost
              PROVE  SessionInv'
  OBVIOUS
<1>1. PICK k \in 1 .. Len(toHost) :
        /\ toHost' \in Seq(StubTokens)
        /\ Len(toHost') = Len(toHost) - 1 /\ DOMAIN toHost' = 1 .. Len(toHost) - 1
        /\ \A i \in 1 .. Len(toHost) - 1 :
             toHost'[i] = toHost[From(i, k)]
        /\ Hit
        /\ toHost[k].t = "$" => Missing("answer", toHost[k].n)
        /\ toHost[k].t = "+" => Missing("ack", toHost[k].n)
        /\ toHost[k].t = "-" => UNCHANGED missing
        /\ UNCHANGED <<toStub, seen>>
  BY LoseToHostFacts DEF SessionInv
<1>2. /\ faults' \in 0 .. MaxFaults
      /\ UNCHANGED <<hostvars, again, stubvars, toStub, seen>>
  BY <1>1, FaultCounted
<1>3. /\ Len(toHost) \in Nat /\ DOMAIN toHost = 1 .. Len(toHost)
      /\ \A i \in 1 .. Len(toHost) : toHost[i].t \in {"$", "+", "-"}
  BY LineFacts DEF SessionInv
<1>4. /\ missing' \in [{"request", "ack", "answer"} -> SUBSET (0 .. request)]
      /\ missing.request \subseteq missing'.request /\ missing.ack \subseteq missing'.ack
      /\ missing.answer \subseteq missing'.answer
      /\ PlusAt(k) => request \in missing'.ack
      /\ AnswerAt(k) => toHost[k].n \in missing'.answer
  <2>1. CASE toHost[k].t = "$"
    <3>1. toHost[k].n \in 0 .. request
      <4>1. toHost[k] \in StubTokens /\ toHost[k].n <= done
        BY <1>3, <2>1, LineFacts DEF SessionInv, CountersOK, AnswerAt
      <4>2. toHost[k].n \in Nat /\ done \in 0 .. request /\ request \in Nat
        BY <2>1, <4>1, StubTokenShapes, SessionAssumption DEF SessionInv, ScalarsOK
      <4>. QED  BY <4>1, <4>2
    <3>. QED  BY <1>1, <2>1, <3>1, MissingFacts DEF SessionInv, PlusAt
  <2>2. CASE toHost[k].t = "+"
    <3>1. toHost[k].n = request
      BY <1>3, <2>2 DEF SessionInv, CountersOK, PlusAt
    <3>2. request \in 0 .. request
      BY SessionAssumption DEF SessionInv, ScalarsOK
    <3>. QED  BY <1>1, <2>2, <3>1, <3>2, MissingFacts DEF SessionInv, AnswerAt
  <2>3. CASE toHost[k].t = "-"
    BY <1>1, <2>3 DEF SessionInv, ScalarsOK, PlusAt, AnswerAt
  <2>. QED  BY <1>3, <2>1, <2>2, <2>3
<1>5. ASSUME NEW i \in DOMAIN toHost'
      PROVE  From(i, k) \in DOMAIN toHost /\ toHost'[i] = toHost[From(i, k)]
  BY <1>1, <1>3, FromProperties
<1>6. ASSUME NEW i \in DOMAIN toHost', NEW j \in DOMAIN toHost'
      PROVE  From(i, k) < From(j, k) <=> i < j
  BY <1>1, <1>3, FromProperties
<1>7. ASSUME NEW i \in DOMAIN toHost', NEW j \in DOMAIN toHost', From(i, k) = From(j, k)
      PROVE  i = j
  <2>. DEFINE n == Len(toHost)
  <2>1. n \in Nat /\ k \in 1 .. n /\ DOMAIN toHost' = 1 .. n - 1
    BY <1>1, <1>3
  <2>. HIDE DEF n
  <2>2. \A p, q \in 1 .. n - 1 : From(p, k) = From(q, k) => p = q
    BY <2>1 DEF From
  <2>. QED  BY <1>7, <2>1, <2>2
<1>8. ASSUME NEW m \in DOMAIN toHost, m # k
      PROVE  \E i \in DOMAIN toHost' : From(i, k) = m
  <2>1. \A p \in 1 .. Len(toHost) : p # k => \E i \in 1 .. Len(toHost) - 1 : From(i, k) = p
    BY <1>3, FromProperties
  <2>. QED  BY <1>1, <1>3, <1>8, <2>1
<1>9. ASSUME NEW i \in DOMAIN toHost'
      PROVE  /\ AnswerAt(i)' <=> AnswerAt(From(i, k))
             /\ PlusAt(i)' <=> PlusAt(From(i, k))
             /\ MinusAt(i)' <=> MinusAt(From(i, k))
  BY <1>5 DEF AnswerAt, PlusAt, MinusAt
<1>10. Heard' => Heard
  BY <1>2, <1>5, <1>9 DEF Heard, hostvars
<1>11. ASSUME NEW i \in DOMAIN toHost', Takes(i)'
       PROVE  Takes(From(i, k))
  BY <1>2, <1>5, <1>6, <1>9, <1>11 DEF Takes, hostvars
<1>12. Clean' <=> Clean
  BY <1>2 DEF Clean
<1>. USE <1>2, <1>4, <1>5, <1>6, <1>7, <1>9, <1>10, <1>11, <1>12 DEF hostvars, stubvars, flags, SessionInv,
         RequestAt, PlusUpAt
<1>13. ScalarsOK'
  BY <1>4 DEF ScalarsOK
<1>14. LinesOK'
  BY <1>1 DEF LinesOK
<1>15. CountersOK'
  BY DEF CountersOK
<1>16. OneOutstanding'
  BY DEF OneOutstanding
<1>17. Fresh'
  BY DEF Fresh
<1>18. NoAckOK'
  BY DEF NoAckOK
<1>19. LossesOK'
  <2>1. (\E i \in DOMAIN toHost : PlusAt(i)) =>
           (\E i \in DOMAIN toHost' : PlusAt(i)') \/ request \in missing'.ack
    <3>1. SUFFICES ASSUME NEW m \in DOMAIN toHost, PlusAt(m)
                   PROVE  (\E i \in DOMAIN toHost' : PlusAt(i)') \/ request \in missing'.ack
      OBVIOUS
    <3>2. CASE m = k
      BY <3>1, <3>2
    <3>3. CASE m # k
      BY <1>8, <3>1, <3>3
    <3>. QED  BY <3>2, <3>3
  <2>2. Heard' /\ Promised => Promised' \/ request \in missing'.answer
    <3>1. SUFFICES ASSUME NEW m \in DOMAIN toHost, Takes(m), toHost[m].good, Heard'
                   PROVE  Promised' \/ request \in missing'.answer
      BY DEF Promised
    <3>2. CASE m = k
      BY <3>1, <3>2 DEF Takes, Fresh
    <3>3. CASE m # k
      <4>1. PICK i \in DOMAIN toHost' : From(i, k) = m
        BY <1>8, <3>3
      <4>2. AnswerAt(i)' /\ toHost'[i].good
        BY <3>1, <4>1 DEF Takes
      <4>3. CASE host = "answer"
        BY <4>2, <4>3 DEF Promised, Takes
      <4>4. CASE host # "answer"
        <5>1. PICK p \in DOMAIN toHost : PlusAt(p) /\ p < m
          BY <3>1, <4>4 DEF Takes
        <5>2. PICK q \in DOMAIN toHost' : PlusAt(q)'
          BY <3>1, <4>4 DEF Heard
        <5>3. PlusAt(From(q, k)) /\ From(q, k) \in DOMAIN toHost /\ ~AnswerAt(From(q, k)) /\ ~AnswerAt(p)
          BY <5>1, <5>2 DEF PlusAt, AnswerAt
        <5>4. From(q, k) = p
          BY <5>1, <5>3 DEF OneOutstanding
        <5>5. q < i
          BY <4>1, <5>1, <5>4
        <5>. QED  BY <4>2, <5>2, <5>5 DEF Promised, Takes
      <4>. QED  BY <4>3, <4>4
    <3>. QED  BY <3>2, <3>3
  <2>3. \A i \in DOMAIN toHost' : AnswerAt(i)' => toHost'[i].good \/ toHost'[i].n \in missing'.answer
    BY DEF LossesOK
  <2>4. Requested' <=> Requested
    BY DEF Requested
  <2>. QED  BY <2>1, <2>2, <2>3, <2>4 DEF LossesOK
<1>20. RunningOK'
  BY DEF RunningOK, Running
<1>21. Orderly'
  BY DEF Orderly, InOrder
<1>22. StopsOK'
  BY DEF StopsOK, Running
<1>. QED  BY <1>13, <1>14, <1>15, <1>16, <1>17, <1>18, <1>19, <1>21, <1>22, <1>20

\* A packet to the stub is damaged.
LEMMA DamageRequestKeeps == SessionInv /\ DamageRequest => SessionInv'
<1>. SUFFICES ASSUME SessionInv, DamageRequest
              PROVE  SessionInv'
  OBVIOUS
<1>1. PICK k \in DOMAIN toStub :
        /\ toStub' \in Seq(HostTokens)
        /\ Len(toStub') = Len(toStub) /\ DOMAIN toStub' = DOMAIN toStub
        /\ \A i \in DOMAIN toStub :
             /\ toStub'[i].t = toStub[i].t
             /\ toStub[i].t = "$" => toStub'[i].n = toStub[i].n /\ toStub'[i].kind = toStub[i].kind
             /\ i # k => toStub'[i] = toStub[i]
        /\ Hit
        /\ toStub[k].t = "$" /\ Missing("request", toStub[k].n)
        /\ UNCHANGED <<toHost, seen>>
  BY DamageRequestFacts, LineFacts DEF SessionInv
<1>2. /\ faults' \in 0 .. MaxFaults
      /\ UNCHANGED <<hostvars, again, stubvars, toHost, seen>>
  BY <1>1, FaultCounted
<1>3. (toStub = <<>> => toStub' = <<>>) /\ (toStub' = <<>> => toStub = <<>>)
  BY <1>1, Places DEF SessionInv, LinesOK
<1>4. /\ missing' \in [{"request", "ack", "answer"} -> SUBSET (0 .. request)]
      /\ missing.request \subseteq missing'.request /\ missing.ack \subseteq missing'.ack
      /\ missing.answer \subseteq missing'.answer
      /\ request \in missing'.request
  <2>1. toStub[k].n = request
    BY <1>1 DEF SessionInv, CountersOK, RequestAt
  <2>2. request \in 0 .. request
    BY SessionAssumption DEF SessionInv, ScalarsOK
  <2>. QED  BY <1>1, <2>1, <2>2, MissingFacts DEF SessionInv
<1>5. \A i \in DOMAIN toStub : /\ RequestAt(i)' <=> RequestAt(i)
                               /\ PlusUpAt(i)' <=> PlusUpAt(i)
  BY <1>1 DEF RequestAt, PlusUpAt
<1>. USE <1>2, <1>3, <1>4, <1>5 DEF hostvars, stubvars, flags, SessionInv,
         AnswerAt, PlusAt, MinusAt, Heard, Takes, Clean
<1>6. ScalarsOK'
  BY DEF ScalarsOK
<1>7. LinesOK'
  BY <1>1 DEF LinesOK
<1>8. CountersOK'
  BY <1>1 DEF CountersOK, RequestAt
<1>9. OneOutstanding'
  BY <1>1 DEF OneOutstanding
<1>10. Fresh'
  BY DEF Fresh
<1>11. NoAckOK'
  BY <1>1 DEF NoAckOK
<1>12. LossesOK'
  BY DEF LossesOK, Promised
<1>13. RunningOK'
  BY DEF RunningOK, Running
<1>14. Orderly'
  BY <1>1 DEF Orderly, InOrder
<1>15. StopsOK'
  BY <1>1 DEF StopsOK, Running
<1>. QED  BY <1>6, <1>7, <1>8, <1>9, <1>10, <1>11, <1>12, <1>13, <1>14, <1>15

\* A packet to the debugger is damaged.
LEMMA DamageAnswerKeeps == SessionInv /\ DamageAnswer => SessionInv'
<1>. SUFFICES ASSUME SessionInv, DamageAnswer
              PROVE  SessionInv'
  OBVIOUS
<1>1. PICK k \in DOMAIN toHost :
        /\ toHost' \in Seq(StubTokens) /\ DOMAIN toHost' = DOMAIN toHost
        /\ \A i \in DOMAIN toHost :
             /\ toHost'[i].t = toHost[i].t
             /\ toHost[i].t # "-" => toHost'[i].n = toHost[i].n
             /\ i # k => toHost'[i] = toHost[i]
        /\ Hit
        /\ toHost[k].t = "$" /\ Missing("answer", toHost[k].n)
        /\ UNCHANGED <<toStub, seen>>
  BY DamageAnswerFacts, LineFacts DEF SessionInv
<1>2. /\ faults' \in 0 .. MaxFaults
      /\ UNCHANGED <<hostvars, again, stubvars, toStub, seen>>
  BY <1>1, FaultCounted
<1>3. /\ missing' \in [{"request", "ack", "answer"} -> SUBSET (0 .. request)]
      /\ missing.request \subseteq missing'.request /\ missing.ack \subseteq missing'.ack
      /\ missing.answer \subseteq missing'.answer
      /\ toHost[k].n \in missing'.answer
  <2>1. toHost[k] \in StubTokens /\ toHost[k].n <= done
    BY <1>1, LineFacts DEF SessionInv, CountersOK, AnswerAt
  <2>2. toHost[k].n \in Nat /\ done \in 0 .. request /\ request \in Nat
    BY <1>1, <2>1, StubTokenShapes, SessionAssumption DEF SessionInv, ScalarsOK
  <2>3. toHost[k].n \in 0 .. request
    BY <2>1, <2>2
  <2>. QED  BY <1>1, <2>3, MissingFacts DEF SessionInv
<1>4. \A i \in DOMAIN toHost : /\ AnswerAt(i)' <=> AnswerAt(i)
                               /\ PlusAt(i)' <=> PlusAt(i)
                               /\ MinusAt(i)' <=> MinusAt(i)
  BY <1>1 DEF AnswerAt, PlusAt, MinusAt
<1>5. DOMAIN toHost' = DOMAIN toHost
  BY <1>1
<1>6. (Heard' <=> Heard) /\ \A i \in DOMAIN toHost : Takes(i)' <=> Takes(i)
  BY <1>2, <1>4, <1>5 DEF hostvars, Heard, Takes, AnswerAt
<1>. USE <1>2, <1>3, <1>4, <1>5, <1>6 DEF hostvars, stubvars, flags, SessionInv,
         RequestAt, PlusUpAt, Clean
<1>7. ScalarsOK'
  BY DEF ScalarsOK
<1>8. LinesOK'
  BY <1>1 DEF LinesOK
<1>9. CountersOK'
  BY <1>1 DEF CountersOK, AnswerAt, PlusAt
<1>10. OneOutstanding'
  BY DEF OneOutstanding
<1>11. Fresh'
  BY <1>1 DEF Fresh, Takes, AnswerAt
<1>12. NoAckOK'
  BY DEF NoAckOK
<1>13. LossesOK'
  <2>1. \A i \in DOMAIN toHost' : AnswerAt(i)' => toHost'[i].good \/ toHost'[i].n \in missing'.answer
    BY <1>1 DEF LossesOK, AnswerAt
  <2>2. Heard /\ Promised => Promised' \/ request \in missing'.answer
    <3>. SUFFICES ASSUME NEW i \in DOMAIN toHost, Takes(i), toHost[i].good
                  PROVE  Promised' \/ request \in missing'.answer
      BY DEF Promised
    <3>1. CASE i = k
      BY <3>1 DEF Fresh
    <3>2. CASE i # k
      BY <1>1, <3>2 DEF Promised
    <3>. QED  BY <3>1, <3>2
  <2>3. Requested' <=> Requested
    BY DEF Requested
  <2>. QED  BY <2>1, <2>2, <2>3 DEF LossesOK
<1>14. RunningOK'
  BY DEF RunningOK, Running
<1>15. Orderly'
  BY DEF Orderly, InOrder
<1>16. StopsOK'
  BY DEF StopsOK, Running
<1>. QED  BY <1>7, <1>8, <1>9, <1>10, <1>11, <1>12, <1>13, <1>14, <1>15, <1>16

-----------------------------------------------------------------------------
(***************************************************************************)
(* The stub.                                                               *)
(***************************************************************************)
\* The answer to the last request is sent.
LEMMA WritePacketKeeps == SessionInv /\ WritePacket => SessionInv'
<1>. SUFFICES ASSUME SessionInv, WritePacket
              PROVE  SessionInv'
  OBVIOUS
<1>1. /\ at = "write" /\ at' = IF no_ack_mode THEN "read" ELSE "await"
      /\ toHost' = toHost \o <<Packet("answer", done, TRUE)>>
      /\ UNCHANGED <<hostvars, toStub, history, flags, done>>
  BY DEF WritePacket, ToHost
<1>2. PICK packet \in StubTokens :
        /\ packet.t = "$" /\ packet.n = done /\ packet.good = TRUE
        /\ toHost' = toHost \o <<packet>>
  <2>1. done \in 0 .. MaxRequests
    BY SessionAssumption DEF SessionInv, ScalarsOK
  <2>2. Packet("answer", done, TRUE) \in StubTokens
    BY <2>1, GoodPackets
  <2>3. /\ Packet("answer", done, TRUE).t = "$" /\ Packet("answer", done, TRUE).n = done
        /\ Packet("answer", done, TRUE).good = TRUE
    BY GoodPackets, Zenon
  <2>. QED  BY <1>1, <2>2, <2>3
<1>3. /\ toHost' \in Seq(StubTokens) /\ Len(toHost) \in Nat /\ DOMAIN toHost = 1 .. Len(toHost)
      /\ DOMAIN toHost' = 1 .. Len(toHost) + 1
      /\ \A i \in 1 .. Len(toHost) : toHost'[i] = toHost[i]
      /\ toHost'[Len(toHost) + 1] = packet
      /\ \A i \in 1 .. Len(toHost) : toHost[i].t \in {"$", "+", "-"}
  BY <1>2, StubSends, LineFacts DEF SessionInv
<1>4. PICK last \in Nat : last = Len(toHost) + 1
  BY <1>3
<1>5. /\ last \in DOMAIN toHost' /\ last \notin DOMAIN toHost
      /\ \A i \in DOMAIN toHost' : i = last \/ (i \in DOMAIN toHost /\ toHost'[i] = toHost[i])
      /\ \A i \in DOMAIN toHost : i \in DOMAIN toHost' /\ toHost'[i] = toHost[i] /\ i < last
  BY <1>3, <1>4
<1>6. toHost'[last] = packet
  BY <1>3, <1>4
<1>7. toHost'[last].t = "$" /\ toHost'[last].n = done
  BY <1>2, <1>6
<1>8. toHost'[last].good
  BY <1>2, <1>6, Zenon
<1>9. /\ \A i \in DOMAIN toHost : /\ AnswerAt(i)' <=> AnswerAt(i)
                                  /\ PlusAt(i)' <=> PlusAt(i)
                                  /\ MinusAt(i)' <=> MinusAt(i)
      /\ AnswerAt(last)' /\ ~PlusAt(last)' /\ ~MinusAt(last)'
  BY <1>5, <1>7 DEF AnswerAt, PlusAt, MinusAt
<1>10. Heard' <=> Heard
  BY <1>1, <1>5, <1>9 DEF Heard, hostvars
<1>11. \A i \in DOMAIN toHost : Takes(i)' <=> Takes(i)
  <2>. SUFFICES ASSUME NEW i \in DOMAIN toHost
                PROVE  Takes(i)' <=> Takes(i)
    OBVIOUS
  <2>1. AnswerAt(i)' <=> AnswerAt(i)
    BY <1>9
  <2>2. (\E m \in DOMAIN toHost' : PlusAt(m)' /\ m < i) <=> (\E m \in DOMAIN toHost : PlusAt(m) /\ m < i)
    BY <1>5, <1>9
  <2>. QED  BY <1>1, <2>1, <2>2 DEF Takes, hostvars
<1>12. Takes(last)' <=> Heard
  BY <1>1, <1>5, <1>9 DEF Heard, Takes, hostvars
<1>13. \A i \in DOMAIN toHost : ~MinusAt(i)
  BY <1>1 DEF SessionInv, OneOutstanding
<1>14. Heard => done = request
  BY <1>1 DEF SessionInv, Fresh, NoAckOK
<1>15. \A i \in DOMAIN toStub : RequestAt(i)' <=> RequestAt(i)
  BY <1>1 DEF RequestAt
<1>16. \A i \in DOMAIN toStub : PlusUpAt(i)' <=> PlusUpAt(i)
  BY <1>1 DEF PlusUpAt
<1>. USE <1>1, <1>5, <1>9, <1>15 DEF hostvars, history, flags, SessionInv
<1>. HIDE DEF LinesOK
<1>17. ScalarsOK'
  BY DEF ScalarsOK
<1>18. LinesOK'
  BY <1>3 DEF LinesOK
<1>19. CountersOK'
  <2>1. \A i \in DOMAIN toHost' : AnswerAt(i)' => toHost'[i].n <= done
    <3>1. \A i \in DOMAIN toHost : AnswerAt(i) => toHost[i].n <= done
      BY DEF CountersOK
    <3>2. done <= done
      BY DEF ScalarsOK
    <3>. QED  BY <1>7, <3>1, <3>2
  <2>2. host = "away" => toStub = <<>> /\ ~no_ack_mode
    BY DEF CountersOK
  <2>3. \A i \in DOMAIN toStub : RequestAt(i) => toStub[i].n = request /\ toStub[i].kind = kind
    BY DEF CountersOK
  <2>4. \A i \in DOMAIN toHost' : PlusAt(i)' => toHost'[i].n = request
    BY DEF CountersOK
  <2>. QED  BY <2>1, <2>2, <2>3, <2>4 DEF CountersOK
<1>20. OneOutstanding'
  <2>1. \A i \in DOMAIN toHost' : (PlusAt(i) \/ MinusAt(i))' => host = "ack"
    BY DEF OneOutstanding
  <2>2. \A i \in DOMAIN toHost' : ~MinusAt(i)'
    BY <1>13
  <2>3. \A i, j \in DOMAIN toHost' : ~AnswerAt(i)' /\ ~AnswerAt(j)' => i = j
    BY DEF OneOutstanding
  <2>4. \A i \in DOMAIN toStub, j \in DOMAIN toHost' : RequestAt(i) => AnswerAt(j)'
    BY DEF OneOutstanding
  <2>. QED  BY <2>1, <2>2, <2>3, <2>4 DEF OneOutstanding
<1>21. Fresh'
  <2>1. \A j \in DOMAIN toHost' : Takes(j)' => toHost'[j].n = request
    BY <1>7, <1>11, <1>12, <1>14 DEF Fresh
  <2>. QED  BY <1>10, <1>14, <2>1 DEF Fresh
<1>22. NoAckOK'
  <2>1. no_ack_mode => \A i \in DOMAIN toHost : ~Takes(i)
    BY DEF NoAckOK
  <2>2. no_ack_mode => \A i, j \in DOMAIN toHost' : Takes(i)' /\ Takes(j)' => i = j
    BY <1>11, <2>1
  <2>3. host_no_ack => host # "idle" /\ done = request /\ no_ack_mode
    BY DEF NoAckOK
  <2>4. host_no_ack => host = "answer"
    BY <2>3 DEF ScalarsOK, CountersOK, OneOutstanding
  <2>5. host_no_ack => \A i \in DOMAIN toStub : ~RequestAt(i)
    BY DEF NoAckOK
  <2>6. no_ack_mode /\ ~host_no_ack => kind = "noack" /\ done = request /\ host \in {"ack", "answer"}
    BY DEF NoAckOK
  <2>7. kind = "noack" /\ done = request => no_ack_mode
    BY DEF NoAckOK
  <2>. QED  BY <2>2, <2>3, <2>4, <2>5, <2>6, <2>7 DEF NoAckOK
<1>23. LossesOK'
  <2>1. Heard => Promised'
    BY <1>8, <1>12 DEF Promised
  <2>2. \A i \in DOMAIN toHost' : AnswerAt(i)' => toHost'[i].good \/ toHost'[i].n \in missing.answer
    BY <1>8 DEF LossesOK
  <2>3. host = "ack" /\ done = request =>
          (\E i \in DOMAIN toHost' : PlusAt(i)') \/ request \in missing.ack
    BY DEF LossesOK
  <2>4. host = "answer" /\ done # request => Requested' \/ request \in missing.request
    BY DEF LossesOK, Requested
  <2>5. again \subseteq missing.ack
    BY DEF LossesOK
  <2>. QED  BY <1>10, <2>1, <2>2, <2>3, <2>4, <2>5 DEF LossesOK
<1>24. RunningOK'
  BY DEF RunningOK, Running
<1>25. Orderly'
  <2>. SUFFICES ASSUME Clean, ~no_ack_mode
                PROVE  InOrder'
    BY DEF Orderly, Clean
  <2>1. /\ \A i \in DOMAIN toStub : ~PlusUpAt(i)
        /\ \A i \in DOMAIN toHost : ~AnswerAt(i)
        /\ host # "idle" /\ done = request
    BY DEF Orderly, InOrder
  <2>2. at' = "await" /\ UNCHANGED <<host, toStub>>
    OBVIOUS
  <2>3. \A i \in DOMAIN toHost' : AnswerAt(i)' <=> i = last
    BY <2>1
  <2>4. \A i \in DOMAIN toHost' : PlusAt(i)' => i < last
    OBVIOUS
  <2>. QED  BY <1>16, <2>1, <2>2, <2>3, <2>4 DEF InOrder
<1>26. StopsOK'
  <2>1. \A i, j \in DOMAIN toStub :
          RequestAt(i) /\ i < j => toStub[j].t = "break" \/ (PlusUpAt(j) /\ ~host_no_ack)
    BY DEF StopsOK
  <2>. QED  BY <1>16, <2>1 DEF StopsOK, Clean, Running
<1>. QED  BY <1>17, <1>18, <1>19, <1>20, <1>21, <1>22, <1>23, <1>24, <1>25, <1>26

\* The tokens that are left when the stub has taken the first one.
LEMMA RestFollows ==
  ASSUME LinesOK, toStub # <<>>, toStub' = Tail(toStub)
  PROVE  /\ toStub' \in Seq(HostTokens)
         /\ 1 \in DOMAIN toStub /\ toStub[1] \in HostTokens
         /\ \A i \in DOMAIN toStub' :
              /\ i \in Nat /\ i + 1 \in DOMAIN toStub /\ i + 1 # 1
              /\ toStub'[i] = toStub[i + 1]
              /\ RequestAt(i)' <=> RequestAt(i + 1)
              /\ PlusUpAt(i)' <=> PlusUpAt(i + 1)
              /\ i + 1 = Len(toStub) => i = Len(toStub')
<1>1. /\ toStub' \in Seq(HostTokens) /\ toStub[1] \in HostTokens /\ Len(toStub) >= 1
      /\ Len(toStub') = Len(toStub) - 1 /\ DOMAIN toStub' = 1 .. Len(toStub) - 1
      /\ \A i \in 1 .. Len(toStub) - 1 : toStub'[i] = toStub[i + 1]
  BY StubTakes
<1>2. Len(toStub) \in Nat /\ DOMAIN toStub = 1 .. Len(toStub)
  BY LineFacts
<1>3. ASSUME NEW i \in DOMAIN toStub'
      PROVE  /\ i \in Nat /\ i + 1 \in DOMAIN toStub /\ i + 1 # 1
             /\ toStub'[i] = toStub[i + 1]
             /\ i + 1 = Len(toStub) => i = Len(toStub')
  BY <1>1, <1>2
<1>4. ASSUME NEW i \in DOMAIN toStub'
      PROVE  (RequestAt(i)' <=> RequestAt(i + 1)) /\ (PlusUpAt(i)' <=> PlusUpAt(i + 1))
  BY <1>3 DEF RequestAt, PlusUpAt
<1>. QED  BY <1>1, <1>2, <1>3, <1>4

\* And none is lost but the first.
LEMMA FollowersStay ==
  ASSUME LinesOK, toStub # <<>>, toStub' = Tail(toStub), NEW i \in DOMAIN toStub, i # 1
  PROVE  \E j \in DOMAIN toStub' : j + 1 = i
<1>1. Len(toStub) \in Nat /\ i \in 1 .. Len(toStub) /\ DOMAIN toStub' = 1 .. Len(toStub) - 1
  BY StubTakes, LineFacts
<1>2. i - 1 \in DOMAIN toStub' /\ (i - 1) + 1 = i
  BY <1>1
<1>. QED  BY <1>2

\* The last packet is to be sent again.  Of the line to the stub at most the first token
\* is gone (then d is 1), the rest of a packet may have its place, and no request has come;
\* what the session owes to a stub that sends nothing twice is no longer due.
LEMMA SentAgain ==
  ASSUME SessionInv, NEW d \in {0, 1},
         at = "await", at' = "write", seen' = seen \cup {"resent"},
         UNCHANGED <<hostvars, toHost, faults, missing, again, flags, done>>,
         toStub' \in Seq(HostTokens), host = "away" => toStub' = <<>>,
         \A i \in DOMAIN toStub' :
           \/ i + d \in DOMAIN toStub /\ toStub'[i] = toStub[i + d] /\ i + d # 1
           \/ i = 1 /\ toStub'[i].t = "rest"
  PROVE  SessionInv'
<1>1. UNCHANGED <<host, host_no_ack, kind, request, answer, breaks>>
  BY DEF hostvars
<1>2. UNCHANGED <<handler_mutex, no_ack_mode, was_interrupted>>
  BY DEF flags
<1>3. \A i \in DOMAIN toStub' : i \in Nat
  BY Places
<1>4. \A i \in DOMAIN toStub' :
        /\ RequestAt(i)' => RequestAt(i + d) /\ toStub'[i] = toStub[i + d] /\ i + d # 1
        /\ i + d \in DOMAIN toStub /\ toStub'[i] = toStub[i + d] => (PlusUpAt(i)' <=> PlusUpAt(i + d))
  BY DEF RequestAt, PlusUpAt
<1>5. \A i \in DOMAIN toHost : /\ AnswerAt(i)' <=> AnswerAt(i)
                               /\ PlusAt(i)' <=> PlusAt(i)
                               /\ MinusAt(i)' <=> MinusAt(i)
  BY DEF AnswerAt, PlusAt, MinusAt
<1>6. (Heard' <=> Heard) /\ \A i \in DOMAIN toHost : Takes(i)' <=> Takes(i)
  BY <1>1, <1>5 DEF Heard, Takes, AnswerAt
<1>7. ~no_ack_mode /\ ~host_no_ack /\ \A i \in DOMAIN toHost : ~MinusAt(i)
  BY DEF SessionInv, NoAckOK, OneOutstanding
<1>. USE <1>1, <1>2, <1>4, <1>5, <1>7
<1>8. ScalarsOK'
  <2>1. seen' \subseteq Events
    BY DEF SessionInv, ScalarsOK, Events
  <2>. QED  BY <2>1 DEF SessionInv, ScalarsOK
<1>9. LinesOK'
  BY DEF SessionInv, LinesOK
<1>10. CountersOK'
  <2>1. \A i \in DOMAIN toStub' : RequestAt(i)' => toStub'[i].n = request /\ toStub'[i].kind = kind
    BY DEF SessionInv, CountersOK, RequestAt
  <2>2. \A i \in DOMAIN toHost : /\ AnswerAt(i) => toHost[i].n <= done
                               /\ PlusAt(i) => toHost[i].n = request
    BY DEF SessionInv, CountersOK
  <2>. QED  BY <2>1, <2>2 DEF SessionInv, CountersOK
<1>11. OneOutstanding'
  <2>1. \A i \in DOMAIN toStub' : RequestAt(i)' => host = "ack"
    BY DEF SessionInv, OneOutstanding, RequestAt
  <2>2. \A i, j \in DOMAIN toStub' : RequestAt(i)' /\ RequestAt(j)' => i = j
    <3>. SUFFICES ASSUME NEW i \in DOMAIN toStub', NEW j \in DOMAIN toStub', RequestAt(i)', RequestAt(j)'
                  PROVE  i = j
      OBVIOUS
    <3>1. i + d = j + d
      BY DEF SessionInv, OneOutstanding, RequestAt
    <3>. QED  BY <1>3, <3>1
  <2>3. \A i \in DOMAIN toStub', j \in DOMAIN toHost : RequestAt(i)' => AnswerAt(j)
    BY DEF SessionInv, OneOutstanding, RequestAt
  <2>4. \A i, j \in DOMAIN toHost : ~AnswerAt(i) /\ ~AnswerAt(j) => i = j
    BY DEF SessionInv, OneOutstanding
  <2>5. \A i \in DOMAIN toHost : PlusAt(i) => host = "ack"
    BY DEF SessionInv, OneOutstanding
  <2>. QED  BY <2>1, <2>2, <2>3, <2>4, <2>5 DEF OneOutstanding
<1>12. Fresh'
  BY <1>6 DEF SessionInv, Fresh
<1>13. NoAckOK'
  BY DEF SessionInv, NoAckOK
<1>14. LossesOK'
  <2>1. host = "ack" /\ done = request =>
          (\E i \in DOMAIN toHost : PlusAt(i)) \/ request \in missing.ack
    BY DEF SessionInv, LossesOK
  <2>2. \A i \in DOMAIN toHost : AnswerAt(i) => toHost[i].good \/ toHost[i].n \in missing.answer
    BY DEF SessionInv, LossesOK
  <2>3. again \subseteq missing.ack
    BY DEF SessionInv, LossesOK
  <2>4. host = "answer" => done = request
    BY DEF SessionInv, Fresh, Heard
  <2>. QED  BY <2>1, <2>2, <2>3, <2>4 DEF LossesOK
<1>15. RunningOK'
  BY DEF RunningOK, Running
<1>16. ~Clean' /\ "resent" \in seen'
  BY DEF Clean
<1>17. StopsOK'
  <2>1. ASSUME NEW i \in DOMAIN toStub'
        PROVE  /\ toStub'[i].t = "break" => breaks # 0
               /\ toStub'[i].t = "rest" => i = 1 /\ handler_mutex
    <3>1. CASE i + d \in DOMAIN toStub /\ toStub'[i] = toStub[i + d] /\ i + d # 1
      BY <3>1 DEF SessionInv, StopsOK
    <3>2. CASE i = 1 /\ toStub'[i].t = "rest"
      BY <3>2 DEF SessionInv, ScalarsOK
    <3>. QED  BY <3>1, <3>2
  <2>2. ASSUME NEW i \in DOMAIN toStub', NEW j \in DOMAIN toStub', RequestAt(i)', i < j
        PROVE  toStub'[j].t = "break" \/ (PlusUpAt(j)' /\ ~host_no_ack)
    <3>1. j + d \in DOMAIN toStub /\ toStub'[j] = toStub[j + d]
      <4>1. i \in Nat /\ j \in Nat /\ i # 0
        BY <1>3, Places
      <4>. QED  BY <2>2, <4>1
    <3>2. RequestAt(i + d) /\ i + d < j + d /\ i + d \in DOMAIN toStub
      BY <1>3, <2>2 DEF RequestAt
    <3>3. toStub[j + d].t = "break" \/ (PlusUpAt(j + d) /\ ~host_no_ack)
      BY <3>1, <3>2 DEF SessionInv, StopsOK
    <3>. QED  BY <3>1, <3>3
  <2>. QED  BY <1>16, <2>1, <2>2 DEF StopsOK
<1>. QED  BY <1>8, <1>9, <1>10, <1>11, <1>12, <1>13, <1>14, <1>15, <1>16, <1>17 DEF SessionInv, Orderly

\* The byte after the checksum comes.
LEMMA AwaitAckKeeps == SessionInv /\ AwaitAck => SessionInv'
<1>. SUFFICES ASSUME SessionInv, AwaitAck
              PROVE  SessionInv'
  OBVIOUS
<1>1. /\ at = "await" /\ toStub # <<>>
      /\ UNCHANGED <<hostvars, toHost, faults, missing, again, flags, done>>
      /\ \/ /\ toStub[1].t = "+" /\ toStub' = Tail(toStub) /\ at' = "read" /\ seen' = seen
         \/ /\ toStub[1].t # "+" /\ toStub[1].t # "$" /\ toStub' = Tail(toStub)
            /\ at' = "write" /\ seen' = seen \cup {"resent"}
         \/ /\ toStub[1].t = "$" \/ toStub[1].t = "rest"
            /\ \E left \in 1 .. MaxRest : toStub' = <<Rest(left)>> \o Tail(toStub)
            /\ \/ at' = "write" /\ seen' = seen \cup {"resent"}
               \/ at' = "read" /\ seen' = seen /\ toStub[1].t = "rest"
  BY AwaitAckFacts DEF SessionInv
<1>2. host # "away"
  BY <1>1 DEF SessionInv, CountersOK
<1>3. CASE toStub[1].t # "+" /\ toStub[1].t # "$" /\ toStub' = Tail(toStub)
            /\ at' = "write" /\ seen' = seen \cup {"resent"}
  <2>1. /\ toStub' \in Seq(HostTokens)
        /\ \A i \in DOMAIN toStub' : i + 1 \in DOMAIN toStub /\ toStub'[i] = toStub[i + 1] /\ i + 1 # 1
    BY <1>1, <1>3, RestFollows DEF SessionInv
  <2>. QED  BY <1>1, <1>2, <1>3, <2>1, SentAgain
<1>4. ASSUME NEW left \in 1 .. MaxRest, toStub' = <<Rest(left)>> \o Tail(toStub)
      PROVE  /\ toStub' \in Seq(HostTokens) /\ DOMAIN toStub' = DOMAIN toStub
             /\ toStub'[1].t = "rest"
             /\ \A i \in DOMAIN toStub' : i \in Nat /\ (i # 1 => toStub'[i] = toStub[i])
  <2>1. /\ toStub' \in Seq(HostTokens) /\ DOMAIN toStub' = 1 .. Len(toStub)
        /\ toStub'[1].t = "rest" /\ \A i \in 2 .. Len(toStub) : toStub'[i] = toStub[i]
    BY <1>1, <1>4, RestStays DEF SessionInv
  <2>2. Len(toStub) \in Nat /\ DOMAIN toStub = 1 .. Len(toStub)
    BY LineFacts DEF SessionInv
  <2>. QED  BY <2>1, <2>2
<1>5. CASE /\ \E left \in 1 .. MaxRest : toStub' = <<Rest(left)>> \o Tail(toStub)
           /\ at' = "write" /\ seen' = seen \cup {"resent"}
  <2>1. /\ toStub' \in Seq(HostTokens) /\ DOMAIN toStub' = DOMAIN toStub
        /\ toStub'[1].t = "rest"
        /\ \A i \in DOMAIN toStub' : i \in Nat /\ (i # 1 => toStub'[i] = toStub[i])
    BY <1>5, <1>4
  <2>2. ASSUME NEW i \in DOMAIN toStub'
        PROVE  \/ i + 0 \in DOMAIN toStub /\ toStub'[i] = toStub[i + 0] /\ i + 0 # 1
               \/ i = 1 /\ toStub'[i].t = "rest"
    <3>1. i \in Nat /\ i + 0 = i
      BY <2>1
    <3>. QED  BY <2>1, <3>1
  <2>. QED  BY <1>1, <1>2, <1>5, <2>1, <2>2, SentAgain
<1>6. CASE /\ \E left \in 1 .. MaxRest : toStub' = <<Rest(left)>> \o Tail(toStub)
           /\ at' = "read" /\ seen' = seen /\ toStub[1].t = "rest"
  <2>1. /\ toStub' \in Seq(HostTokens) /\ DOMAIN toStub' = DOMAIN toStub
        /\ toStub'[1].t = "rest"
        /\ \A i \in DOMAIN toStub' : i \in Nat /\ (i # 1 => toStub'[i] = toStub[i])
    BY <1>6, <1>4
  <2>2. 1 \in DOMAIN toStub
    BY <1>1, Places DEF SessionInv, LinesOK
  <2>3. UNCHANGED <<host, host_no_ack, kind, request, answer, breaks, handler_mutex, no_ack_mode,
                    was_interrupted, done, faults, missing, again, toHost, seen>>
    BY <1>1, <1>6 DEF hostvars, flags
  <2>4. \A i \in DOMAIN toStub' : /\ toStub'[i].t = toStub[i].t
                                  /\ RequestAt(i)' => toStub'[i] = toStub[i]
                                  /\ RequestAt(i)' <=> RequestAt(i)
                                  /\ PlusUpAt(i)' <=> PlusUpAt(i)
    BY <1>6, <2>1 DEF RequestAt, PlusUpAt
  <2>5. \A i \in DOMAIN toHost : /\ AnswerAt(i)' <=> AnswerAt(i)
                                 /\ PlusAt(i)' <=> PlusAt(i)
                                 /\ MinusAt(i)' <=> MinusAt(i)
    BY <2>3 DEF AnswerAt, PlusAt, MinusAt
  <2>6. (Heard' <=> Heard) /\ \A i \in DOMAIN toHost : Takes(i)' <=> Takes(i)
    BY <2>3, <2>5 DEF Heard, Takes, AnswerAt
  <2>7. ~no_ack_mode /\ ~host_no_ack
    BY <1>1 DEF SessionInv, NoAckOK
  <2>8. "resent" \in seen
    BY <1>6, <2>2 DEF SessionInv, StopsOK
  <2>. USE <1>1, <1>2, <1>6, <2>1, <2>3, <2>4, <2>5, <2>7
  <2>9. ScalarsOK'
    BY DEF SessionInv, ScalarsOK
  <2>10. LinesOK'
    BY DEF SessionInv, LinesOK
  <2>11. CountersOK'
    <3>1. \A i \in DOMAIN toStub' : RequestAt(i)' => toStub'[i].n = request /\ toStub'[i].kind = kind
      BY DEF SessionInv, CountersOK
    <3>. QED  BY <3>1 DEF SessionInv, CountersOK
  <2>12. OneOutstanding'
    BY DEF SessionInv, OneOutstanding
  <2>13. Fresh'
    BY <2>6 DEF SessionInv, Fresh
  <2>14. NoAckOK'
    BY DEF SessionInv, NoAckOK
  <2>15. LossesOK'
    <3>1. Promised' <=> Promised
      BY <2>6 DEF Promised
    <3>2. Requested' <=> Requested
      BY DEF Requested
    <3>. QED  BY <2>6, <3>1, <3>2 DEF SessionInv, LossesOK
  <2>16. RunningOK'
    BY DEF RunningOK, Running
  <2>17. Orderly'
    BY <2>8 DEF Orderly, Clean
  <2>18. StopsOK'
    BY <2>8 DEF SessionInv, StopsOK, Clean, ScalarsOK
  <2>. QED  BY <2>9, <2>10, <2>11, <2>12, <2>13, <2>14, <2>15, <2>16, <2>17, <2>18 DEF SessionInv
<1>7. CASE toStub[1].t = "+" /\ toStub' = Tail(toStub) /\ at' = "read" /\ seen' = seen
  <2>1. /\ toStub' \in Seq(HostTokens)
        /\ 1 \in DOMAIN toStub
        /\ \A i \in DOMAIN toStub' :
              /\ i \in Nat /\ i + 1 \in DOMAIN toStub /\ i + 1 # 1
              /\ toStub'[i] = toStub[i + 1]
              /\ RequestAt(i)' <=> RequestAt(i + 1)
              /\ PlusUpAt(i)' <=> PlusUpAt(i + 1)
              /\ i + 1 = Len(toStub) => i = Len(toStub')
    BY <1>1, <1>7, RestFollows DEF SessionInv
  <2>2. UNCHANGED <<host, host_no_ack, kind, request, answer, breaks, handler_mutex, no_ack_mode,
                    was_interrupted, done, faults, missing, again, toHost, seen>>
    BY <1>1, <1>7 DEF hostvars, flags
  <2>3. \A i \in DOMAIN toHost : /\ AnswerAt(i)' <=> AnswerAt(i)
                                 /\ PlusAt(i)' <=> PlusAt(i)
                                 /\ MinusAt(i)' <=> MinusAt(i)
    BY <2>2 DEF AnswerAt, PlusAt, MinusAt
  <2>4. (Heard' <=> Heard) /\ \A i \in DOMAIN toHost : Takes(i)' <=> Takes(i)
    BY <2>2, <2>3 DEF Heard, Takes, AnswerAt
  <2>5. ~no_ack_mode /\ ~host_no_ack /\ \A i \in DOMAIN toHost : ~MinusAt(i)
    BY <1>1 DEF SessionInv, NoAckOK, OneOutstanding
  <2>6. PlusUpAt(1)
    BY <1>7, <2>1 DEF PlusUpAt
  <2>. USE <1>1, <1>2, <1>7, <2>1, <2>2, <2>3, <2>5
  <2>7. ScalarsOK'
    BY DEF SessionInv, ScalarsOK
  <2>8. LinesOK'
    BY DEF SessionInv, LinesOK
  <2>9. CountersOK'
    <3>1. \A i \in DOMAIN toStub' : RequestAt(i)' => toStub'[i].n = request /\ toStub'[i].kind = kind
      BY DEF SessionInv, CountersOK
    <3>. QED  BY <3>1 DEF SessionInv, CountersOK
  <2>10. OneOutstanding'
    <3>1. \A i \in DOMAIN toStub' : RequestAt(i)' => host = "ack" \/ (host = "answer" /\ host_no_ack)
      BY DEF SessionInv, OneOutstanding
    <3>2. \A i, j \in DOMAIN toStub' : RequestAt(i)' /\ RequestAt(j)' => i = j
      BY DEF SessionInv, OneOutstanding
    <3>3. \A i \in DOMAIN toStub', j \in DOMAIN toHost : RequestAt(i)' => AnswerAt(j)
      BY DEF SessionInv, OneOutstanding
    <3>. QED  BY <3>1, <3>2, <3>3 DEF SessionInv, OneOutstanding
  <2>11. Fresh'
    BY <2>4 DEF SessionInv, Fresh
  <2>12. NoAckOK'
    BY DEF SessionInv, NoAckOK
  <2>13. LossesOK'
    <3>1. Promised' <=> Promised
      BY <2>4 DEF Promised
    <3>2. host = "answer" => done = request
      BY DEF SessionInv, Fresh, Heard
    <3>. QED  BY <2>4, <3>1, <3>2 DEF SessionInv, LossesOK
  <2>16. RunningOK'
    BY DEF RunningOK, Running
  <2>14. Orderly'
    <3>. SUFFICES ASSUME Clean
                  PROVE  InOrder'
      BY DEF Orderly, Clean
    <3>1. /\ host \in {"idle", "ack"} /\ DOMAIN toHost = {}
          /\ \A i \in DOMAIN toStub' : ~PlusUpAt(i)'
      BY <2>6 DEF SessionInv, Orderly, InOrder
    <3>. QED  BY <3>1 DEF InOrder
  <2>15. StopsOK'
    <3>1. \A i, j \in DOMAIN toStub' : RequestAt(i)' /\ i < j =>
            toStub'[j].t = "break" \/ (PlusUpAt(j)' /\ ~host_no_ack)
      BY DEF SessionInv, StopsOK
    <3>2. \A i \in DOMAIN toStub' : /\ toStub'[i].t # "rest"
                                    /\ toStub'[i].t = "break" => breaks # 0
      BY DEF SessionInv, StopsOK
    <3>. QED  BY <3>1, <3>2 DEF SessionInv, StopsOK, Clean, Running
  <2>. QED  BY <2>7, <2>8, <2>9, <2>10, <2>11, <2>12, <2>13, <2>14, <2>15, <2>16 DEF SessionInv
<1>. QED  BY <1>1, <1>3, <1>5, <1>7, <1>6

\* It does not come.
LEMMA AwaitTimeoutKeeps == SessionInv /\ AwaitTimeout => SessionInv'
<1>. SUFFICES ASSUME SessionInv, AwaitTimeout
              PROVE  SessionInv'
  OBVIOUS
<1>1. /\ at = "await" /\ at' = "write" /\ toStub = <<>> /\ seen' = seen \cup {"resent"}
      /\ UNCHANGED <<hostvars, toStub, toHost, faults, missing, again, flags, done>>
  BY DEF AwaitTimeout, Note
<1>2. toStub' \in Seq(HostTokens) /\ DOMAIN toStub' = {}
  BY <1>1 DEF SessionInv, LinesOK
<1>3. \A i \in DOMAIN toStub' :
        \/ i + 0 \in DOMAIN toStub /\ toStub'[i] = toStub[i + 0] /\ i + 0 # 1
        \/ i = 1 /\ toStub'[i].t = "rest"
  BY <1>2
<1>. QED  BY <1>1, <1>2, <1>3, SentAgain

\* Bytes that are no packet are passed over.
LEMMA SkipByteKeeps == SessionInv /\ SkipByte => SessionInv'
<1>. SUFFICES ASSUME SessionInv, SkipByte
              PROVE  SessionInv'
  OBVIOUS
<1>1. /\ at = "read" /\ toStub # <<>> /\ toStub' = Tail(toStub) /\ toStub[1].t # "$"
      /\ UNCHANGED <<hostvars, toHost, history, stubvars>>
  BY SkipFacts DEF SessionInv
<1>2. /\ toStub' \in Seq(HostTokens)
      /\ \A i \in DOMAIN toStub' :
            /\ i \in Nat /\ i + 1 \in DOMAIN toStub /\ i + 1 # 1
            /\ toStub'[i] = toStub[i + 1]
            /\ RequestAt(i)' <=> RequestAt(i + 1)
            /\ PlusUpAt(i)' <=> PlusUpAt(i + 1)
            /\ i + 1 = Len(toStub) => i = Len(toStub')
  BY <1>1, RestFollows DEF SessionInv
<1>3. UNCHANGED <<host, host_no_ack, kind, request, answer, breaks, handler_mutex, no_ack_mode,
                  was_interrupted, done, faults, missing, again, toHost, seen, at>>
  BY <1>1 DEF hostvars, history, flags, stubvars
<1>4. \A i \in DOMAIN toHost : /\ AnswerAt(i)' <=> AnswerAt(i)
                               /\ PlusAt(i)' <=> PlusAt(i)
                               /\ MinusAt(i)' <=> MinusAt(i)
  BY <1>3 DEF AnswerAt, PlusAt, MinusAt
<1>5. (Heard' <=> Heard) /\ \A i \in DOMAIN toHost : Takes(i)' <=> Takes(i)
  BY <1>3, <1>4 DEF Heard, Takes, AnswerAt
<1>6. host # "away"
  BY <1>1 DEF SessionInv, CountersOK
<1>. USE <1>1, <1>2, <1>3, <1>4, <1>6
<1>7. ScalarsOK'
  BY DEF SessionInv, ScalarsOK
<1>8. LinesOK'
  BY DEF SessionInv, LinesOK
<1>9. CountersOK'
  <2>1. \A i \in DOMAIN toStub' : RequestAt(i)' => toStub'[i].n = request /\ toStub'[i].kind = kind
    BY DEF SessionInv, CountersOK
  <2>2. \A i \in DOMAIN toHost : /\ AnswerAt(i) => toHost[i].n <= done
                               /\ PlusAt(i) => toHost[i].n = request
    BY DEF SessionInv, CountersOK
  <2>. QED  BY <2>1, <2>2 DEF SessionInv, CountersOK
<1>10. OneOutstanding'
  <2>1. \A i \in DOMAIN toStub' : RequestAt(i)' => host = "ack" \/ (host = "answer" /\ host_no_ack)
    BY DEF SessionInv, OneOutstanding
  <2>2. \A i, j \in DOMAIN toStub' : RequestAt(i)' /\ RequestAt(j)' => i = j
    BY DEF SessionInv, OneOutstanding
  <2>3. \A i \in DOMAIN toStub', j \in DOMAIN toHost : RequestAt(i)' => AnswerAt(j)
    BY DEF SessionInv, OneOutstanding
  <2>. QED  BY <2>1, <2>2, <2>3 DEF SessionInv, OneOutstanding
<1>11. Fresh'
  BY <1>5 DEF SessionInv, Fresh
<1>12. NoAckOK'
  <2>1. host_no_ack =>
          /\ \A i \in DOMAIN toStub' : RequestAt(i)' => at = "read" /\ done = answer
          /\ \A i \in DOMAIN toStub', j \in DOMAIN toHost : ~(RequestAt(i)' /\ AnswerAt(j))
    BY DEF SessionInv, NoAckOK
  <2>. QED  BY <1>5, <2>1 DEF SessionInv, NoAckOK
<1>13. LossesOK'
  <2>1. Promised' <=> Promised
    BY <1>5 DEF Promised
  <2>2. Requested => Requested'
    <3>. SUFFICES ASSUME NEW i \in DOMAIN toStub, RequestAt(i), toStub[i].good
                  PROVE  Requested'
      BY DEF Requested
    <3>1. i # 1
      BY <1>1 DEF RequestAt
    <3>2. PICK j \in DOMAIN toStub' : j + 1 = i
      BY <3>1, FollowersStay DEF SessionInv
    <3>. QED  BY <3>2 DEF Requested
  <2>. QED  BY <1>5, <2>1, <2>2 DEF SessionInv, LossesOK
<1>14. RunningOK'
  BY DEF RunningOK, Running
<1>15. Orderly'
  <2>. SUFFICES ASSUME Clean, ~no_ack_mode
                PROVE  InOrder'
    BY DEF Orderly, Clean
  <2>1. InOrder
    BY DEF SessionInv, Orderly
  <2>2. \A i \in DOMAIN toStub' : ~PlusUpAt(i)'
    BY <2>1 DEF InOrder
  <2>3. \A i \in DOMAIN toHost : ~AnswerAt(i) /\ ~PlusAt(i)
    BY <2>1 DEF InOrder
  <2>4. host \in {"idle", "ack"}
    BY <2>1 DEF InOrder
  <2>. QED  BY <2>2, <2>3, <2>4 DEF InOrder
<1>16. StopsOK'
  <2>1. \A i, j \in DOMAIN toStub' : RequestAt(i)' /\ i < j =>
          toStub'[j].t = "break" \/ (PlusUpAt(j)' /\ ~host_no_ack)
    BY DEF SessionInv, StopsOK
  <2>2. \A i \in DOMAIN toStub' : /\ toStub'[i].t # "rest"
                                  /\ toStub'[i].t = "break" => breaks # 0
    BY DEF SessionInv, StopsOK
  <2>. QED  BY <2>1, <2>2 DEF SessionInv, StopsOK, Clean, Running
<1>. QED  BY <1>7, <1>8, <1>9, <1>10, <1>11, <1>12, <1>13, <1>14, <1>15, <1>16 DEF SessionInv

\* A damaged packet is rejected.
LEMMA RejectPacketKeeps == SessionInv /\ RejectPacket => SessionInv'
<1>. SUFFICES ASSUME SessionInv, RejectPacket
              PROVE  SessionInv'
  OBVIOUS
<1>1. /\ at = "read" /\ toStub # <<>> /\ toStub' = Tail(toStub)
      /\ toStub[1].t = "$" /\ ~toStub[1].good
      /\ toHost' = IF no_ack_mode THEN toHost ELSE toHost \o <<Minus>>
      /\ UNCHANGED <<hostvars, history, stubvars>>
  BY RejectFacts DEF SessionInv
<1>2. /\ toStub' \in Seq(HostTokens) /\ 1 \in DOMAIN toStub
      /\ \A i \in DOMAIN toStub' :
            /\ i \in Nat /\ i + 1 \in DOMAIN toStub /\ i + 1 # 1
            /\ toStub'[i] = toStub[i + 1]
            /\ RequestAt(i)' <=> RequestAt(i + 1)
            /\ PlusUpAt(i)' <=> PlusUpAt(i + 1)
  BY <1>1, RestFollows DEF SessionInv
<1>3. UNCHANGED <<host, host_no_ack, kind, request, answer, breaks, handler_mutex, no_ack_mode,
                  was_interrupted, done, faults, missing, again, seen, at>>
  BY <1>1 DEF hostvars, history, flags, stubvars
<1>4. RequestAt(1)
  BY <1>1, <1>2 DEF RequestAt
<1>5. \A i \in DOMAIN toStub' : ~RequestAt(i)'
  BY <1>2, <1>4 DEF SessionInv, OneOutstanding
<1>6. \A i \in DOMAIN toHost : AnswerAt(i) /\ ~PlusAt(i) /\ ~MinusAt(i)
  BY <1>2, <1>4 DEF SessionInv, OneOutstanding, AnswerAt, PlusAt, MinusAt
<1>7. host # "away"
  BY <1>1 DEF SessionInv, CountersOK
<1>8. PICK last \in Nat : last = Len(toHost) + 1
  BY LineFacts DEF SessionInv
<1>9. /\ toHost' \in Seq(StubTokens)
      /\ \A i \in DOMAIN toHost : i \in DOMAIN toHost' /\ toHost'[i] = toHost[i] /\ i < last
      /\ \A i \in DOMAIN toHost' : i \in DOMAIN toHost \/ (i = last /\ ~no_ack_mode /\ toHost'[i].t = "-")
  <2>1. Len(toHost) \in Nat /\ DOMAIN toHost = 1 .. Len(toHost) /\ toHost \in Seq(StubTokens)
    BY LineFacts DEF SessionInv, LinesOK
  <2>2. CASE no_ack_mode
    BY <1>1, <1>8, <2>1, <2>2
  <2>3. CASE ~no_ack_mode
    <3>1. toHost' = toHost \o <<Minus>> /\ Minus \in StubTokens /\ Minus.t = "-"
      BY <1>1, <2>3, StubTokenShapes, HostTokenShapes
    <3>2. /\ toHost' \in Seq(StubTokens) /\ DOMAIN toHost' = 1 .. Len(toHost) + 1
          /\ \A i \in 1 .. Len(toHost) : toHost'[i] = toHost[i]
          /\ toHost'[Len(toHost) + 1] = Minus
      BY <3>1, StubSends DEF SessionInv
    <3>. QED  BY <1>8, <2>1, <2>3, <3>1, <3>2
  <2>. QED  BY <2>2, <2>3
<1>10. \A i \in DOMAIN toHost' : /\ AnswerAt(i)' <=> i \in DOMAIN toHost
                                 /\ ~PlusAt(i)'
                                 /\ MinusAt(i)' => i = last /\ ~no_ack_mode
                                 /\ ~AnswerAt(i)' => i = last /\ ~no_ack_mode
  BY <1>6, <1>9 DEF AnswerAt, PlusAt, MinusAt
<1>11. Heard' <=> Heard
  BY <1>3, <1>6, <1>10 DEF Heard, PlusAt
<1>12. \A i \in DOMAIN toHost' : Takes(i)' => i \in DOMAIN toHost /\ Takes(i)
  BY <1>3, <1>6, <1>10 DEF Takes, PlusAt, AnswerAt
<1>13. \A i \in DOMAIN toHost : Takes(i) => i \in DOMAIN toHost' /\ Takes(i)'
  BY <1>3, <1>6, <1>9, <1>10 DEF Takes, PlusAt, AnswerAt
<1>14. ~no_ack_mode => host = "ack"
  BY <1>2, <1>4 DEF SessionInv, OneOutstanding, NoAckOK
<1>. USE <1>3
<1>15. ScalarsOK'
  BY DEF SessionInv, ScalarsOK
<1>16. LinesOK'
  BY <1>2, <1>9 DEF LinesOK
<1>17. CountersOK'
  <2>1. \A i \in DOMAIN toHost' : AnswerAt(i)' => toHost'[i].n <= done
    BY <1>6, <1>9, <1>10 DEF SessionInv, CountersOK
  <2>. QED  BY <1>5, <1>7, <1>10, <2>1 DEF SessionInv, CountersOK
<1>18. OneOutstanding'
  <2>1. \A i \in DOMAIN toHost' : (PlusAt(i) \/ MinusAt(i))' => host = "ack"
    BY <1>10, <1>14
  <2>2. \A i, j \in DOMAIN toHost' : ~AnswerAt(i)' /\ ~AnswerAt(j)' => i = j
    BY <1>10
  <2>3. host = "ack" => ~host_no_ack
    BY DEF SessionInv, OneOutstanding
  <2>. QED  BY <1>1, <1>5, <2>1, <2>2, <2>3 DEF OneOutstanding
<1>19. Fresh'
  <2>1. \A j \in DOMAIN toHost' : Takes(j)' => toHost'[j].n = request
    BY <1>9, <1>12 DEF SessionInv, Fresh
  <2>. QED  BY <1>11, <2>1 DEF SessionInv, Fresh
<1>20. NoAckOK'
  <2>1. no_ack_mode => \A i, j \in DOMAIN toHost' : Takes(i)' /\ Takes(j)' => i = j
    BY <1>12 DEF SessionInv, NoAckOK
  <2>2. host_no_ack => \A i \in DOMAIN toHost' : AnswerAt(i)' => host = "answer"
    BY <1>6, <1>10 DEF SessionInv, NoAckOK
  <2>. QED  BY <1>1, <1>5, <2>1, <2>2 DEF SessionInv, NoAckOK
<1>21. LossesOK'
  <2>1. Promised => Promised'
    BY <1>9, <1>13 DEF Promised
  <2>2. host = "ack" /\ done = request => request \in missing.ack
    BY <1>6 DEF SessionInv, LossesOK
  <2>3. \A i \in DOMAIN toHost' : AnswerAt(i)' => toHost'[i].good \/ toHost'[i].n \in missing.answer
    BY <1>6, <1>9, <1>10 DEF SessionInv, LossesOK
  <2>4. again \subseteq missing.ack
    BY DEF SessionInv, LossesOK
  <2>5. Heard' /\ done = request => Promised' \/ request \in missing.answer
    BY <1>1, <1>11, <2>1 DEF SessionInv, LossesOK
  <2>6. ~Requested
    BY <1>1, <1>2, <1>4 DEF Requested, SessionInv, OneOutstanding
  <2>7. host = "answer" /\ done # request => request \in missing.request
    BY <2>6 DEF SessionInv, LossesOK
  <2>. QED  BY <2>2, <2>3, <2>4, <2>5, <2>7 DEF LossesOK
<1>22. RunningOK'
  BY <1>1 DEF RunningOK, Running
<1>23. Orderly'
  <2>. SUFFICES ASSUME Clean, ~no_ack_mode
                PROVE  InOrder'
    BY DEF Orderly, Clean
  <2>1. InOrder
    BY DEF SessionInv, Orderly
  <2>2. \A i \in DOMAIN toStub' : ~PlusUpAt(i)'
    BY <1>1, <1>2, <2>1 DEF InOrder
  <2>3. \A i \in DOMAIN toHost' : ~AnswerAt(i)' /\ ~PlusAt(i)'
    BY <1>1, <1>6, <1>10, <2>1 DEF InOrder
  <2>. QED  BY <1>1, <1>5, <1>14, <2>2, <2>3 DEF InOrder
<1>24. StopsOK'
  <2>1. \A i \in DOMAIN toStub' : /\ toStub'[i].t # "rest"
                                  /\ toStub'[i].t = "break" => breaks # 0
    BY <1>2 DEF SessionInv, StopsOK
  <2>. QED  BY <1>1, <1>5, <2>1 DEF SessionInv, StopsOK, Clean, Running
<1>. QED  BY <1>15, <1>16, <1>17, <1>18, <1>19, <1>20, <1>21, <1>22, <1>23, <1>24 DEF SessionInv

\* A request is carried out.
LEMMA AcceptPacketKeeps == SessionInv /\ AcceptPacket => SessionInv'
<1>. SUFFICES ASSUME SessionInv, AcceptPacket
              PROVE  SessionInv'
  OBVIOUS
<1>1. /\ at = "read" /\ toStub # <<>> /\ toStub' = Tail(toStub)
      /\ toStub[1].t = "$"
      /\ toHost' = IF no_ack_mode THEN toHost ELSE toHost \o <<PlusFor(toStub[1].n)>>
      /\ done' = toStub[1].n
      /\ again' = again \cup (IF done = toStub[1].n THEN {done} ELSE {})
      /\ no_ack_mode' = (no_ack_mode \/ toStub[1].kind = "noack")
      /\ at' = IF toStub[1].kind = "continue" THEN "program" ELSE "write"
      /\ handler_mutex' = (toStub[1].kind # "continue")
      /\ UNCHANGED <<hostvars, faults, missing, seen, was_interrupted>>
  BY AcceptFacts DEF SessionInv
<1>2. /\ toStub' \in Seq(HostTokens) /\ 1 \in DOMAIN toStub
      /\ \A i \in DOMAIN toStub' :
            /\ i \in Nat /\ i + 1 \in DOMAIN toStub /\ i + 1 # 1
            /\ toStub'[i] = toStub[i + 1]
            /\ RequestAt(i)' <=> RequestAt(i + 1)
            /\ PlusUpAt(i)' <=> PlusUpAt(i + 1)
  BY <1>1, RestFollows DEF SessionInv
<1>3. UNCHANGED <<host, host_no_ack, kind, request, answer, breaks, faults, missing, seen,
                  was_interrupted>>
  BY <1>1 DEF hostvars
<1>4. RequestAt(1)
  BY <1>1, <1>2 DEF RequestAt
<1>5. toStub[1].n = request /\ toStub[1].kind = kind
  BY <1>2, <1>4 DEF SessionInv, CountersOK
<1>6. /\ done' = request
      /\ again' = again \cup (IF done = request THEN {request} ELSE {})
      /\ at' = IF kind = "continue" THEN "program" ELSE "write"
  BY <1>1, <1>5
<1>7. no_ack_mode' <=> no_ack_mode \/ kind = "noack"
  BY <1>1, <1>5, Zenon
<1>8. handler_mutex' <=> kind # "continue"
  BY <1>1, <1>5, Zenon
<1>9. \A i \in DOMAIN toStub' : ~RequestAt(i)'
  BY <1>2, <1>4 DEF SessionInv, OneOutstanding
<1>10. \A i \in DOMAIN toHost : AnswerAt(i) /\ ~PlusAt(i) /\ ~MinusAt(i)
  BY <1>2, <1>4 DEF SessionInv, OneOutstanding, AnswerAt, PlusAt, MinusAt
<1>11. host = "ack" \/ (host = "answer" /\ host_no_ack)
  BY <1>2, <1>4 DEF SessionInv, OneOutstanding
<1>12. PICK last \in Nat : last = Len(toHost) + 1
  BY LineFacts DEF SessionInv
<1>13. /\ toHost' \in Seq(StubTokens)
       /\ \A i \in DOMAIN toHost : i \in DOMAIN toHost' /\ toHost'[i] = toHost[i] /\ i < last
       /\ \A i \in DOMAIN toHost' : i \in DOMAIN toHost \/ (i = last /\ ~no_ack_mode /\ toHost'[i].t = "+")
       /\ ~no_ack_mode => /\ last \in DOMAIN toHost' /\ last \notin DOMAIN toHost
                          /\ toHost'[last].t = "+" /\ toHost'[last].n = request
  <2>1. Len(toHost) \in Nat /\ DOMAIN toHost = 1 .. Len(toHost) /\ toHost \in Seq(StubTokens)
    BY LineFacts DEF SessionInv, LinesOK
  <2>2. CASE no_ack_mode
    BY <1>1, <1>12, <2>1, <2>2
  <2>3. CASE ~no_ack_mode
    <3>1. toStub[1].n \in 1 .. MaxRequests
      BY <1>1, <1>2, HostTokenShapes, Places DEF SessionInv, LinesOK
    <3>2. PICK plus \in StubTokens : /\ toHost' = toHost \o <<plus>>
                                     /\ plus.t = "+" /\ plus.n = request
      BY <1>1, <1>5, <2>3, <3>1, StubTokenShapes
    <3>3. /\ toHost' \in Seq(StubTokens) /\ DOMAIN toHost' = 1 .. Len(toHost) + 1
          /\ \A i \in 1 .. Len(toHost) : toHost'[i] = toHost[i]
          /\ toHost'[Len(toHost) + 1] = plus
      BY <3>2, StubSends DEF SessionInv
    <3>. QED  BY <1>12, <2>1, <2>3, <3>2, <3>3
  <2>. QED  BY <2>2, <2>3
<1>14. /\ \A i \in DOMAIN toHost' : /\ AnswerAt(i)' <=> i \in DOMAIN toHost
                                    /\ PlusAt(i)' <=> (i = last /\ ~no_ack_mode)
                                    /\ ~MinusAt(i)'
       /\ ~no_ack_mode => \E i \in DOMAIN toHost' : PlusAt(i)'
  BY <1>10, <1>13 DEF AnswerAt, PlusAt, MinusAt
<1>15. \A i \in DOMAIN toHost' : Takes(i)' => i \in DOMAIN toHost /\ Takes(i)
  <2>. SUFFICES ASSUME NEW i \in DOMAIN toHost', Takes(i)'
                PROVE  i \in DOMAIN toHost /\ Takes(i)
    OBVIOUS
  <2>1. i \in DOMAIN toHost /\ AnswerAt(i)
    BY <1>10, <1>14 DEF Takes
  <2>2. ~\E m \in DOMAIN toHost' : PlusAt(m)' /\ m < i
    BY <1>12, <1>13, <1>14, <2>1
  <2>3. host = "answer"
    BY <1>3, <2>2 DEF Takes
  <2>. QED  BY <2>1, <2>3 DEF Takes
<1>16. done <= request /\ answer <= request /\ request \in Nat /\ done \in Nat /\ answer \in Nat
      /\ request # 0
  <2>1. toStub[1].n \in 1 .. MaxRequests
    BY <1>1, <1>2, HostTokenShapes, Places DEF SessionInv, LinesOK
  <2>. QED  BY <1>5, <2>1, SessionAssumption DEF SessionInv, ScalarsOK
<1>17. host = "answer" => no_ack_mode /\ done = answer /\ request = answer + 1 /\ DOMAIN toHost = {}
  <2>1. host = "answer" => host_no_ack
    BY <1>11
  <2>2. host = "answer" => request = answer + 1
    BY DEF SessionInv, CountersOK
  <2>3. host_no_ack => no_ack_mode /\ done = answer /\ \A j \in DOMAIN toHost : ~AnswerAt(j)
    BY <1>2, <1>4 DEF SessionInv, NoAckOK
  <2>. QED  BY <1>10, <2>1, <2>2, <2>3
<1>18. host = "answer" => done # request
  BY <1>16, <1>17
<1>19. host = "ack" => ~host_no_ack
  BY DEF SessionInv, OneOutstanding
<1>20. host = "ack" /\ done = request => request \in missing.ack
  BY <1>10 DEF SessionInv, LossesOK
<1>21. \A i \in DOMAIN toHost : ~Takes(i)
  BY <1>10, <1>11, <1>17 DEF Takes
<1>. USE <1>3, <1>6, <1>7, <1>9, <1>14
<1>22. ScalarsOK'
  <2>1. kind \in Kinds /\ at' \in {"program", "write"}
    BY DEF SessionInv, ScalarsOK
  <2>2. handler_mutex' \in BOOLEAN
    BY <1>1
  <2>3. handler_mutex' <=> at' \in {"write", "await", "read"}
    BY <1>8
  <2>4. no_ack_mode' \in BOOLEAN
    BY <1>1
  <2>5. done' \in 0 .. request'
    BY <1>16
  <2>6. again' \subseteq 1 .. done'
    <3>1. again \subseteq 1 .. done
      BY DEF SessionInv, ScalarsOK
    <3>2. again' \subseteq again \cup {request}
      OBVIOUS
    <3>. QED  BY <1>16, <3>1, <3>2
  <2>. QED  BY <2>1, <2>2, <2>3, <2>4, <2>5, <2>6 DEF SessionInv, ScalarsOK
<1>23. LinesOK'
  BY <1>2, <1>13 DEF LinesOK
<1>24. CountersOK'
  <2>1. \A i \in DOMAIN toHost' : AnswerAt(i)' => toHost'[i].n <= done'
    <3>. SUFFICES ASSUME NEW i \in DOMAIN toHost', AnswerAt(i)'
                  PROVE  toHost'[i].n <= request
      OBVIOUS
    <3>1. i \in DOMAIN toHost /\ toHost'[i] = toHost[i] /\ AnswerAt(i)
      BY <1>10, <1>13
    <3>2. toHost[i].n <= done
      BY <3>1 DEF SessionInv, CountersOK
    <3>3. toHost[i].n \in Nat
      BY <3>1, LineFacts, StubTokenShapes, SessionAssumption DEF SessionInv, AnswerAt
    <3>. QED  BY <1>16, <3>1, <3>2, <3>3
  <2>2. host \in {"ack", "answer"} => request = answer + 1
    BY DEF SessionInv, CountersOK
  <2>3. \A i \in DOMAIN toHost' : PlusAt(i)' => toHost'[i].n = request
    BY <1>13
  <2>. QED  BY <1>11, <1>16, <2>1, <2>2, <2>3 DEF CountersOK
<1>25. OneOutstanding'
  <2>1. \A i \in DOMAIN toHost' : (PlusAt(i) \/ MinusAt(i))' => host = "ack"
    BY <1>11, <1>17
  <2>2. \A i, j \in DOMAIN toHost' : ~AnswerAt(i)' /\ ~AnswerAt(j)' => i = j
    BY <1>13
  <2>. QED  BY <1>19, <2>1, <2>2 DEF OneOutstanding
<1>26. Fresh'
  BY <1>15, <1>21 DEF Fresh
<1>27. NoAckOK'
  <2>1. host_no_ack => /\ no_ack_mode' /\ host = "answer"
                       /\ \A i \in DOMAIN toHost' : ~AnswerAt(i)'
    BY <1>11, <1>17, <1>19
  <2>2. no_ack_mode' => \A i \in DOMAIN toHost' : ~Takes(i)'
    BY <1>15, <1>21
  <2>3. no_ack_mode' /\ ~host_no_ack => kind = "noack" /\ host = "ack"
    BY <1>11 DEF SessionInv, NoAckOK
  <2>. QED  BY <2>1, <2>2, <2>3 DEF NoAckOK
<1>28. LossesOK'
  <2>1. host = "ack" => (\E i \in DOMAIN toHost' : PlusAt(i)') \/ request \in missing.ack
    <3>1. host = "ack" /\ no_ack_mode => done = request
      BY <1>19 DEF SessionInv, NoAckOK
    <3>. QED  BY <1>20, <3>1
  <2>2. \A i \in DOMAIN toHost' : AnswerAt(i)' => toHost'[i].good \/ toHost'[i].n \in missing.answer
    BY <1>10, <1>13 DEF SessionInv, LossesOK
  <2>3. again' \subseteq missing.ack
    BY <1>11, <1>18, <1>20 DEF SessionInv, LossesOK
  <2>4. at' \notin {"await", "read"}
    OBVIOUS
  <2>. QED  BY <2>1, <2>2, <2>3, <2>4 DEF LossesOK
<1>29. RunningOK'
  <2>1. Running' => kind = "continue"
    BY DEF Running
  <2>2. \A j \in DOMAIN toHost' : ~Takes(j)'
    BY <1>15, <1>21
  <2>. QED  BY <1>11, <2>1, <2>2 DEF RunningOK
<1>30. Clean' <=> Clean
  BY DEF Clean
<1>31. Orderly'
  <2>. SUFFICES ASSUME Clean, ~no_ack_mode
                PROVE  InOrder'
    BY <1>30 DEF Orderly
  <2>1. InOrder
    BY DEF SessionInv, Orderly
  <2>2. \A i \in DOMAIN toStub' : ~PlusUpAt(i)'
    BY <1>1, <1>2, <2>1 DEF InOrder
  <2>3. \A i \in DOMAIN toHost' : ~AnswerAt(i)'
    BY <1>1, <1>10, <2>1 DEF InOrder
  <2>4. at' \in {"program", "write"}
    OBVIOUS
  <2>. QED  BY <1>11, <2>2, <2>3, <2>4 DEF InOrder
<1>32. StopsOK'
  <2>1. \A i \in DOMAIN toStub' : /\ toStub'[i].t # "rest"
                                  /\ toStub'[i].t = "break" => breaks # 0
    BY <1>2 DEF SessionInv, StopsOK
  <2>2. ASSUME Clean, kind = "continue", NEW i \in DOMAIN toStub'
        PROVE  toStub'[i].t = "break"
    <3>1. i + 1 \in DOMAIN toStub /\ toStub'[i] = toStub[i + 1] /\ 1 < i + 1
      <4>1. i \in Nat /\ i # 0
        BY <1>2, <2>2, Places
      <4>. QED  BY <1>2, <4>1
    <3>2. toStub[i + 1].t = "break" \/ (PlusUpAt(i + 1) /\ ~host_no_ack)
      BY <1>2, <1>4, <3>1 DEF SessionInv, StopsOK
    <3>3. ~host_no_ack => ~no_ack_mode
      BY <2>2 DEF SessionInv, NoAckOK
    <3>4. ~no_ack_mode => ~PlusUpAt(i + 1)
      BY <1>1, <2>2, <3>1 DEF SessionInv, Orderly, InOrder
    <3>. QED  BY <3>1, <3>2, <3>3, <3>4
  <2>3. was_interrupted => breaks # 0 \/ ~Clean \/ missing.ack # {}
    BY DEF SessionInv, StopsOK
  <2>4. Running' => kind = "continue"
    BY DEF Running
  <2>. QED  BY <1>30, <2>1, <2>2, <2>3, <2>4 DEF StopsOK
<1>. QED  BY <1>22, <1>23, <1>24, <1>25, <1>26, <1>27, <1>28, <1>29, <1>31, <1>32
          DEF SessionInv

-----------------------------------------------------------------------------
(***************************************************************************)
(* The program and the timer.                                              *)
(***************************************************************************)
\* Steps of the program while the stub does not use the line.
LEMMA ProgramMoves ==
  ASSUME SessionInv,
         UNCHANGED <<hostvars, toStub, toHost, history, no_ack_mode, done>>,
         Running,
         at' \in {"program", "checkpoint", "enter", "write"},
         host = "away" => at' \in {"enter", "write"},
         was_interrupted' \in BOOLEAN,
         handler_mutex' \in BOOLEAN, handler_mutex' <=> at' = "write",
         was_interrupted' \/ at' = "checkpoint" =>
           breaks # 0 \/ ~Clean \/ missing.ack # {}
  PROVE  SessionInv'
<1>1. /\ UNCHANGED <<host, host_no_ack, kind, request, answer, breaks, faults, missing, again, seen>>
      /\ at \in {"program", "checkpoint", "enter"}
  BY DEF hostvars, history, Running
<1>2. \A i \in DOMAIN toStub : /\ RequestAt(i)' <=> RequestAt(i)
                               /\ PlusUpAt(i)' <=> PlusUpAt(i)
  BY DEF RequestAt, PlusUpAt
<1>3. \A i \in DOMAIN toHost : /\ AnswerAt(i)' <=> AnswerAt(i)
                               /\ PlusAt(i)' <=> PlusAt(i)
                               /\ MinusAt(i)' <=> MinusAt(i)
  BY DEF AnswerAt, PlusAt, MinusAt
<1>4. (Heard' <=> Heard) /\ \A i \in DOMAIN toHost : Takes(i)' <=> Takes(i)
  BY <1>1, <1>3 DEF Heard, Takes, AnswerAt
<1>. USE <1>1, <1>2, <1>3
<1>5. ScalarsOK'
  <2>1. at' \in {"program", "checkpoint", "enter", "write", "await", "read"}
    OBVIOUS
  <2>2. handler_mutex' <=> at' \in {"write", "await", "read"}
    OBVIOUS
  <2>. QED  BY <2>1, <2>2 DEF SessionInv, ScalarsOK
<1>6. LinesOK'
  BY DEF SessionInv, LinesOK
<1>7. CountersOK'
  <2>1. \A i \in DOMAIN toStub : RequestAt(i) => toStub[i].n = request /\ toStub[i].kind = kind
    BY DEF SessionInv, CountersOK
  <2>2. \A i \in DOMAIN toHost : /\ AnswerAt(i) => toHost[i].n <= done
                               /\ PlusAt(i) => toHost[i].n = request
    BY DEF SessionInv, CountersOK
  <2>. QED  BY <2>1, <2>2 DEF SessionInv, CountersOK
<1>8. OneOutstanding'
  BY DEF SessionInv, OneOutstanding
<1>9. Fresh'
  BY <1>4 DEF SessionInv, Fresh
<1>10. NoAckOK'
  <2>1. no_ack_mode => host_no_ack /\ \A i \in DOMAIN toHost : ~Takes(i)
    BY DEF SessionInv, NoAckOK
  <2>2. host_no_ack => /\ host # "idle" /\ done = request
                       /\ \A i \in DOMAIN toStub : ~RequestAt(i)
    BY DEF SessionInv, NoAckOK
  <2>. QED  BY <1>4, <2>1, <2>2 DEF SessionInv, NoAckOK
<1>11. LossesOK'
  <2>1. Requested' <=> Requested
    BY DEF Requested
  <2>. QED  BY <2>1 DEF SessionInv, LossesOK
<1>12. RunningOK'
  BY <1>4 DEF SessionInv, RunningOK
<1>13. Orderly'
  <2>. SUFFICES ASSUME Clean, ~no_ack_mode
                PROVE  InOrder'
    BY DEF Orderly, Clean
  <2>1. /\ \A i \in DOMAIN toStub : ~PlusUpAt(i)
        /\ \A i \in DOMAIN toHost : ~AnswerAt(i)
        /\ host # "idle" /\ done = request
    BY DEF SessionInv, Orderly, InOrder
  <2>. QED  BY <2>1 DEF InOrder
<1>14. StopsOK'
  <2>1. Clean' <=> Clean
    BY DEF Clean
  <2>2. \A i \in DOMAIN toStub : toStub[i].t # "rest"
    BY DEF SessionInv, StopsOK, ScalarsOK
  <2>. QED  BY <2>1, <2>2 DEF SessionInv, StopsOK
<1>. QED  BY <1>5, <1>6, <1>7, <1>8, <1>9, <1>10, <1>11, <1>12, <1>13, <1>14 DEF SessionInv

\* The program runs into an exception.
LEMMA ExceptKeeps == SessionInv /\ Except => SessionInv'
<1>. SUFFICES ASSUME SessionInv, Except
              PROVE  SessionInv'
  OBVIOUS
<1>1. /\ at = "program" /\ at' = "enter"
      /\ UNCHANGED <<hostvars, toStub, toHost, history, flags, done>>
      /\ UNCHANGED <<handler_mutex, no_ack_mode, was_interrupted>>
  BY DEF Except, flags
<1>2. host # "away"
  BY <1>1 DEF SessionInv, CountersOK
<1>3. was_interrupted \in BOOLEAN /\ handler_mutex \in BOOLEAN /\ ~handler_mutex
  BY <1>1 DEF SessionInv, ScalarsOK
<1>4. was_interrupted => breaks # 0 \/ ~Clean \/ missing.ack # {}
  BY <1>1 DEF SessionInv, StopsOK
<1>. QED  BY <1>1, <1>2, <1>3, <1>4, ProgramMoves DEF Running

\* A request on the line to a running program: the debugger came too early, or it is the
\* continue that the program runs after, and its '+' was lost.
LEMMA RequestOfRunning ==
  ASSUME SessionInv, Running, NEW i \in DOMAIN toStub, RequestAt(i)
  PROVE  \/ done = 0 /\ "early" \in seen
         \/ /\ toStub[i].kind = "continue" /\ toStub[i].n = done
            /\ done = request /\ request \in missing.ack
<1>1. host = "ack" \/ (host = "answer" /\ host_no_ack)
  BY DEF SessionInv, OneOutstanding
<1>2. toStub[i].n = request /\ toStub[i].kind = kind
  BY DEF SessionInv, CountersOK
<1>3. at \in {"program", "checkpoint", "enter"}
  BY DEF Running
<1>4. ~host_no_ack
  BY <1>3 DEF SessionInv, NoAckOK
<1>5. \A j \in DOMAIN toHost : ~PlusAt(j)
  BY DEF SessionInv, OneOutstanding, AnswerAt, PlusAt
<1>6. host = "ack" /\ done = request => request \in missing.ack
  BY <1>5 DEF SessionInv, LossesOK
<1>. QED  BY <1>1, <1>2, <1>4, <1>6 DEF SessionInv, RunningOK

\* The timer ticks: the mutex is free, so that the stub does not use the line.
LEMMA TickKeeps == SessionInv /\ gdb_tick_handler => SessionInv'
<1>. SUFFICES ASSUME SessionInv, gdb_tick_handler
              PROVE  SessionInv'
  OBVIOUS
<1>1. /\ toStub # <<>> /\ ~handler_mutex /\ was_interrupted' = TRUE
      /\ UNCHANGED <<hostvars, toStub, toHost, history, at, handler_mutex, no_ack_mode, done>>
  BY DEF gdb_tick_handler
<1>2. Running /\ at \in {"program", "checkpoint", "enter"} /\ handler_mutex \in BOOLEAN
  BY <1>1 DEF SessionInv, ScalarsOK, Running
<1>3. host = "away" => at \in {"enter", "write"} /\ toStub = <<>>
  BY <1>2 DEF SessionInv, CountersOK
<1>4. breaks # 0 \/ ~Clean \/ missing.ack # {}
  <2>. SUFFICES ASSUME Clean
                PROVE  breaks # 0 \/ missing.ack # {}
    OBVIOUS
  <2>1. 1 \in DOMAIN toStub
    BY <1>1, Places DEF SessionInv, LinesOK
  <2>2. toStub[1].t \in {"break", "$"}
    BY <1>2, <2>1 DEF SessionInv, StopsOK
  <2>3. CASE toStub[1].t = "break"
    BY <2>1, <2>3 DEF SessionInv, StopsOK
  <2>4. CASE toStub[1].t = "$"
    <3>1. request \in missing.ack
      BY <1>2, <2>1, <2>4, RequestOfRunning DEF RequestAt, Clean
    <3>. QED  BY <3>1
  <2>. QED  BY <2>2, <2>3, <2>4
<1>. QED  BY <1>1, <1>2, <1>3, <1>4, ProgramMoves

\* gdb_checkpoint finds the note of a tick.
LEMMA CheckpointTestKeeps == SessionInv /\ CheckpointTest => SessionInv'
<1>. SUFFICES ASSUME SessionInv, CheckpointTest
              PROVE  SessionInv'
  OBVIOUS
<1>1. /\ at = "program" /\ was_interrupted /\ at' = "checkpoint"
      /\ UNCHANGED <<hostvars, toStub, toHost, history, flags, done>>
      /\ UNCHANGED <<handler_mutex, no_ack_mode, was_interrupted>>
  BY DEF CheckpointTest, flags
<1>2. host # "away"
  BY <1>1 DEF SessionInv, CountersOK
<1>3. was_interrupted \in BOOLEAN /\ handler_mutex \in BOOLEAN /\ ~handler_mutex
  BY <1>1 DEF SessionInv, ScalarsOK
<1>4. breaks # 0 \/ ~Clean \/ missing.ack # {}
  BY <1>1 DEF SessionInv, StopsOK
<1>. QED  BY <1>1, <1>2, <1>3, <1>4, ProgramMoves DEF Running

\* It clears the note and traps.
LEMMA CheckpointStopKeeps == SessionInv /\ CheckpointStop => SessionInv'
<1>. SUFFICES ASSUME SessionInv, CheckpointStop
              PROVE  SessionInv'
  OBVIOUS
<1>1. /\ at = "checkpoint" /\ was_interrupted' = FALSE /\ at' = "enter"
      /\ UNCHANGED <<hostvars, toStub, toHost, history, handler_mutex, no_ack_mode, done>>
  BY DEF CheckpointStop
<1>2. handler_mutex \in BOOLEAN /\ ~handler_mutex
  BY <1>1 DEF SessionInv, ScalarsOK
<1>. QED  BY <1>1, <1>2, ProgramMoves DEF Running

\* gdb_loop takes the mutex.
LEMMA EnterLoopKeeps == SessionInv /\ EnterLoop => SessionInv'
<1>. SUFFICES ASSUME SessionInv, EnterLoop
              PROVE  SessionInv'
  OBVIOUS
<1>1. /\ at = "enter" /\ handler_mutex' = TRUE /\ at' = "write"
      /\ UNCHANGED <<hostvars, toStub, toHost, history, no_ack_mode, was_interrupted, done>>
  BY DEF EnterLoop
<1>2. was_interrupted \in BOOLEAN
  BY DEF SessionInv, ScalarsOK
<1>3. was_interrupted => breaks # 0 \/ ~Clean \/ missing.ack # {}
  BY DEF SessionInv, StopsOK
<1>. QED  BY <1>1, <1>2, <1>3, ProgramMoves DEF Running

-----------------------------------------------------------------------------
(***************************************************************************)
(* The invariant.                                                          *)
(***************************************************************************)
\* Nothing changes.
LEMMA StutterKeeps == SessionInv /\ UNCHANGED sessionvars => SessionInv'
<1>. SUFFICES ASSUME SessionInv, UNCHANGED sessionvars
              PROVE  SessionInv'
  OBVIOUS
<1>1. UNCHANGED <<host, host_no_ack, kind, request, answer, breaks, faults, missing, again, seen,
                  toStub, toHost, at, handler_mutex, no_ack_mode, was_interrupted, done>>
  BY DEF sessionvars, hostvars, history, flags, stubvars
<1>2. \A i : /\ RequestAt(i)' <=> RequestAt(i)
             /\ PlusUpAt(i)' <=> PlusUpAt(i)
             /\ AnswerAt(i)' <=> AnswerAt(i)
             /\ PlusAt(i)' <=> PlusAt(i)
             /\ MinusAt(i)' <=> MinusAt(i)
  BY <1>1 DEF RequestAt, PlusUpAt, AnswerAt, PlusAt, MinusAt
<1>3. (Heard' <=> Heard) /\ \A i : Takes(i)' <=> Takes(i)
  BY <1>1, <1>2 DEF Heard, Takes
<1>4. /\ Promised' <=> Promised
      /\ Requested' <=> Requested
      /\ Clean' <=> Clean
      /\ Running' <=> Running
  BY <1>1, <1>2, <1>3 DEF Promised, Requested, Clean, Running
<1>5. InOrder' <=> InOrder
  BY <1>1, <1>2 DEF InOrder
<1>. USE <1>1, <1>2, <1>3, <1>4, <1>5 DEF SessionInv
<1>6. ScalarsOK'
  BY DEF ScalarsOK
<1>7. LinesOK'
  BY DEF LinesOK
<1>8. CountersOK'
  BY DEF CountersOK
<1>9. OneOutstanding'
  BY DEF OneOutstanding
<1>10. Fresh'
  BY DEF Fresh
<1>11. NoAckOK'
  BY DEF NoAckOK
<1>12. LossesOK'
  BY DEF LossesOK
<1>13. RunningOK'
  BY DEF RunningOK
<1>14. Orderly'
  BY DEF Orderly
<1>15. StopsOK'
  BY DEF StopsOK
<1>. QED  BY <1>6, <1>7, <1>8, <1>9, <1>10, <1>11, <1>12, <1>13, <1>14, <1>15

\* gdb_start has executed int $3, and the line is empty.
LEMMA SessionStarts == SessionInit => SessionInv
<1>. SUFFICES ASSUME SessionInit
              PROVE  SessionInv
  OBVIOUS
<1>. USE SessionAssumption DEF SessionInit
<1>1. DOMAIN toStub = {} /\ DOMAIN toHost = {}
  OBVIOUS
<1>2. ScalarsOK
  <2>1. request \in 0 .. MaxRequests /\ answer \in 0 .. request /\ done \in 0 .. request
    OBVIOUS
  <2>2. breaks \in 0 .. MaxBreaks /\ faults \in 0 .. MaxFaults
    OBVIOUS
  <2>3. handler_mutex \in BOOLEAN /\ ~handler_mutex
    OBVIOUS
  <2>4. host_no_ack \in BOOLEAN /\ no_ack_mode \in BOOLEAN /\ was_interrupted \in BOOLEAN
    OBVIOUS
  <2>5. kind \in Kinds /\ seen \subseteq Events /\ again \subseteq 1 .. done
        /\ missing \in [{"request", "ack", "answer"} -> SUBSET (0 .. request)]
    BY DEF Kinds
  <2>. QED  BY <2>1, <2>2, <2>3, <2>4, <2>5 DEF ScalarsOK
<1>3. LinesOK
  BY DEF LinesOK
<1>4. CountersOK
  BY <1>1 DEF CountersOK
<1>5. OneOutstanding
  BY <1>1 DEF OneOutstanding
<1>6. ~Heard
  BY <1>1 DEF Heard
<1>7. Fresh
  BY <1>1, <1>6 DEF Fresh
<1>8. NoAckOK
  BY <1>1 DEF NoAckOK
<1>9. LossesOK
  BY <1>1, <1>6 DEF LossesOK
<1>10. RunningOK
  BY DEF RunningOK
<1>11. InOrder
  BY <1>1 DEF InOrder
<1>12. StopsOK
  BY <1>1 DEF StopsOK
<1>. QED  BY <1>2, <1>3, <1>4, <1>5, <1>7, <1>8, <1>9, <1>10, <1>11, <1>12 DEF SessionInv, Orderly

\* One step.
LEMMA SessionStep == SessionInv /\ [SessionNext]_sessionvars => SessionInv'
<1>. SUFFICES ASSUME SessionInv, [SessionNext]_sessionvars
              PROVE  SessionInv'
  OBVIOUS
<1>1. CASE Connect
  BY <1>1, ConnectKeeps
<1>2. CASE Ask
  BY <1>2, AskKeeps
<1>3. CASE SendBreak
  BY <1>3, SendBreakKeeps
<1>4. CASE WhileAck
  BY <1>4, WhileAckFacts, HearsPlusKeeps, HearsMinusKeeps, HearsAnswerKeeps DEF SessionInv
<1>5. CASE WhileAnswer
  BY <1>5, RejectsAnswerKeeps, TakesAnswerKeeps
<1>6. CASE HostTimeout
  BY <1>6, HostTimeoutKeeps
<1>7. CASE Line
  BY <1>7, LoseToStubKeeps, LoseToHostKeeps, DamageRequestKeeps, DamageAnswerKeeps DEF Line
<1>8. CASE Stub
  BY <1>8, WritePacketKeeps, AwaitAckKeeps, AwaitTimeoutKeeps, SkipByteKeeps, RejectPacketKeeps,
     AcceptPacketKeeps, EnterLoopKeeps DEF Stub
<1>9. CASE Except
  BY <1>9, ExceptKeeps
<1>10. CASE gdb_tick_handler
  BY <1>10, TickKeeps
<1>11. CASE Checkpoint
  BY <1>11, CheckpointTestKeeps, CheckpointStopKeeps DEF Checkpoint
<1>12. CASE Over \/ UNCHANGED sessionvars
  BY <1>12, StutterKeeps DEF Over
<1>. QED  BY <1>1, <1>2, <1>3, <1>4, <1>5, <1>6, <1>7, <1>8, <1>9, <1>10, <1>11, <1>12
          DEF SessionNext, Host

\* What the session owes at every moment: the counters, what may be on the line with what,
\* and for whatever is missing from it the loss that took it.
THEOREM SessionInvariant == SessionSpec => []SessionInv
<1>1. SessionInit => SessionInv
  BY SessionStarts
<1>2. SessionInv /\ [SessionNext]_sessionvars => SessionInv'
  BY SessionStep
<1>. QED  BY <1>1, <1>2, PTL DEF SessionSpec

-----------------------------------------------------------------------------
(***************************************************************************)
(* What follows from it.                                                   *)
(***************************************************************************)
\* The variables have their types, the mutex is held exactly while the stub uses the line,
\* and neither end is ahead of the other.
THEOREM SessionTypes == SessionSpec => []SessionTypeOK
<1>1. ASSUME SessionInv
      PROVE  SessionTypeOK
  <2>1. ScalarsOK /\ LinesOK
    BY <1>1 DEF SessionInv
  <2>2. ToSet(toStub) \subseteq HostTokens /\ ToSet(toHost) \subseteq StubTokens
    BY <2>1, TokensOf DEF LinesOK
  <2>3. handler_mutex = (at \in {"write", "await", "read"})
    <3>1. handler_mutex \in BOOLEAN /\ (handler_mutex <=> at \in {"write", "await", "read"})
      BY <2>1 DEF ScalarsOK
    <3>. QED  BY <3>1
  <2>4. /\ host \in {"away", "idle", "ack", "answer"}
        /\ kind \in Kinds
        /\ request \in 0 .. MaxRequests /\ answer \in 0 .. request /\ done \in 0 .. request
        /\ breaks \in 0 .. MaxBreaks /\ faults \in 0 .. MaxFaults
        /\ at \in {"program", "checkpoint", "enter", "write", "await", "read"}
        /\ missing \in [{"request", "ack", "answer"} -> SUBSET (0 .. request)]
        /\ again \subseteq 1 .. done /\ seen \subseteq Events
    BY <2>1 DEF ScalarsOK
  <2>5. host_no_ack \in BOOLEAN /\ no_ack_mode \in BOOLEAN /\ was_interrupted \in BOOLEAN
    BY <2>1 DEF ScalarsOK
  <2>. QED
    BY <2>2, <2>3, <2>4, <2>5 DEF SessionTypeOK, HostTokens, StubTokens
<1>. QED  BY <1>1, SessionInvariant, PTL

\* A request is only carried out again when the line lost the '+' for this very request: no
\* packet that the stub took for a bad acknowledgement, no damaged copy and no timeout has
\* this effect.
THEOREM AgainOnlyIfAckLost == SessionSpec => []DoneTwiceOnlyIfAckLost
<1>1. SessionInv => DoneTwiceOnlyIfAckLost
  BY DEF SessionInv, LossesOK, DoneTwiceOnlyIfAckLost
<1>. QED  BY <1>1, SessionInvariant, PTL

\* The session halts in no other way than the three of HaltedOnlyByLoss, and each is the
\* work of the line: it lost or damaged an answer, the '+' or a copy of the very request that
\* the debugger waits for.
THEOREM HaltsExplained == SessionSpec => []HaltedOnlyByLoss
<1>1. ASSUME SessionInv, Wedged
      PROVE  /\ request \in missing.answer
             /\ seen \cap {"resent", "early"} # {} \/ no_ack_mode
  <2>1. host = "answer" /\ at = "read" /\ done = request /\ Packets(toHost) = {}
    BY <1>1 DEF Wedged
  <2>2. \A j \in DOMAIN toHost : ~AnswerAt(j)
    BY <2>1 DEF Packets, ToSet, AnswerAt
  <2>3. ~Promised /\ Heard
    BY <2>1, <2>2 DEF Promised, Takes, Heard
  <2>4. request \in missing.answer
    BY <1>1, <2>1, <2>3 DEF SessionInv, LossesOK
  <2>5. ~Clean \/ no_ack_mode
    BY <1>1, <2>1 DEF SessionInv, Orderly, InOrder
  <2>. QED  BY <2>4, <2>5 DEF Clean
<1>2. ASSUME SessionInv, Unheard
      PROVE  kind = "noack" /\ request \in missing.ack
  <2>1. host = "ack" /\ no_ack_mode /\ \A token \in ToSet(toHost) : token.t # "+"
    BY <1>2 DEF Unheard
  <2>2. ~host_no_ack
    BY <1>2, <2>1 DEF SessionInv, OneOutstanding
  <2>3. kind = "noack" /\ done = request
    BY <1>2, <2>1, <2>2 DEF SessionInv, NoAckOK
  <2>4. \A i \in DOMAIN toHost : ~PlusAt(i)
    BY <2>1 DEF ToSet, PlusAt
  <2>5. request \in missing.ack
    BY <1>2, <2>1, <2>3, <2>4 DEF SessionInv, LossesOK
  <2>. QED  BY <2>3, <2>5
<1>3. ASSUME SessionInv, Dropped
      PROVE  no_ack_mode /\ request \in missing.request
  <2>1. /\ host = "answer" /\ host_no_ack /\ done # request
        /\ \A token \in Packets(toStub) : ~token.good
    BY <1>3 DEF Dropped
  <2>2. ~Requested
    BY <2>1 DEF Requested, RequestAt, Packets, ToSet
  <2>. QED  BY <1>3, <2>1, <2>2 DEF SessionInv, LossesOK, NoAckOK
<1>4. SessionInv => HaltedOnlyByLoss
  BY <1>1, <1>2, <1>3 DEF HaltedOnlyByLoss
<1>. QED  BY <1>4, SessionInvariant, PTL

\* What a tick finds on the line of a running program, and so what can stop the program at a
\* checkpoint: a break, an acknowledgement after a packet was sent again or the debugger came
\* early, the request of a debugger that came before the first stop, or the continue that
\* the program runs after, sent again as the line lost its '+'.
THEOREM StopsExplained == SessionSpec => []UnaskedStopExplained
<1>1. ASSUME SessionInv, ~handler_mutex, NEW token \in ToSet(toStub)
      PROVE  \/ token = Break
             \/ token.t \in {"+", "-"} /\ seen \cap {"resent", "early"} # {}
             \/ token.t = "$" /\ done = 0 /\ "early" \in seen
             \/ /\ token.t = "$" /\ token.kind = "continue"
                /\ token.n = done /\ done \in missing.ack
  <2>1. Running
    BY <1>1 DEF SessionInv, ScalarsOK, Running
  <2>2. PICK i \in DOMAIN toStub : toStub[i] = token
    BY DEF ToSet
  <2>3. token \in HostTokens
    BY <1>1, <2>2, Places DEF SessionInv, LinesOK
  <2>4. CASE token.t = "break"
    BY <2>3, <2>4, HostTokenShapes
  <2>5. CASE token.t \in {"+", "-"}
    <3>1. ~Clean
      BY <1>1, <2>1, <2>2, <2>5 DEF SessionInv, StopsOK
    <3>. QED  BY <2>5, <3>1 DEF Clean
  <2>6. CASE token.t = "rest"
    BY <1>1, <2>2, <2>6 DEF SessionInv, StopsOK
  <2>7. CASE token.t = "$"
    BY <1>1, <2>1, <2>2, <2>7, RequestOfRunning DEF RequestAt
  <2>. QED  BY <2>3, <2>4, <2>5, <2>6, <2>7, HostTokenShapes
<1>2. ASSUME SessionInv, at = "checkpoint"
      PROVE  breaks # 0 \/ seen \cap {"resent", "early"} # {} \/ missing.ack # {}
  BY <1>2 DEF SessionInv, StopsOK, Clean
<1>3. SessionInv => UnaskedStopExplained
  BY <1>1, <1>2 DEF UnaskedStopExplained
<1>. QED  BY <1>3, SessionInvariant, PTL

-----------------------------------------------------------------------------
(***************************************************************************)
(* The refinement of RequestReply.                                         *)
(***************************************************************************)
\* A debugger that knows no more to ask has its last answer, and asks.
LEMMA AskIsRequest == SessionInv /\ Ask => Abstract!Request
BY DEF SessionInv, CountersOK, Ask, history, stubvars, Abstract!Request

\* The stub does what was asked of it, once or, when it has done it before, again; no other
\* request than the last one reaches it.
LEMMA AcceptIsDo ==
  ASSUME SessionInv, AcceptPacket
  PROVE  Abstract!Do \/ UNCHANGED <<request, done, answer>>
<1>1. /\ toStub # <<>> /\ toStub' = Tail(toStub) /\ toStub[1].t = "$"
      /\ done' = toStub[1].n /\ UNCHANGED hostvars
  BY AcceptFacts DEF SessionInv
<1>2. 1 \in DOMAIN toStub
  BY <1>1, RestFollows DEF SessionInv
<1>3. toStub[1].n = request
  BY <1>1, <1>2 DEF SessionInv, CountersOK, RequestAt
<1>4. done' = request /\ UNCHANGED <<request, answer>>
  BY <1>1, <1>3 DEF hostvars
<1>5. done <= request /\ done \in Nat /\ request \in Nat
  BY SessionAssumption DEF SessionInv, ScalarsOK
<1>6. done < request \/ done = request
  BY <1>5
<1>. QED  BY <1>4, <1>6 DEF Abstract!Do

\* The debugger takes an answer: to its last request, and after that was done.
LEMMA TakesIsAnswered ==
  ASSUME SessionInv, WhileAnswer
  PROVE  Abstract!Answered \/ UNCHANGED <<request, done, answer>>
<1>1. /\ toHost[1].n = request /\ done = request /\ request = answer + 1 /\ toHost[1].t = "$"
  BY FoundAnswer
<1>2. UNCHANGED <<request, done>> /\ (answer' = toHost[1].n \/ answer' = answer)
  BY <1>1, WhileAnswerFacts DEF SessionInv, stubvars
<1>3. answer < request
  BY <1>1 DEF SessionInv, ScalarsOK
<1>. QED  BY <1>1, <1>2, <1>3 DEF Abstract!Answered

\* Every step of the session is one of RequestReply's, or none.
LEMMA StepImplements ==
  SessionInv /\ [SessionNext]_sessionvars => [Abstract!RRNext]_(Abstract!rrvars)
<1>. SUFFICES ASSUME SessionInv, [SessionNext]_sessionvars
              PROVE  Abstract!RRNext \/ UNCHANGED <<request, done, answer>>
  BY DEF Abstract!rrvars
<1>1. CASE Ask
  BY <1>1, AskIsRequest DEF Abstract!RRNext
<1>2. CASE AcceptPacket
  BY <1>2, AcceptIsDo DEF Abstract!RRNext
<1>3. CASE WhileAnswer
  BY <1>3, TakesIsAnswered DEF Abstract!RRNext
<1>4. CASE WhileAck
  BY <1>4, WhileAckFacts DEF SessionInv, stubvars
<1>5. CASE Connect \/ SendBreak
  BY <1>5 DEF Connect, SendBreak, stubvars
<1>6. CASE HostTimeout
  BY <1>6 DEF HostTimeout, hostvars, stubvars
<1>7. CASE Line
  BY <1>7 DEF Line, LoseToStub, LoseToHost, DamageRequest, DamageAnswer, Hit, hostvars, stubvars
<1>8. CASE WritePacket \/ AwaitAck \/ AwaitTimeout \/ EnterLoop
  BY <1>8 DEF WritePacket, AwaitAck, AwaitTimeout, EnterLoop, hostvars
<1>9. CASE SkipByte \/ RejectPacket
  BY <1>9 DEF SkipByte, RejectPacket, hostvars, stubvars
<1>10. CASE Except \/ gdb_tick_handler \/ Checkpoint
  BY <1>10 DEF Except, gdb_tick_handler, Checkpoint, CheckpointTest, CheckpointStop, hostvars
<1>11. CASE Over \/ UNCHANGED sessionvars
  BY <1>11 DEF Over, sessionvars, hostvars, stubvars
<1>. QED  BY <1>1, <1>2, <1>3, <1>4, <1>5, <1>6, <1>7, <1>8, <1>9, <1>10, <1>11
          DEF SessionNext, Host, Stub

\* Whatever the line loses, damages or delays, the debugger sees a sequence of requests, each
\* done and then answered.
THEOREM SessionImplementsRequestReply == SessionSpec => ImplementsRequestReply
<1>1. SessionInit => Abstract!RRInit
  BY DEF SessionInit, Abstract!RRInit
<1>2. SessionInv /\ [SessionNext]_sessionvars => [Abstract!RRNext]_(Abstract!rrvars)
  BY StepImplements
<1>. QED  BY <1>1, <1>2, SessionInvariant, PTL DEF SessionSpec, ImplementsRequestReply, Abstract!RRSpec
=============================================================================
