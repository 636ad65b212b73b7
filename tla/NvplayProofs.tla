---------------------------- MODULE NvplayProofs ----------------------------
(***************************************************************************)
(* Proofs about the life of the process (Nvplay), for both builds, any set *)
(* of signals, any device list and any card.                               *)
(*                                                                         *)
(* The safety properties of Nvplay are not inductive.  ResourceInv adds    *)
(* what cleanup relies on: what every frame has passed in the release      *)
(* order is null (Passed) and what main has not acquired yet is null and   *)
(* free (NotYet), so that a frame frozen anywhere leaves to the one on top *)
(* of it exactly the pointers that are still set.                          *)
(***************************************************************************)
EXTENDS Nvplay, Nv3Proofs, NvPciProofs, TLAPS

InCleanup == {"test", "release", "clear"}

\* Where the frames can be: handlers are off or in cleanup, a frame is frozen
\* under the running one only if that one is a handler, cursors stay in range.
FramesOK ==
  /\ pc["main"] # "off"
  /\ pc[running] # "off"
  /\ \A s \in Signals : /\ pc[s] \in {"off"} \cup InCleanup
                        /\ pc[s] = "off" => cursor[s] = 1
                        /\ running = "main" => pc[s] = "off"
  /\ pc["main"] \in {"acquire", "store"} => cursor["main"] <= Last
  /\ pc["main"] = "undo" => /\ ~USE_VIRTUAL_PCI
                            /\ cursor["main"] \in mem_fd .. Last
  /\ \A f \in Frames : pc[f] \in {"release", "clear"} => cursor[f] <= Last
  /\ code # 0 => pc["main"] \in InCleanup \cup {"exit"}

\* What main has not come to acquire yet is null and not held.
Untouched(r) == ptr[r] = "null" /\ ~held[r]

NotYet ==
  \A r \in Resource :
    /\ pc["main"] = "acquire" /\ r >= cursor["main"] => Untouched(r)
    /\ pc["main"] = "store" /\ r > cursor["main"] => Untouched(r)
    /\ pc["main"] = "store" /\ r = cursor["main"] => ptr[r] = "null"
    /\ pc["main"] = "detect" /\ ~USE_VIRTUAL_PCI /\ r > pacc => Untouched(r)
    /\ pc["main"] = "exit" => Untouched(r)

\* As long as no signal has come, main holds all it has acquired so far.
MainOwns ==
  running = "main" =>
    \A r \in Resource :
      \/ pc["main"] = "nv3"
      \/ pc["main"] = "detect" /\ (USE_VIRTUAL_PCI \/ r = pacc)
      \/ ~USE_VIRTUAL_PCI /\ pc["main"] \in {"acquire", "store"} /\ r < cursor["main"]
      => held[r] /\ ptr[r] = "addr"

\* What is held has its pointer set, unless the store was cut off.
HeldHasPtr == \A r \in Resource : held[r] => ptr[r] = "addr" \/ CutAt(r)

\* What a frame is about to reset is no longer held.
Released == \A f \in Frames : pc[f] = "clear" => ~held[Nth(cursor[f])]

\* What a frame has passed in the release order is null.
Passed ==
  \A f \in Frames : pc[f] \in InCleanup =>
    \A n \in Resource : n < cursor[f] => ptr[Nth(n)] = "null"

\* The running frame releases what it has just found set.
SetAtRelease ==
  pc[running] = "release" => ptr[Nth(cursor[running])] # "null"

\* A process that has exited passed every resource in the frame that exited.
AllPassed ==
  status = "exited" => /\ \A r \in Resource : ptr[r] = "null"
                       /\ running = "main" => pc["main"] # "store"

\* A pointer to what is not held is one of a mapping (or of the descriptor) that a
\* failed init_mmio_mappings undid, or a frame is frozen before its reset.
Undone(r) == ~OnHeap(r) /\ (pc["main"] = "undo" \/ code = 4)

Stale == \A r \in Resource : ptr[r] # "null" /\ ~held[r] =>
           Undone(r) \/ \E f \in Frames : Clearing(f, r)

ResourceInv ==
  /\ NvplayTypeOK
  /\ FramesOK
  /\ NotYet
  /\ MainOwns
  /\ HeldHasPtr
  /\ Released
  /\ Passed
  /\ SetAtRelease
  /\ AllPassed
  /\ Stale
  /\ KilledOnlyByReentry

-----------------------------------------------------------------------------
\* The resources are three or five, and the release order is its own inverse.
LEMMA ReleaseOrder ==
  /\ Last \in {3, 5}
  /\ Resource = 1 .. Last
  /\ \A n \in Resource : Nth(n) \in Resource /\ Nth(Nth(n)) = n
  /\ "main" \in Frames
  /\ \A s \in Signals : s \in Frames /\ s # "main"
BY BuildOption, SignalsAreNotMain DEF Last, Resource, Nth, Frames

\* The invariant holds before main acquires anything.
LEMMA InitResourceInv == NvplayInit => ResourceInv
<1> SUFFICES ASSUME NvplayInit PROVE ResourceInv
  OBVIOUS
<1> USE DEF NvplayInit
<1>1. NvplayTypeOK
  BY ReleaseOrder DEF NvplayTypeOK, Labels
<1>2. FramesOK
  BY ReleaseOrder DEF FramesOK, InCleanup
<1>3. NotYet /\ MainOwns /\ HeldHasPtr /\ Stale
  BY ReleaseOrder DEF NotYet, Untouched, MainOwns, HeldHasPtr, Stale
<1>4. Released /\ Passed /\ SetAtRelease /\ AllPassed /\ KilledOnlyByReentry
  BY ReleaseOrder DEF Released, Passed, InCleanup, SetAtRelease, AllPassed, KilledOnlyByReentry
<1> QED
  BY <1>1, <1>2, <1>3, <1>4 DEF ResourceInv

-----------------------------------------------------------------------------
(***************************************************************************)
(* Facts that the steps share.                                             *)
(***************************************************************************)

\* While main goes up and no signal has come, main is the only frame, it has not
\* failed, and every pointer that is set is one of something held.
LEMMA GoingUp ==
  ASSUME ResourceInv, running = "main",
         pc["main"] \in {"acquire", "store", "detect", "nv3"}
  PROVE  /\ code = 0
         /\ \A f \in Frames : f # "main" => pc[f] = "off"
         /\ \A f \in Frames : pc[f] \notin InCleanup
         /\ \A r \in Resource : ptr[r] # "null" => held[r]
<1> USE ReleaseOrder DEF ResourceInv, NvplayTypeOK, FramesOK, InCleanup
<1>1. code = 0
  OBVIOUS
<1>2. \A f \in Frames : f # "main" => pc[f] = "off"
  BY DEF Frames
<1>3. \A f \in Frames : pc[f] \notin InCleanup
  BY <1>2
<1>4. \A r \in Resource : ptr[r] # "null" => held[r]
  BY <1>1, <1>3 DEF Stale, Undone, Clearing
<1> QED
  BY <1>1, <1>2, <1>3, <1>4

\* A step of one frame leaves the types and the other frames as they are.
LEMMA GoToTypes ==
  ASSUME ResourceInv, NEW f \in Frames, NEW label \in Labels, NEW n \in 1 .. Last + 1,
         GoTo(f, label, n)
  PROVE  /\ running' \in Frames
         /\ pc' \in [Frames -> Labels] /\ pc'[f] = label
         /\ cursor' \in [Frames -> 1 .. Last + 1] /\ cursor'[f] = n
         /\ \A g \in Frames : g # f => pc'[g] = pc[g] /\ cursor'[g] = cursor[g]
BY DEF ResourceInv, NvplayTypeOK, GoTo

-----------------------------------------------------------------------------
(***************************************************************************)
(* Each action keeps the invariant.                                        *)
(***************************************************************************)

\* Detection, bring-up and rest do not touch the state of the process.
LEMMA KeepProcess == ASSUME ResourceInv, UNCHANGED procvars PROVE ResourceInv'
<1> USE DEF procvars
<1>1. NvplayTypeOK' /\ FramesOK'
  BY DEF ResourceInv, NvplayTypeOK, FramesOK
<1>2. NotYet' /\ MainOwns' /\ HeldHasPtr' /\ Released'
  BY DEF ResourceInv, NotYet, Untouched, MainOwns, HeldHasPtr, CutAt, Released
<1>3. Passed' /\ SetAtRelease' /\ AllPassed'
  BY DEF ResourceInv, Passed, SetAtRelease, AllPassed
<1>4. Stale' /\ KilledOnlyByReentry'
  BY DEF ResourceInv, Stale, Undone, KilledOnlyByReentry, Clearing
<1> QED
  BY <1>1, <1>2, <1>3, <1>4 DEF ResourceInv

\* The next resource is free and its pointer null: whatever the call returns, only
\* the store that follows is missing.
LEMMA KeepAcquireNext == ASSUME ResourceInv, AcquireNext PROVE ResourceInv'
<1> USE ReleaseOrder DEF ResourceInv, NvplayTypeOK, FramesOK, AcquireNext, At,
        GoTo, framevars, mem_fd, pacc
<1>1. /\ code = 0
      /\ \A f \in Frames : f # "main" => pc[f] = "off"
      /\ \A f \in Frames : pc[f] \notin InCleanup
      /\ \A r \in Resource : ptr[r] # "null" => held[r]
  BY GoingUp
<1>2. NvplayTypeOK'
  BY <1>1, SMTT(30) DEF Labels
<1>3. FramesOK'
  BY <1>1, SMTT(30) DEF InCleanup
<1>4. NotYet' /\ MainOwns'
  BY <1>1, SMTT(30) DEF NotYet, Untouched, MainOwns
<1>5. HeldHasPtr' /\ Released'
  BY <1>1, SMTT(30) DEF HeldHasPtr, CutAt, Released
<1>6. Passed' /\ SetAtRelease'
  BY <1>1, SMTT(30) DEF Passed, SetAtRelease, InCleanup
<1>7. AllPassed' /\ KilledOnlyByReentry'
  BY <1>1, SMTT(30) DEF AllPassed, KilledOnlyByReentry, Clearing
<1>8. Stale'
  BY <1>1, SMTT(30) DEF Stale, Undone, OnHeap, Clearing, NotYet, Untouched
<1> QED
  BY <1>2, <1>3, <1>4, <1>5, <1>6, <1>7, <1>8

\* A successful call: the pointer is set to what is held.
LEMMA KeepStoreAndGoOn == ASSUME ResourceInv, StoreAndGoOn PROVE ResourceInv'
<1> USE ReleaseOrder DEF ResourceInv, NvplayTypeOK, FramesOK, StoreAndGoOn, At,
        GoTo, framevars, mem_fd, pacc, StoreResult, ResultOf
<1>1. /\ code = 0
      /\ \A f \in Frames : f # "main" => pc[f] = "off"
      /\ \A f \in Frames : pc[f] \notin InCleanup
      /\ \A r \in Resource : ptr[r] # "null" => held[r]
  BY GoingUp
<1>2. NvplayTypeOK'
  BY <1>1, SMTT(30) DEF Labels
<1>3. FramesOK'
  BY <1>1, SMTT(30) DEF InCleanup
<1>4. NotYet' /\ MainOwns'
  BY <1>1, SMTT(30) DEF NotYet, Untouched, MainOwns, Last, Resource
<1>5. HeldHasPtr' /\ Released'
  BY <1>1, SMTT(30) DEF HeldHasPtr, CutAt, Released
<1>6. Passed' /\ SetAtRelease'
  BY <1>1, SMTT(30) DEF Passed, SetAtRelease, InCleanup
<1>7. AllPassed' /\ KilledOnlyByReentry'
  BY <1>1, SMTT(30) DEF AllPassed, KilledOnlyByReentry, Clearing
<1>8. Stale'
  BY <1>1, SMTT(30) DEF Stale, Undone, OnHeap, Clearing
<1> QED
  BY <1>2, <1>3, <1>4, <1>5, <1>6, <1>7, <1>8

\* pci_init fails before anything is held.
LEMMA KeepStoreNoPacc == ASSUME ResourceInv, StoreNoPacc PROVE ResourceInv'
<1> USE ReleaseOrder DEF ResourceInv, NvplayTypeOK, FramesOK, StoreNoPacc, At,
        GoTo, framevars, mem_fd, pacc, StoreResult, ResultOf, OnHeap
<1>1. /\ code = 0
      /\ \A f \in Frames : f # "main" => pc[f] = "off"
      /\ \A f \in Frames : pc[f] \notin InCleanup
      /\ \A r \in Resource : ptr[r] # "null" => held[r]
  BY GoingUp
<1>2. NvplayTypeOK'
  BY <1>1, SMTT(30) DEF Labels
<1>3. FramesOK'
  BY <1>1, SMTT(30) DEF InCleanup
<1>4. NotYet' /\ MainOwns'
  BY <1>1, SMTT(30) DEF NotYet, Untouched, MainOwns
<1>5. HeldHasPtr' /\ Released'
  BY <1>1, SMTT(30) DEF HeldHasPtr, CutAt, Released
<1>6. Passed' /\ SetAtRelease'
  BY <1>1, SMTT(30) DEF Passed, SetAtRelease, InCleanup
<1>7. AllPassed' /\ KilledOnlyByReentry'
  BY <1>1, SMTT(30) DEF AllPassed, KilledOnlyByReentry, Clearing
<1>8. Stale'
  BY <1>1, SMTT(30) DEF Stale, Undone, OnHeap, Clearing
<1> QED
  BY <1>2, <1>3, <1>4, <1>5, <1>6, <1>7, <1>8

\* Nothing but pacc is held when /dev/mem does not open.
LEMMA KeepStoreNoMemFd == ASSUME ResourceInv, StoreNoMemFd PROVE ResourceInv'
<1> USE ReleaseOrder DEF ResourceInv, NvplayTypeOK, FramesOK, StoreNoMemFd, At,
        GoTo, framevars, mem_fd, pacc, StoreResult, ResultOf, FailFrom, OnHeap
<1>1. /\ code = 0
      /\ \A f \in Frames : f # "main" => pc[f] = "off"
      /\ \A f \in Frames : pc[f] \notin InCleanup
      /\ \A r \in Resource : ptr[r] # "null" => held[r]
  BY GoingUp
<1>2. NvplayTypeOK'
  BY <1>1, SMTT(30) DEF Labels
<1>3. FramesOK'
  BY <1>1, SMTT(30) DEF InCleanup
<1>4. NotYet' /\ MainOwns'
  BY <1>1, SMTT(30) DEF NotYet, Untouched, MainOwns
<1>5. HeldHasPtr' /\ Released'
  BY <1>1, SMTT(30) DEF HeldHasPtr, CutAt, Released
<1>6. Passed' /\ SetAtRelease'
  BY <1>1, SMTT(30) DEF Passed, SetAtRelease, InCleanup
<1>7. AllPassed' /\ KilledOnlyByReentry'
  BY <1>1, SMTT(30) DEF AllPassed, KilledOnlyByReentry, Clearing
<1>8. Stale'
  BY <1>1, SMTT(30) DEF Stale, Undone, OnHeap, Clearing
<1> QED
  BY <1>2, <1>3, <1>4, <1>5, <1>6, <1>7, <1>8

\* A failed mmap leaves MAP_FAILED, which Undone excuses.
LEMMA KeepStoreNoMapping == ASSUME ResourceInv, StoreNoMapping PROVE ResourceInv'
<1> USE ReleaseOrder DEF ResourceInv, NvplayTypeOK, FramesOK, StoreNoMapping, At,
        GoTo, framevars, mem_fd, pacc, StoreResult, ResultOf, OnHeap
<1>1. /\ code = 0
      /\ \A f \in Frames : f # "main" => pc[f] = "off"
      /\ \A f \in Frames : pc[f] \notin InCleanup
      /\ \A r \in Resource : ptr[r] # "null" => held[r]
  BY GoingUp
<1>2. NvplayTypeOK'
  BY <1>1, SMTT(30) DEF Labels
<1>3. FramesOK'
  BY <1>1, SMTT(30) DEF InCleanup
<1>4. NotYet' /\ MainOwns'
  BY <1>1, SMTT(30) DEF NotYet, Untouched, MainOwns
<1>5. HeldHasPtr' /\ Released'
  BY <1>1, SMTT(30) DEF HeldHasPtr, CutAt, Released
<1>6. Passed' /\ SetAtRelease'
  BY <1>1, SMTT(30) DEF Passed, SetAtRelease, InCleanup
<1>7. AllPassed' /\ KilledOnlyByReentry'
  BY <1>1, SMTT(30) DEF AllPassed, KilledOnlyByReentry, Clearing
<1>8. Stale'
  BY <1>1, SMTT(30) DEF Stale, Undone, OnHeap, Clearing
<1> QED
  BY <1>2, <1>3, <1>4, <1>5, <1>6, <1>7, <1>8

\* The error paths of init_mmio_mappings release without resetting; code is 4 when
\* they end.
LEMMA KeepUndo == ASSUME ResourceInv, Undo PROVE ResourceInv'
<1> USE ReleaseOrder DEF ResourceInv, NvplayTypeOK, FramesOK, At, mem_fd
<1> DEFINE a == cursor["main"]
<1>1. /\ pc["main"] = "undo" /\ running = "main" /\ status = "live"
      /\ a \in Resource /\ a >= mem_fd /\ ~USE_VIRTUAL_PCI
      /\ held' = [held EXCEPT ![a] = FALSE] /\ UNCHANGED <<ptr, status>>
  BY DEF Undo
<1>2. \/ GoTo("main", "undo", a - 1) /\ UNCHANGED code /\ a - 1 >= mem_fd
      \/ GoTo("main", "test", 1) /\ code' = 4
  <2>1. \/ a > mem_fd /\ GoTo("main", "undo", a - 1) /\ UNCHANGED code
        \/ FailFrom(4, 1)
    BY Zenon DEF Undo
  <2>2. a > mem_fd => a - 1 >= mem_fd
    BY <1>1 DEF Resource, Last
  <2> QED
    BY <2>1, <2>2 DEF FailFrom
<1>3. code' \in 0 .. 4
  <2>1. code' \in {code, 4}
    BY <1>2
  <2>2. code \in 0 .. 4
    OBVIOUS
  <2> QED
    BY ONLY <2>1, <2>2
<1>4. /\ running' = "main" /\ pc' \in [Frames -> Labels] /\ cursor' \in [Frames -> 1 .. Last + 1]
      /\ pc'["main"] \in {"undo", "test"}
      /\ pc'["main"] = "test" => cursor'["main"] = 1
      /\ pc'["main"] = "undo" => cursor'["main"] \in mem_fd .. Last
      /\ code' # 0 => pc'["main"] = "test"
      /\ \A f \in Frames : f # "main" => pc'[f] = pc[f] /\ cursor'[f] = cursor[f]
      /\ pc'["main"] = "undo" \/ code' = 4
  <2>1. CASE GoTo("main", "undo", a - 1) /\ UNCHANGED code /\ a - 1 >= mem_fd
    BY <1>1, <2>1 DEF GoTo, Labels, InCleanup
  <2>2. CASE GoTo("main", "test", 1) /\ code' = 4
    BY <1>1, <2>2 DEF GoTo, Labels
  <2> QED
    BY <1>2, <2>1, <2>2
<1>5. NvplayTypeOK'
  BY <1>1, <1>3, <1>4
<1>6. FramesOK'
  BY <1>1, <1>4 DEF InCleanup
<1>7. NotYet' /\ MainOwns' /\ HeldHasPtr'
  BY <1>1, <1>4 DEF NotYet, MainOwns, HeldHasPtr, CutAt
<1>8. Released'
  <2> SUFFICES ASSUME NEW f \in Frames, pc'[f] = "clear" PROVE ~held'[Nth(cursor'[f])]
    BY DEF Released
  <2>1. pc[f] = "clear" /\ cursor'[f] = cursor[f]
    BY <1>4
  <2>2. Nth(cursor[f]) \in Resource /\ ~held[Nth(cursor[f])]
    BY <2>1 DEF Released, Resource
  <2> QED
    BY <1>1, <2>1, <2>2
<1>9. Passed'
  <2> SUFFICES ASSUME NEW f \in Frames, pc'[f] \in InCleanup,
                      NEW n \in Resource, n < cursor'[f]
               PROVE  ptr'[Nth(n)] = "null"
    BY DEF Passed
  <2>1. CASE f = "main"
    BY <1>4, <2>1 DEF InCleanup, Resource
  <2>2. CASE f # "main"
    BY <1>1, <1>4, <2>2 DEF Passed
  <2> QED
    BY <2>1, <2>2
<1>10. SetAtRelease'
  BY <1>1, <1>4 DEF SetAtRelease
<1>11. AllPassed' /\ KilledOnlyByReentry'
  BY <1>1, <1>4 DEF AllPassed, KilledOnlyByReentry
<1>12. Stale'
  BY <1>1, <1>4 DEF Stale, Undone, OnHeap, pacc, Clearing
<1> QED
  BY <1>5, <1>6, <1>10, <1>8, <1>7, <1>9, <1>11, <1>12

\* The last calloc of the virtual build decides for all three.
LEMMA KeepStoreVirtual == ASSUME ResourceInv, StoreVirtual PROVE ResourceInv'
<1> USE ReleaseOrder DEF ResourceInv, NvplayTypeOK, FramesOK, At
<1> DEFINE a == cursor["main"]
<1>1. /\ code = 0
      /\ \A f \in Frames : f # "main" => pc[f] = "off"
      /\ \A r \in Resource : ptr[r] # "null" => held[r]
      /\ pc["main"] = "store" /\ running = "main" /\ status = "live"
      /\ a \in Resource /\ USE_VIRTUAL_PCI
      /\ ptr' = [ptr EXCEPT ![a] = IF held[a] THEN "addr" ELSE "null"]
      /\ UNCHANGED <<held, status>>
  BY GoingUp DEF StoreVirtual, StoreResult, ResultOf, OnHeap
<1>2. \A r \in Resource : ptr'[r] # "null" => held[r] /\ ptr'[r] = "addr"
  BY <1>1 DEF HeldHasPtr, CutAt
<1>3. \/ GoTo("main", "acquire", a + 1) /\ UNCHANGED code /\ a < Last
      \/ /\ GoTo("main", "detect", a) /\ UNCHANGED code
         /\ \A r \in Resource : ptr'[r] # "null"
      \/ GoTo("main", "test", 1) /\ code' = 1
  BY DEF StoreVirtual, FailFrom
<1>4. /\ running' = "main" /\ pc' \in [Frames -> Labels] /\ cursor' \in [Frames -> 1 .. Last + 1]
      /\ code' \in 0 .. 4
      /\ pc'["main"] \in {"acquire", "detect", "test"}
      /\ pc'["main"] = "acquire" => cursor'["main"] = a + 1 /\ a < Last
      /\ pc'["main"] = "detect" => \A r \in Resource : ptr'[r] # "null"
      /\ pc'["main"] = "test" => cursor'["main"] = 1
      /\ code' # 0 => pc'["main"] = "test"
      /\ \A f \in Frames : f # "main" => pc'[f] = "off" /\ cursor'[f] = cursor[f]
  <2>1. CASE GoTo("main", "acquire", a + 1) /\ UNCHANGED code /\ a < Last
    BY <1>1, <2>1 DEF GoTo, Labels
  <2>2. CASE /\ GoTo("main", "detect", a) /\ UNCHANGED code
             /\ \A r \in Resource : ptr'[r] # "null"
    BY <1>1, <2>2 DEF GoTo, Labels
  <2>3. CASE GoTo("main", "test", 1) /\ code' = 1
    BY <1>1, <2>3 DEF GoTo, Labels
  <2> QED
    BY <1>3, <2>1, <2>2, <2>3
<1>5. NvplayTypeOK'
  BY <1>1, <1>4
<1>6. FramesOK'
  <2>1. \A f \in Frames : pc'[f] \notin {"release", "clear"}
    BY <1>4
  <2>2. ASSUME NEW s \in Signals PROVE pc'[s] = "off" /\ cursor'[s] = 1
    <3>1. s \in Frames /\ s # "main"
      OBVIOUS
    <3>2. pc[s] = "off" /\ cursor[s] = 1
      BY <1>1, <3>1
    <3> QED
      BY <1>4, <3>1, <3>2
  <2>3. /\ pc'["main"] # "off" /\ pc'[running'] # "off"
        /\ pc'["main"] \in {"acquire", "store"} => cursor'["main"] <= Last
        /\ pc'["main"] # "undo"
        /\ code' # 0 => pc'["main"] \in InCleanup \cup {"exit"}
    BY <1>1, <1>4 DEF InCleanup
  <2> QED
    BY <2>1, <2>2, <2>3
<1>7. NotYet' /\ MainOwns'
  BY <1>1, <1>2, <1>4 DEF NotYet, Untouched, MainOwns
<1>8. HeldHasPtr' /\ Released'
  BY <1>1, <1>4 DEF HeldHasPtr, CutAt, Released
<1>9. Passed' /\ SetAtRelease' /\ AllPassed' /\ KilledOnlyByReentry'
  BY <1>1, <1>4 DEF Passed, InCleanup, SetAtRelease, AllPassed, KilledOnlyByReentry
<1>10. Stale'
  BY <1>1, <1>2 DEF Stale
<1> QED
  BY <1>5, <1>6, <1>7, <1>8, <1>9, <1>10

\* On hardware only pacc has been acquired, so that pci_cleanup is enough.
LEMMA KeepNoGpu == ASSUME ResourceInv, NoGpu PROVE ResourceInv'
<1> USE ReleaseOrder DEF ResourceInv, NvplayTypeOK, FramesOK, NoGpu, At,
        GoTo, framevars, mem_fd, pacc, FailFrom, PciCleanupStart
<1>1. /\ code = 0
      /\ \A f \in Frames : f # "main" => pc[f] = "off"
      /\ \A f \in Frames : pc[f] \notin InCleanup
      /\ \A r \in Resource : ptr[r] # "null" => held[r]
  BY GoingUp
<1>2. NvplayTypeOK'
  BY <1>1, SMTT(30) DEF Labels
<1>3. FramesOK'
  BY <1>1, SMTT(30) DEF InCleanup
<1>4. NotYet' /\ MainOwns'
  BY <1>1, SMTT(30) DEF NotYet, Untouched, MainOwns
<1>5. HeldHasPtr' /\ Released'
  BY <1>1, SMTT(30) DEF HeldHasPtr, CutAt, Released
<1>6. Passed' /\ SetAtRelease'
  BY <1>1, SMTT(30) DEF Passed, SetAtRelease, InCleanup, NotYet, Untouched, Nth, Last, Resource
<1>7. AllPassed' /\ KilledOnlyByReentry'
  BY <1>1, SMTT(30) DEF AllPassed, KilledOnlyByReentry, Clearing
<1>8. Stale'
  BY <1>1, SMTT(30) DEF Stale, Undone, OnHeap, Clearing
<1> QED
  BY <1>2, <1>3, <1>4, <1>5, <1>6, <1>7, <1>8

\* The cleanup starts at its first resource.
LEMMA KeepNotYetSupported == ASSUME ResourceInv, NotYetSupported PROVE ResourceInv'
<1> USE ReleaseOrder DEF ResourceInv, NvplayTypeOK, FramesOK, NotYetSupported, At,
        GoTo, framevars, mem_fd, pacc, FailFrom
<1>1. /\ code = 0
      /\ \A f \in Frames : f # "main" => pc[f] = "off"
      /\ \A f \in Frames : pc[f] \notin InCleanup
      /\ \A r \in Resource : ptr[r] # "null" => held[r]
  BY GoingUp
<1>2. NvplayTypeOK'
  BY <1>1, SMTT(30) DEF Labels
<1>3. FramesOK'
  BY <1>1, SMTT(30) DEF InCleanup
<1>4. NotYet' /\ MainOwns'
  BY <1>1, SMTT(30) DEF NotYet, Untouched, MainOwns
<1>5. HeldHasPtr' /\ Released'
  BY <1>1, SMTT(30) DEF HeldHasPtr, CutAt, Released
<1>6. Passed' /\ SetAtRelease'
  BY <1>1, SMTT(30) DEF Passed, SetAtRelease, InCleanup
<1>7. AllPassed' /\ KilledOnlyByReentry'
  BY <1>1, SMTT(30) DEF AllPassed, KilledOnlyByReentry, Clearing
<1>8. Stale'
  BY <1>1, SMTT(30) DEF Stale, Undone, OnHeap, Clearing
<1> QED
  BY <1>2, <1>3, <1>4, <1>5, <1>6, <1>7, <1>8

\* pacc is held when nv3_init begins to acquire the rest.
LEMMA KeepInitFunction == ASSUME ResourceInv, InitFunction PROVE ResourceInv'
<1> USE ReleaseOrder DEF ResourceInv, NvplayTypeOK, FramesOK, InitFunction, At,
        GoTo, framevars, mem_fd, pacc
<1>1. /\ code = 0
      /\ \A f \in Frames : f # "main" => pc[f] = "off"
      /\ \A f \in Frames : pc[f] \notin InCleanup
      /\ \A r \in Resource : ptr[r] # "null" => held[r]
  BY GoingUp
<1>2. NvplayTypeOK'
  BY <1>1, SMTT(30) DEF Labels
<1>3. FramesOK'
  BY <1>1, SMTT(30) DEF InCleanup
<1>4. NotYet' /\ MainOwns'
  BY <1>1, SMTT(30) DEF NotYet, Untouched, MainOwns, Resource, Last
<1>5. HeldHasPtr' /\ Released'
  BY <1>1, SMTT(30) DEF HeldHasPtr, CutAt, Released
<1>6. Passed' /\ SetAtRelease'
  BY <1>1, SMTT(30) DEF Passed, SetAtRelease, InCleanup
<1>7. AllPassed' /\ KilledOnlyByReentry'
  BY <1>1, SMTT(30) DEF AllPassed, KilledOnlyByReentry, Clearing
<1>8. Stale'
  BY <1>1, SMTT(30) DEF Stale, Undone, OnHeap, Clearing
<1> QED
  BY <1>2, <1>3, <1>4, <1>5, <1>6, <1>7, <1>8

\* Coming to rest changes the place of main only.
LEMMA KeepEnterIdle == ASSUME ResourceInv, EnterIdle PROVE ResourceInv'
<1> USE ReleaseOrder DEF ResourceInv, NvplayTypeOK, FramesOK, EnterIdle, At,
        GoTo, framevars, mem_fd, pacc
<1>1. /\ code = 0
      /\ \A f \in Frames : f # "main" => pc[f] = "off"
      /\ \A f \in Frames : pc[f] \notin InCleanup
      /\ \A r \in Resource : ptr[r] # "null" => held[r]
  BY GoingUp
<1>2. NvplayTypeOK'
  BY <1>1, SMTT(30) DEF Labels
<1>3. FramesOK'
  BY <1>1, SMTT(30) DEF InCleanup
<1>4. NotYet' /\ MainOwns'
  BY <1>1, SMTT(30) DEF NotYet, Untouched, MainOwns
<1>5. HeldHasPtr' /\ Released'
  BY <1>1, SMTT(30) DEF HeldHasPtr, CutAt, Released
<1>6. Passed' /\ SetAtRelease'
  BY <1>1, SMTT(30) DEF Passed, SetAtRelease, InCleanup
<1>7. AllPassed' /\ KilledOnlyByReentry'
  BY <1>1, SMTT(30) DEF AllPassed, KilledOnlyByReentry, Clearing
<1>8. Stale'
  BY <1>1, SMTT(30) DEF Stale, Undone, OnHeap, Clearing
<1> QED
  BY <1>2, <1>3, <1>4, <1>5, <1>6, <1>7, <1>8

\* A frame passes a resource only when its pointer is null.
LEMMA KeepTest ==
  ASSUME ResourceInv, NEW f \in Frames, Test(f) PROVE ResourceInv'
<1> USE ReleaseOrder DEF ResourceInv, NvplayTypeOK, FramesOK, At
<1> DEFINE n == cursor[f]
<1>1. /\ pc[f] = "test" /\ running = f /\ status = "live" /\ n \in Resource
      /\ UNCHANGED <<held, ptr, code, status>>
  BY DEF Test
<1>2. \/ ptr[Nth(n)] = "null" /\ GoTo(f, "test", n + 1)
      \/ ptr[Nth(n)] # "null" /\ GoTo(f, "release", n)
  BY DEF Test
<1>3. /\ running' = f /\ pc' \in [Frames -> Labels] /\ cursor' \in [Frames -> 1 .. Last + 1]
      /\ pc'[f] \in {"test", "release"}
      /\ pc'[f] = "release" => cursor'[f] = n /\ ptr[Nth(n)] # "null"
      /\ cursor'[f] = n \/ (cursor'[f] = n + 1 /\ ptr[Nth(n)] = "null")
      /\ \A g \in Frames : g # f => pc'[g] = pc[g] /\ cursor'[g] = cursor[g]
  <2>0. /\ running' = f /\ {n, n + 1} \subseteq 1 .. Last + 1
        /\ {"test", "release"} \subseteq Labels
    BY <1>1, <1>2 DEF GoTo, Labels
  <2>1. CASE ptr[Nth(n)] = "null" /\ GoTo(f, "test", n + 1)
    BY <1>1, <2>0, <2>1, GoToTypes
  <2>2. CASE ptr[Nth(n)] # "null" /\ GoTo(f, "release", n)
    BY <1>1, <2>0, <2>2, GoToTypes
  <2> QED
    BY <1>2, <2>0, <2>1, <2>2
<1>4. NvplayTypeOK'
  BY <1>1, <1>3
<1>5. FramesOK'
  <2>1. \A s \in Signals : /\ pc'[s] \in {"off"} \cup InCleanup
                           /\ pc'[s] = "off" => cursor'[s] = 1
                           /\ running' = "main" => pc'[s] = "off"
    <3> TAKE s \in Signals
    <3>1. CASE s = f
      BY <1>1, <1>3, <3>1 DEF InCleanup
    <3>2. CASE s # f
      BY <1>1, <1>3, <3>2
    <3> QED
      BY <3>1, <3>2
  <2>2. \A g \in Frames : pc'[g] \in {"release", "clear"} => cursor'[g] <= Last
    <3> TAKE g \in Frames
    <3>1. CASE g = f
      BY <1>1, <1>3, <3>1
    <3>2. CASE g # f
      BY <1>1, <1>3, <3>2
    <3> QED
      BY <3>1, <3>2
  <2>3. pc'["main"] # "off" /\ pc'[running'] # "off"
    BY <1>1, <1>3
  <2>4. /\ pc'["main"] \in {"acquire", "store", "undo"} =>
             pc["main"] = pc'["main"] /\ cursor["main"] = cursor'["main"]
        /\ code # 0 => pc'["main"] \in InCleanup \cup {"exit"}
    BY <1>1, <1>3 DEF InCleanup
  <2> QED
    BY <1>1, <2>1, <2>2, <2>3, <2>4
<1>6. NotYet' /\ MainOwns'
  BY <1>1, <1>3 DEF NotYet, MainOwns, Untouched
<1>7. HeldHasPtr' /\ Released'
  <2>1. HeldHasPtr'
    <3> SUFFICES ASSUME NEW r \in Resource, held[r], ptr[r] # "addr" PROVE CutAt(r)'
      BY <1>1 DEF HeldHasPtr
    <3>1. CutAt(r) /\ f # "main"
      BY <1>1 DEF HeldHasPtr, CutAt
    <3> QED
      BY <1>3, <3>1 DEF CutAt
  <2>2. Released'
    BY <1>1, <1>3 DEF Released
  <2> QED
    BY <2>1, <2>2
<1>8. Passed'
  <2> SUFFICES ASSUME NEW g \in Frames, pc'[g] \in InCleanup,
                      NEW m \in Resource, m < cursor'[g]
               PROVE  ptr[Nth(m)] = "null"
    BY <1>1 DEF Passed
  <2>1. CASE g # f
    BY <1>3, <2>1 DEF Passed
  <2>2. CASE g = f
    BY <1>1, <1>3, <2>2 DEF Passed, InCleanup
  <2> QED
    BY <2>1, <2>2
<1>9. SetAtRelease'
  BY <1>1, <1>3 DEF SetAtRelease
<1>10. AllPassed' /\ KilledOnlyByReentry'
  BY <1>1 DEF AllPassed, KilledOnlyByReentry
<1>11. Stale'
  <2> SUFFICES ASSUME NEW r \in Resource, ptr[r] # "null", ~held[r], ~Undone(r)
               PROVE  \E g \in Frames : Clearing(g, r)'
    BY <1>1, <1>3 DEF Stale, Undone
  <2>1. PICK g \in Frames : Clearing(g, r)
    BY DEF Stale
  <2>2. Clearing(g, r)'
    BY <1>1, <1>3, <2>1 DEF Clearing
  <2> QED
    BY <2>2
<1> QED
  BY <1>4, <1>5, <1>6, <1>7, <1>8, <1>9, <1>10, <1>11

\* The resource just released is excused by the frame that released it.
LEMMA KeepReleaseIt == ASSUME ResourceInv, NEW f \in Frames, ReleaseIt(f) PROVE ResourceInv'
<1> USE ReleaseOrder DEF ResourceInv, NvplayTypeOK, FramesOK, ReleaseIt, At,
        GoTo, framevars, mem_fd, pacc
<1>1. /\ \A g \in Frames : g # f => pc'[g] = pc[g] /\ cursor'[g] = cursor[g]
      /\ \A g \in Frames, r \in Resource : g # f /\ Clearing(g, r) => Clearing(g, r)'
  BY DEF Clearing
<1>2. NvplayTypeOK'
  BY <1>1, SMTT(30) DEF Labels
<1>3. FramesOK'
  BY <1>1, SMTT(30) DEF InCleanup
<1>4. NotYet' /\ MainOwns'
  BY <1>1, SMTT(30) DEF NotYet, Untouched, MainOwns
<1>5. HeldHasPtr' /\ Released'
  BY <1>1, SMTT(30) DEF HeldHasPtr, CutAt, Released
<1>6. Passed' /\ SetAtRelease'
  BY <1>1, SMTT(30) DEF Passed, SetAtRelease, InCleanup
<1>7. AllPassed' /\ KilledOnlyByReentry'
  BY <1>1, SMTT(30) DEF AllPassed, KilledOnlyByReentry, Clearing
<1>8. Stale'
  <2>1. Clearing(f, Nth(cursor[f]))'
    BY DEF Clearing
  <2> SUFFICES ASSUME NEW r \in Resource, ptr[r] # "null", ~held[r], ~Undone(r), r # Nth(cursor[f])
               PROVE  \E g \in Frames : Clearing(g, r)'
    BY <2>1 DEF Stale, Undone, OnHeap
  <2>2. PICK g \in Frames : Clearing(g, r)
    BY DEF Stale
  <2>3. g # f
    BY <2>2 DEF Clearing
  <2> QED
    BY <1>1, <2>2, <2>3
<1> QED
  BY <1>2, <1>3, <1>4, <1>5, <1>6, <1>7, <1>8

\* What is released twice is stale, so that another frame is about to reset it.
LEMMA KeepReleaseTwice == ASSUME ResourceInv, NEW f \in Frames, ReleaseTwice(f) PROVE ResourceInv'
<1> USE ReleaseOrder DEF ResourceInv, NvplayTypeOK, FramesOK, ReleaseTwice, At,
        GoTo, framevars, mem_fd, pacc
<1>1. NvplayTypeOK'
  BY SMTT(30) DEF Labels
<1>2. FramesOK'
  BY SMTT(30) DEF InCleanup
<1>3. NotYet' /\ MainOwns'
  BY SMTT(30) DEF NotYet, Untouched, MainOwns
<1>4. HeldHasPtr' /\ Released'
  BY SMTT(30) DEF HeldHasPtr, CutAt, Released
<1>5. Passed' /\ SetAtRelease'
  BY SMTT(30) DEF Passed, SetAtRelease, InCleanup
<1>6. AllPassed' /\ KilledOnlyByReentry'
  BY SMTT(30) DEF AllPassed, KilledOnlyByReentry, Clearing, Stale, Undone, SetAtRelease
<1>7. Stale'
  BY SMTT(30) DEF Stale, Undone, OnHeap, Clearing
<1> QED
  BY <1>1, <1>2, <1>3, <1>4, <1>5, <1>6, <1>7

\* The frame was the excuse for one resource, whose pointer is now null.
LEMMA KeepClear == ASSUME ResourceInv, NEW f \in Frames, Clear(f) PROVE ResourceInv'
<1> USE ReleaseOrder DEF ResourceInv, NvplayTypeOK, FramesOK, Clear, At,
        GoTo, framevars, mem_fd, pacc
<1>1. /\ \A g \in Frames : g # f => pc'[g] = pc[g] /\ cursor'[g] = cursor[g]
      /\ \A g \in Frames, r \in Resource : g # f /\ Clearing(g, r) => Clearing(g, r)'
  BY DEF Clearing
<1>2. NvplayTypeOK'
  BY <1>1, SMTT(30) DEF Labels
<1>3. FramesOK'
  BY <1>1, SMTT(30) DEF InCleanup
<1>4. NotYet' /\ MainOwns'
  BY <1>1, SMTT(30) DEF NotYet, Untouched, MainOwns
<1>5. HeldHasPtr' /\ Released'
  BY <1>1, SMTT(30) DEF HeldHasPtr, CutAt, Released
<1>6. Passed' /\ SetAtRelease'
  BY <1>1, SMTT(30) DEF Passed, SetAtRelease, InCleanup
<1>7. AllPassed' /\ KilledOnlyByReentry'
  BY <1>1, SMTT(30) DEF AllPassed, KilledOnlyByReentry, Clearing
<1>8. Stale'
  <2> SUFFICES ASSUME NEW r \in Resource, ptr[r] # "null", ~held[r], ~Undone(r), r # Nth(cursor[f])
               PROVE  \E g \in Frames : Clearing(g, r)'
    BY DEF Stale, Undone, OnHeap
  <2>2. PICK g \in Frames : Clearing(g, r)
    BY DEF Stale
  <2>3. g # f
    BY <2>2 DEF Clearing
  <2> QED
    BY <1>1, <2>2, <2>3
<1> QED
  BY <1>2, <1>3, <1>4, <1>5, <1>6, <1>7, <1>8

\* The frame that exits has passed every resource.
LEMMA KeepExit ==
  ASSUME ResourceInv, NEW f \in Frames, Exit(f) PROVE ResourceInv'
<1> USE ReleaseOrder DEF ResourceInv, NvplayTypeOK, FramesOK, At, InCleanup
<1>1. /\ status' = "exited" /\ UNCHANGED <<held, ptr, code, running, pc, cursor>>
  BY DEF Exit, framevars
<1>2. /\ status = "live" /\ running = f
      /\ pc[f] = "exit" \/ (pc[f] = "test" /\ cursor[f] > Last)
  BY DEF Exit
<1>3. \A r \in Resource : ptr[r] = "null"
  <2>1. CASE pc[f] = "exit"
    BY <2>1 DEF Frames, NotYet, Untouched
  <2>2. CASE pc[f] = "test" /\ cursor[f] > Last
    <3> SUFFICES ASSUME NEW r \in Resource PROVE ptr[r] = "null"
      OBVIOUS
    <3>1. Nth(r) \in Resource /\ Nth(r) < cursor[f] /\ Nth(Nth(r)) = r
      BY <2>2
    <3> QED
      BY <2>2, <3>1 DEF Passed
  <2> QED
    BY <1>2, <2>1, <2>2
<1>4. NvplayTypeOK' /\ FramesOK'
  BY <1>1
<1>5. NotYet' /\ MainOwns' /\ HeldHasPtr' /\ Released'
  BY <1>1, <1>2 DEF NotYet, Untouched, MainOwns, HeldHasPtr, CutAt, Released
<1>6. Passed' /\ SetAtRelease'
  BY <1>1, <1>2 DEF Passed, SetAtRelease
<1>7. AllPassed' /\ KilledOnlyByReentry'
  BY <1>1, <1>2, <1>3 DEF AllPassed, KilledOnlyByReentry
<1>8. Stale'
  BY <1>1, <1>2 DEF Stale, Undone, Clearing
<1> QED
  BY <1>4, <1>5, <1>6, <1>7, <1>8

\* The interrupted frame keeps its place, and with it what it excuses.
LEMMA KeepDeliver == ASSUME ResourceInv, NEW s \in Signals, Deliver(s) PROVE ResourceInv'
<1> USE ReleaseOrder DEF ResourceInv, NvplayTypeOK, FramesOK, Deliver, At,
        GoTo, framevars, mem_fd, pacc
<1>1. /\ \A g \in Frames : g # s => pc'[g] = pc[g] /\ cursor'[g] = cursor[g]
      /\ \A g \in Frames, r \in Resource : g # s /\ Clearing(g, r) => Clearing(g, r)'
  BY DEF Clearing
<1>2. NvplayTypeOK'
  BY <1>1, SMTT(30) DEF Labels
<1>3. FramesOK'
  BY <1>1, SMTT(30) DEF InCleanup
<1>4. NotYet' /\ MainOwns'
  BY <1>1, SMTT(30) DEF NotYet, Untouched, MainOwns
<1>5. HeldHasPtr' /\ Released'
  BY <1>1, SMTT(30) DEF HeldHasPtr, CutAt, Released
<1>6. Passed' /\ SetAtRelease'
  BY <1>1, SMTT(30) DEF Passed, SetAtRelease, InCleanup
<1>7. AllPassed' /\ KilledOnlyByReentry'
  BY <1>1, SMTT(30) DEF AllPassed, KilledOnlyByReentry, Clearing
<1>8. Stale'
  <2> SUFFICES ASSUME NEW r \in Resource, ptr[r] # "null", ~held[r], ~Undone(r)
               PROVE  \E g \in Frames : Clearing(g, r)'
    BY DEF Stale, Undone, OnHeap
  <2>2. PICK g \in Frames : Clearing(g, r)
    BY DEF Stale
  <2>3. g # s
    BY <2>2 DEF Clearing
  <2> QED
    BY <1>1, <2>2, <2>3
<1> QED
  BY <1>2, <1>3, <1>4, <1>5, <1>6, <1>7, <1>8

-----------------------------------------------------------------------------
(***************************************************************************)
(* The theorems.                                                           *)
(***************************************************************************)

\* ResourceInv is an invariant of the process, whatever the build, the signals,
\* the device list and the card.
THEOREM ResourceInvariant == NvplaySpec => []ResourceInv
<1>1. ResourceInv /\ [NvplayNext]_vars => ResourceInv'
  <2> SUFFICES ASSUME ResourceInv, [NvplayNext]_vars PROVE ResourceInv'
    OBVIOUS
  <2>1. CASE MainStep
    <3>1. CASE Detect \/ BringUp
      BY <3>1, KeepProcess DEF Detect, BringUp
    <3> QED
      BY <2>1, <3>1, KeepAcquireNext, KeepStoreAndGoOn, KeepStoreNoPacc, KeepStoreNoMemFd,
         KeepStoreNoMapping, KeepUndo, KeepStoreVirtual, KeepNoGpu, KeepNotYetSupported,
         KeepInitFunction, KeepEnterIdle DEF MainStep
  <2>2. ASSUME NEW f \in Frames, CleanupStep(f) PROVE ResourceInv'
    BY <2>2, KeepTest, KeepReleaseIt, KeepReleaseTwice, KeepClear, KeepExit DEF CleanupStep
  <2>3. ASSUME NEW s \in Signals, Deliver(s) PROVE ResourceInv'
    BY <2>3, KeepDeliver
  <2>4. CASE Rest \/ UNCHANGED vars
    BY <2>4, KeepProcess DEF Rest, vars
  <2> QED
    BY <2>1, <2>2, <2>3, <2>4 DEF NvplayNext, FrameStep
<1> QED
  BY <1>1, InitResourceInv, PTL DEF NvplaySpec

\* The variables of the process keep their types.
THEOREM ProcessTypes == NvplaySpec => []NvplayTypeOK
<1>1. ResourceInv => NvplayTypeOK
  BY DEF ResourceInv
<1> QED
  BY <1>1, ResourceInvariant, PTL

\* A process that exits has released everything but the one resource whose
\* acquisition a signal cut short.
THEOREM NoLeak == NvplaySpec => []LeakOnlyAtCut
<1>1. ResourceInv => LeakOnlyAtCut
  BY DEF ResourceInv, HeldHasPtr, AllPassed, LeakOnlyAtCut, CutAt
<1> QED
  BY <1>1, ResourceInvariant, PTL

\* A pointer is stale only after a failed init_mmio_mappings or while a frame
\* stands between release and reset.
THEOREM NoStalePointer == NvplaySpec => []StaleOnlyAtCut
<1>1. ResourceInv => StaleOnlyAtCut
  BY DEF ResourceInv, Stale, Undone, OnHeap, StaleOnlyAtCut
<1> QED
  BY <1>1, ResourceInvariant, PTL

\* Only a handler that interrupts a cleanup between release and reset can kill the
\* process.
THEOREM KilledByReentry == NvplaySpec => []KilledOnlyByReentry
<1>1. ResourceInv => KilledOnlyByReentry
  BY DEF ResourceInv
<1> QED
  BY <1>1, ResourceInvariant, PTL

\* The registers are accessed through a mapping that is held.
THEOREM AccessesAreMapped == NvplaySpec => []AccessMapped
<1>1. ResourceInv => AccessMapped
  BY ReleaseOrder DEF ResourceInv, MainOwns, AccessMapped, At, Registers, mmio, Last, Resource
<1> QED
  BY <1>1, ResourceInvariant, PTL

-----------------------------------------------------------------------------
(***************************************************************************)
(* Every step of the process is a step of its abstract life cycle, or none *)
(* at all.                                                                 *)
(***************************************************************************)

\* main acquires only while the life cycle is up.
LEMMA AcquireMaps == ASSUME ResourceInv, AcquireNext PROVE [Life!LNext]_(Life!lvars)
<1> USE ReleaseOrder DEF ResourceInv, NvplayTypeOK, FramesOK, At
<1> DEFINE a == cursor["main"]
<1>1. /\ status = "live" /\ running = "main" /\ pc["main"] = "acquire" /\ a \in Resource
      /\ ~held[a] /\ UNCHANGED <<status, running>> /\ pc'["main"] = "store"
  BY DEF AcquireNext, GoTo, NotYet, Untouched
<1>2. phase = "up" /\ phase' = "up"
  BY <1>1 DEF phase, GoingDown
<1>3. owned' = owned \/ owned' = owned \cup {a}
  <2>1. PICK ok \in BOOLEAN : held' = [held EXCEPT ![a] = ok]
    BY DEF AcquireNext
  <2>2. CASE ok
    BY <1>1, <2>1, <2>2 DEF owned
  <2>3. CASE ~ok
    BY <1>1, <2>1, <2>3 DEF owned
  <2> QED
    BY <2>2, <2>3
<1> QED
  BY <1>1, <1>2, <1>3 DEF Life!LNext, Life!Acquire, Life!lvars, owned

\* A step of main that changes nothing that is held leaves the life cycle up, or
\* turns it down.
LEMMA MainStepMaps ==
  ASSUME ResourceInv, running = "main", status = "live",
         pc["main"] \in {"acquire", "store", "detect", "nv3"},
         UNCHANGED <<held, status, running>>
  PROVE  [Life!LNext]_(Life!lvars)
<1>1. phase = "up" /\ phase' \in {"up", "down"} /\ owned' = owned
  BY DEF phase, GoingDown, owned
<1> QED
  BY <1>1 DEF Life!LNext, Life!TurnDown, Life!lvars

\* Once down, the life cycle stays down, and one resource less is a release.
LEMMA DownStepMaps ==
  ASSUME ResourceInv, NEW a \in Resource, GoingDown, GoingDown', status = "live",
         UNCHANGED status, held' = held \/ held' = [held EXCEPT ![a] = FALSE]
  PROVE  [Life!LNext]_(Life!lvars)
<1>1. phase = "down" /\ phase' = "down"
  BY DEF phase
<1>2. owned' = owned \/ (a \in owned /\ owned' = owned \ {a})
  BY DEF ResourceInv, NvplayTypeOK, owned
<1> QED
  BY <1>1, <1>2 DEF Life!LNext, Life!GoDown, Life!Release, Life!lvars

\* The last step of a process ends or crashes the life cycle; at most the resource
\* that main was acquiring is lost.
LEMMA LastStepMaps ==
  ASSUME ResourceInv, ResourceInv', NEW f \in Frames, Exit(f) \/ ReleaseTwice(f)
  PROVE  [Life!LNext]_(Life!lvars)
<1> USE ReleaseOrder DEF ResourceInv
<1>1. status = "live" /\ GoingDown /\ UNCHANGED <<held, running, pc, cursor>>
  BY DEF Exit, ReleaseTwice, At, framevars, GoingDown
<1>2. phase = "down" /\ owned' = owned
  BY <1>1 DEF phase, owned
<1>3. CASE Exit(f)
  <2>1. status' = "exited"
    BY <1>3 DEF Exit
  <2>2. \A r \in Resource : held[r] => r = cursor["main"]
    BY <1>1, <2>1 DEF AllPassed, HeldHasPtr, CutAt
  <2>3. \E r \in Resource : owned \subseteq {r}
    <3>1. CASE cursor["main"] \in Resource
      BY <2>2, <3>1 DEF owned
    <3>2. CASE cursor["main"] \notin Resource
      <4>1. 1 \in Resource /\ owned = {}
        BY <2>2, <3>2 DEF owned
      <4> QED
        BY <4>1
    <3> QED
      BY <3>1, <3>2
  <2> QED
    BY <1>2, <2>1, <2>3 DEF phase, Life!LNext, Life!GoDown, Life!End
<1>4. CASE ReleaseTwice(f)
  BY <1>2, <1>4 DEF ReleaseTwice, phase, Life!LNext, Life!GoDown, Life!Crash
<1> QED
  BY <1>3, <1>4

\* The safety part of ImplementsLifecycle: the process implements the abstract life
\* cycle of its resources.
THEOREM LifecycleImplemented == NvplaySpec => Life!LSpec
<1>1. NvplayInit => Life!LInit
  BY ReleaseOrder DEF NvplayInit, Life!LInit, owned, phase, GoingDown
<1>2. ASSUME ResourceInv, ResourceInv', [NvplayNext]_vars PROVE [Life!LNext]_(Life!lvars)
  <2> USE ReleaseOrder, <1>2 DEF At
  <2>1. CASE MainStep
    <3>1. CASE AcquireNext
      BY <3>1, AcquireMaps
    <3>2. CASE Undo
      <4>1. cursor["main"] \in Resource
        BY <3>2 DEF ResourceInv, NvplayTypeOK, FramesOK, Undo, mem_fd
      <4>2. /\ status = "live" /\ GoingDown /\ UNCHANGED <<status, running>>
            /\ held' = [held EXCEPT ![cursor["main"]] = FALSE]
        BY <3>2 DEF Undo, GoTo, FailFrom, GoingDown
      <4>3. GoingDown'
        BY <3>2 DEF Undo, GoTo, FailFrom, GoingDown, ResourceInv, NvplayTypeOK
      <4> QED
        BY <4>1, <4>2, <4>3, DownStepMaps
    <3>3. CASE \/ StoreAndGoOn \/ StoreNoPacc \/ StoreNoMemFd \/ StoreNoMapping
               \/ StoreVirtual
      BY <3>3, MainStepMaps DEF StoreAndGoOn, StoreNoPacc, StoreNoMemFd, StoreNoMapping,
         StoreVirtual, StoreResult, GoTo, FailFrom
    <3>4. CASE \/ Detect \/ NoGpu \/ NotYetSupported \/ InitFunction \/ BringUp
               \/ EnterIdle
      BY <3>4, MainStepMaps DEF Detect, NoGpu, NotYetSupported, InitFunction, BringUp,
         EnterIdle, procvars, GoTo, FailFrom
    <3> QED
      BY <2>1, <3>1, <3>2, <3>3, <3>4 DEF MainStep
  <2>2. ASSUME NEW f \in Frames, CleanupStep(f) PROVE [Life!LNext]_(Life!lvars)
    <3>1. CASE Exit(f) \/ ReleaseTwice(f)
      BY <3>1, LastStepMaps
    <3>2. CASE Test(f) \/ Clear(f) \/ ReleaseIt(f)
      <4>1. Nth(cursor[f]) \in Resource
        BY <3>2 DEF ResourceInv, NvplayTypeOK, FramesOK, Test, Clear, ReleaseIt
      <4>2. /\ status = "live" /\ GoingDown /\ UNCHANGED <<status, running>>
            /\ held' = held \/ held' = [held EXCEPT ![Nth(cursor[f])] = FALSE]
        BY <3>2 DEF Test, Clear, ReleaseIt, GoTo, GoingDown
      <4>3. GoingDown'
        BY <3>2 DEF Test, Clear, ReleaseIt, GoTo, GoingDown, ResourceInv, NvplayTypeOK
      <4> QED
        BY <4>1, <4>2, <4>3, DownStepMaps
    <3> QED
      BY <2>2, <3>1, <3>2 DEF CleanupStep
  <2>3. ASSUME NEW s \in Signals, Deliver(s) PROVE [Life!LNext]_(Life!lvars)
    <3>1. status = "live" /\ UNCHANGED <<status, held>> /\ GoingDown'
      BY <2>3 DEF Deliver, GoingDown
    <3>2. phase \in {"up", "down"} /\ phase' = "down" /\ owned' = owned
      BY <3>1 DEF phase, owned
    <3> QED
      BY <3>2 DEF Life!LNext, Life!TurnDown, Life!lvars
  <2>4. CASE Rest \/ UNCHANGED vars
    BY <2>4 DEF Rest, vars, procvars, Life!lvars, owned, phase, GoingDown
  <2> QED
    BY <2>1, <2>2, <2>3, <2>4 DEF NvplayNext, FrameStep
<1> QED
  BY <1>1, <1>2, ResourceInvariant, PTL DEF NvplaySpec, Life!LSpec

-----------------------------------------------------------------------------
(***************************************************************************)
(* The bring-up inside the process.                                        *)
(***************************************************************************)

\* Whatever signals stop it, what the process does to the card is a bring-up of
\* Nv3: the theorems of Nv3Proofs hold of the process.
THEOREM BringUpIsNv3 == NvplaySpec => Nv3Spec
<1>1. NvplayInit => Nv3Init
  BY DEF NvplayInit
<1>2. [NvplayNext]_vars => [Nv3Next]_nv3vars
  BY DEF NvplayNext, FrameStep, MainStep, AcquireNext, StoreResult, StoreAndGoOn, StoreNoPacc,
         StoreNoMemFd, StoreNoMapping, Undo, StoreVirtual, Detect, NoGpu, NotYetSupported,
         InitFunction, BringUp, EnterIdle, CleanupStep, Test, ReleaseIt, ReleaseTwice,
         Clear, Exit, Deliver, Rest, vars, Nv3Next
<1> QED
  BY <1>1, <1>2, PTL DEF NvplaySpec, Nv3Spec

\* The process never leaves a card at a clock that is not safe for it, wherever a
\* signal stops the test.
THEOREM ClockSafeInProcess == NvplaySpec => []ClockSafe
BY BringUpIsNv3, ClockStaysSafe, PTL

\* Nor does the process write a clock out of turn, whatever signals interrupt the test:
\* the cleanup writes none, and main goes on where it stood.
THEOREM GradualInProcess == NvplaySpec => ReclocksGradually
BY BringUpIsNv3, ReclockIsGradual, PTL

\* The detection and the read of the BARs inside the process are those of NvPci: the
\* theorems of NvPciProofs hold of the process, between acquisition and signals.
THEOREM DetectionIsNvPci == NvplaySpec => PciSpec
<1>1. NvplayInit => PciInit
  BY DEF NvplayInit
<1>2. [NvplayNext]_vars => [PciNext]_pcivars
  <2> SUFFICES ASSUME [NvplayNext]_vars, ~ UNCHANGED pcivars PROVE PciNext
    OBVIOUS
  <2>1. CASE MainStep
    <3>1. Detect \/ InitFunction
      BY <2>1 DEF MainStep, AcquireNext, StoreResult, StoreAndGoOn, StoreNoPacc, StoreNoMemFd,
         StoreNoMapping, Undo, StoreVirtual, NoGpu, NotYetSupported, BringUp, EnterIdle
    <3> QED
      BY <3>1 DEF Detect, InitFunction, PciNext, PciStep
  <2>2. ASSUME NEW f \in Frames, CleanupStep(f) PROVE FALSE
    BY <2>2 DEF CleanupStep, Test, ReleaseIt, ReleaseTwice, Clear, Exit
  <2>3. ASSUME NEW s \in Signals, Deliver(s) PROVE FALSE
    BY <2>3 DEF Deliver
  <2>4. CASE Rest \/ UNCHANGED vars
    BY <2>4 DEF Rest, vars
  <2> QED
    BY <2>1, <2>2, <2>3, <2>4 DEF NvplayNext, FrameStep
<1> QED
  BY <1>1, <1>2, PTL DEF NvplaySpec, PciSpec

\* Whenever the process reads the configuration space of the virtual device, after a
\* signal as well, the three widths agree, and what it finds is the entry selected.
THEOREM ConfigInProcess == NvplaySpec => [](WidthsAgree /\ ConfigDescribesSelected)
BY DetectionIsNvPci, WidthsOfConfigAgree, ConfigIsOfSelected, PTL

\* Nothing is written to the card before main is in nv3_init with its mappings made.
ChipUntouched ==
  pc["main"] \notin {"nv3", "idle"} =>
    chip = found

\* When main fails, nothing was written to the card.
THEOREM FailureLeavesChip == NvplaySpec => []FailedInitLeavesChip
<1>1. NvplayInit => ChipUntouched
  BY DEF NvplayInit, Nv3Init, ChipUntouched
<1>2. ResourceInv /\ ChipUntouched /\ [NvplayNext]_vars => ChipUntouched'
  <2> SUFFICES ASSUME ResourceInv, ChipUntouched, [NvplayNext]_vars PROVE ChipUntouched'
    OBVIOUS
  <2> USE ReleaseOrder DEF ResourceInv, NvplayTypeOK, ChipUntouched, At, GoTo, nv3vars
  <2>1. CASE MainStep
    <3>1. CASE BringUp
      BY <3>1 DEF BringUp, procvars
    <3>2. CASE ~BringUp
      <4>1. UNCHANGED nv3vars
        BY <2>1, <3>2 DEF MainStep, AcquireNext, StoreResult, StoreAndGoOn, StoreNoPacc,
           StoreNoMemFd, StoreNoMapping, Undo, StoreVirtual, Detect, NoGpu,
           NotYetSupported, InitFunction, EnterIdle
      <4>2. pc["main"] \in {"nv3", "idle"} => pc'["main"] \in {"nv3", "idle"}
        BY <2>1, <3>2 DEF MainStep, AcquireNext, StoreResult, StoreAndGoOn, StoreNoPacc,
           StoreNoMemFd, StoreNoMapping, Undo, StoreVirtual, Detect, NoGpu,
           NotYetSupported, InitFunction, EnterIdle, procvars
      <4> QED
        BY <4>1, <4>2
    <3> QED
      BY <3>1, <3>2
  <2>2. ASSUME NEW f \in Frames, CleanupStep(f) PROVE ChipUntouched'
    <3>1. UNCHANGED nv3vars
      BY <2>2 DEF CleanupStep, Test, ReleaseIt, ReleaseTwice, Clear, Exit
    <3>2. pc["main"] \in {"nv3", "idle"} => pc'["main"] = pc["main"]
      BY <2>2 DEF CleanupStep, Test, ReleaseIt, ReleaseTwice, Clear, Exit, framevars
    <3> QED
      BY <3>1, <3>2
  <2>3. ASSUME NEW s \in Signals, Deliver(s) PROVE ChipUntouched'
    BY <2>3 DEF Deliver
  <2>4. CASE Rest \/ UNCHANGED vars
    BY <2>4 DEF Rest, vars, procvars
  <2> QED
    BY <2>1, <2>2, <2>3, <2>4 DEF NvplayNext, FrameStep
<1>3. ResourceInv /\ ChipUntouched => FailedInitLeavesChip
  BY DEF ResourceInv, FramesOK, InCleanup, ChipUntouched, FailedInitLeavesChip
<1> QED
  BY <1>1, <1>2, <1>3, ResourceInvariant, PTL DEF NvplaySpec

=============================================================================
