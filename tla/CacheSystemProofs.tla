------------------------- MODULE CacheSystemProofs -------------------------
(***************************************************************************)
(* Proofs about CacheSystem: the inductive invariant, and that the cache   *)
(* and the memory behind it implement one flat memory, for all address     *)
(* spaces, line sizes, request sets and memory images.                     *)
(***************************************************************************)
EXTENDS CacheSystem, TLAPS

-----------------------------------------------------------------------------
(* The data types.                                                          *)

(* A store leaves a line a line.                                            *)
LEMMA StoredLine ==
  ASSUME NEW line \in Line, NEW r \in Request
  PROVE  Stored(line, r) \in Line
BY DEF Stored, Masked, mem_wdata_line, Line, Word, Request

(* A word read from a line is a word.                                       *)
LEMMA ReadWord ==
  ASSUME NEW line \in Line, NEW w \in Words
  PROVE  mem_rdata(line, w) \in Word
BY DEF mem_rdata, Line

(* The reset line.                                                          *)
LEMMA ZeroLineIsLine == ZeroLine \in Line /\ ZeroWord \in Word
BY TypesAssumption DEF ZeroLine, ZeroWord, Line, Word

(* A bubble is a request without an access.                                 *)
LEMMA NoRequestType ==
  ASSUME NEW r \in Request
  PROVE  NoRequest(r) \in Request /\ ~Requested(NoRequest(r))
BY DEF NoRequest, Request, Requested

LEMMA BubblesType ==
  ASSUME NEW r \in Request
  PROVE  Bubbles(Requests, r) \subseteq Request
BY NoRequestType, SystemAssumption DEF Bubbles

(* The abstract memory has the same bubbles.                                *)
LEMMA ShadowBubbles == Shadow!Bubbles(Requests, req) = Bubbles(Requests, req)
BY DEF Shadow!Bubbles, Shadow!NoRequest, Bubbles, NoRequest

(* An address is the pair of its parts.                                     *)
LEMMA AddrParts ==
  ASSUME NEW a \in LineAddr
  PROVE  a[1] \in Tags /\ a[2] \in Sets /\ a = <<a[1], a[2]>>
BY DEF LineAddr

(* The address of a request.                                                *)
LEMMA AddrOfParts ==
  ASSUME NEW r \in Request
  PROVE  /\ AddrOf(r) \in LineAddr
         /\ AddrOf(r)[1] = r.tag /\ AddrOf(r)[2] = r.index
         /\ r.tag \in Tags /\ r.index \in Sets /\ r.word \in Words
BY DEF AddrOf, LineAddr, Request

-----------------------------------------------------------------------------
(* The seven things a clock edge can do, with what they do to the memory.   *)

Edge_NoAccess == NoAccess(req) /\ mem' = mem
Edge_ReadHit == ReadHit(req) /\ mem' = mem
Edge_WriteHit == WriteHit(req) /\ mem' = mem
Edge_MissClean == MissClean(req) /\ mem' = mem
Edge_WriteWait ==
  WriteBack(req, FALSE) /\ \E words \in SUBSET Words : MemoryTakes(words)
Edge_WriteDone == WriteBack(req, TRUE) /\ MemoryTakes(Words)
Edge_ReadWait ==
  (\E garbage \in Line : FillWait(req, FALSE, garbage)) /\ mem' = mem
Edge_ReadDone == FillDone(req, TRUE, mem[pmem_address(req)]) /\ mem' = mem

(* Every step is one of them, together with an edge of the port.            *)
LEMMA EdgeCases ==
  ASSUME TypeOK, Next
  PROVE  /\ \E otherStall \in BOOLEAN : Advance(otherStall)
         /\ \/ Edge_NoAccess
            \/ Edge_ReadHit
            \/ Edge_WriteHit
            \/ Edge_MissClean
            \/ Edge_WriteWait
            \/ Edge_WriteDone
            \/ Edge_ReadWait
            \/ Edge_ReadDone
<1> USE DEF CacheClock, NoAccess, ReadHit, WriteHit, MissClean, WriteBack,
            FillWait, FillDone, pmem_read, pmem_write, mem_resp
<1>1. PICK otherStall \in BOOLEAN :
        \/ Local(otherStall) \/ WriteWait(otherStall) \/ WriteDone(otherStall)
        \/ ReadWait(otherStall) \/ ReadDone(otherStall)
  BY DEF Next
<1>2. Advance(otherStall)
  BY <1>1 DEF Local, WriteWait, WriteDone, ReadWait, ReadDone
<1>3. CASE Local(otherStall)
  BY <1>2, <1>3 DEF Local, TypeOK, CacheTypeOK, Edge_NoAccess, Edge_ReadHit,
     Edge_WriteHit, Edge_MissClean
<1>4. CASE WriteWait(otherStall)
  BY <1>2, <1>4 DEF WriteWait, Edge_WriteWait
<1>5. CASE WriteDone(otherStall)
  BY <1>2, <1>5 DEF WriteDone, Edge_WriteDone
<1>6. CASE ReadWait(otherStall)
  BY <1>2, <1>6 DEF ReadWait, Edge_ReadWait
<1>7. CASE ReadDone(otherStall)
  BY <1>2, <1>7 DEF ReadDone, Edge_ReadDone
<1> QED BY <1>1, <1>3, <1>4, <1>5, <1>6, <1>7

(* What the port does at an edge: it holds, or it is answered, or it has    *)
(* nothing to ask, and goes on.                                             *)
LEMMA PortCases ==
  ASSUME TypeOK, NEW otherStall \in BOOLEAN, Advance(otherStall)
  PROVE  /\ req' \in Request /\ wb_load' \in BOOLEAN /\ wb_mem_rdata' \in Word
         /\ Requested(req) /\ ~mem_resp(req) => UNCHANGED portVars
         /\ \/ UNCHANGED portVars
            \/ /\ req' \in Requests \union Bubbles(Requests, req)
               /\ wb_load' = (req.op = "read")
               /\ wb_mem_rdata' = mem_rdata_cpu(req)
<1>1. CASE UNCHANGED portVars
  BY <1>1 DEF portVars, TypeOK
<1>2. CASE ~stall(otherStall)
  <2>1. line_out(req) \in Line
    BY StoredLine, AddrOfParts DEF line_out, TypeOK, CacheTypeOK
  <2>2. mem_rdata_cpu(req) \in Word
    BY <2>1, ReadWord, AddrOfParts DEF mem_rdata_cpu, TypeOK
  <2> QED
    BY <1>2, <2>2, BubblesType, SystemAssumption DEF Advance, stall, TypeOK
<1> QED BY <1>1, <1>2 DEF Advance

(* The cache registers keep their types.                                    *)
LEMMA CacheTypes ==
  ASSUME CacheTypeOK, NEW r \in Request, NEW presp \in BOOLEAN,
         NEW line \in Line, CacheClock(r, presp, line)
  PROVE  CacheTypeOK'
<1> USE AddrOfParts DEF CacheTypeOK
<1>1. CASE NoAccess(r) \/ ReadHit(r)
  BY <1>1 DEF NoAccess, ReadHit, cacheVars
<1>2. CASE WriteHit(r)
  BY <1>2, StoredLine DEF WriteHit
<1>3. CASE MissClean(r)
  BY <1>3 DEF MissClean
<1>4. CASE WriteBack(r, presp)
  BY <1>4 DEF WriteBack
<1>5. CASE FillWait(r, presp, line)
  BY <1>5 DEF FillWait
<1>6. CASE FillDone(r, presp, line)
  BY <1>6 DEF FillDone
<1> QED BY <1>1, <1>2, <1>3, <1>4, <1>5, <1>6 DEF CacheClock

(* The memory keeps its type, whatever words of a line it takes.            *)
LEMMA MemoryTypes_Takes ==
  ASSUME TypeOK, NEW words \in SUBSET Words, MemoryTakes(words),
         mem_resp(req) => req.op # "write"
  PROVE  mem' \in [LineAddr -> Line]
<1>1. pmem_wdata(req) \in Line
  BY AddrOfParts DEF pmem_wdata, line_out, TypeOK, CacheTypeOK
<1>2. ASSUME NEW a \in LineAddr
      PROVE  [w \in Words |-> IF w \in words THEN pmem_wdata(req)[w] ELSE mem[a][w]]
               \in Line
  BY <1>1 DEF Line, TypeOK
<1> QED BY <1>2 DEF MemoryTakes, TypeOK

(* Every step keeps the types.                                              *)
LEMMA TypeStep ==
  ASSUME TypeOK, Next
  PROVE  TypeOK'
<1>1. PICK otherStall \in BOOLEAN : Advance(otherStall)
  BY EdgeCases
<1>2. req' \in Request /\ wb_load' \in BOOLEAN /\ wb_mem_rdata' \in Word
  BY <1>1, PortCases
<1>3. CacheTypeOK' /\ mem' \in [LineAddr -> Line]
  <2> USE DEF TypeOK, CacheClock
  <2>1. CASE Edge_NoAccess \/ Edge_ReadHit \/ Edge_WriteHit \/ Edge_MissClean
    BY <2>1, CacheTypes, ZeroLineIsLine
       DEF Edge_NoAccess, Edge_ReadHit, Edge_WriteHit, Edge_MissClean
  <2>2. CASE Edge_WriteWait \/ Edge_WriteDone
    <3>1. CacheTypeOK'
      BY <2>2, CacheTypes, ZeroLineIsLine DEF Edge_WriteWait, Edge_WriteDone
    <3>2. ~mem_resp(req)
      BY <2>2 DEF Edge_WriteWait, Edge_WriteDone, WriteBack, pmem_write, mem_resp
    <3>3. PICK words \in SUBSET Words : MemoryTakes(words)
      BY <2>2 DEF Edge_WriteWait, Edge_WriteDone
    <3> QED BY <3>1, <3>2, <3>3, MemoryTypes_Takes
  <2>3. CASE Edge_ReadWait
    BY <2>3, CacheTypes DEF Edge_ReadWait
  <2>4. CASE Edge_ReadDone
    <3>1. state = "read_mem" /\ pmem_address(req) = AddrOf(req)
      BY <2>4 DEF Edge_ReadDone, FillDone, pmem_address, dirty_out, dirty_load, dirty_in
    <3>2. mem[pmem_address(req)] \in Line
      BY <3>1, AddrOfParts
    <3> QED BY <2>4, <3>2, CacheTypes DEF Edge_ReadDone
  <2> QED BY EdgeCases, <2>1, <2>2, <2>3, <2>4
<1> QED BY <1>2, <1>3 DEF TypeOK

(* The types hold initially.                                                *)
LEMMA TypeInit ==
  ASSUME Init
  PROVE  TypeOK
BY ZeroLineIsLine, NoRequestType, TypesAssumption, SystemAssumption
   DEF Init, CacheReset, TypeOK, CacheTypeOK

(* Type correctness: every register of the cache, the port registers and    *)
(* the memory always hold a value of their width.                           *)
THEOREM TypeCorrect == Spec => []TypeOK
<1>1. TypeOK /\ [Next]_vars => TypeOK'
  <2> SUFFICES ASSUME TypeOK, [Next]_vars PROVE TypeOK'
    OBVIOUS
  <2>1. CASE Next
    BY <2>1, TypeStep
  <2>2. CASE UNCHANGED vars
    BY <2>2 DEF vars, cacheVars, portVars, TypeOK, CacheTypeOK
  <2> QED BY <2>1, <2>2
<1> QED BY <1>1, TypeInit, PTL DEF Spec

-----------------------------------------------------------------------------
(* The inductive invariant.  CleanLinesInMemory alone is not inductive: a   *)
(* write-back needs DirtyLinesValid to know which line of memory it brings  *)
(* up to date, and the end of a fill needs FillForAMiss to know that the    *)
(* request it fills for is the one it left check_hit for.                   *)

(* The invariant holds after reset: no line is valid.                       *)
LEMMA InvInit ==
  ASSUME Init
  PROVE  IInv
BY TypeInit DEF Init, CacheReset, IInv, CleanLinesInMemory, DirtyLinesValid,
   FillForAMiss, pmem_read

(* In a cycle in which the cache stays in check_hit and the memory is left  *)
(* alone, a line may only change by becoming dirty.                         *)
LEMMA InvHit ==
  ASSUME IInv, TypeOK', Edge_NoAccess \/ Edge_ReadHit \/ Edge_WriteHit
  PROVE  IInv'
<1> USE DEF IInv, CleanLinesInMemory, DirtyLinesValid, FillForAMiss, Filling, pmem_read
<1>1. CASE Edge_NoAccess \/ Edge_ReadHit
  BY <1>1 DEF Edge_NoAccess, Edge_ReadHit, NoAccess, ReadHit, cacheVars, mem_resp
<1>2. CASE Edge_WriteHit
  <2>1. /\ state = "check_hit" /\ state' = "check_hit" /\ hit(req)
        /\ data' = [data EXCEPT ![req.index] = Stored(@, req)]
        /\ dirty' = [dirty EXCEPT ![req.index] = TRUE]
        /\ tag' = tag /\ valid' = valid /\ mem' = mem
    BY <1>2 DEF Edge_WriteHit, WriteHit, mem_resp
  <2>2. CleanLinesInMemory'
    BY <2>1 DEF TypeOK, CacheTypeOK
  <2>3. DirtyLinesValid'
    BY <2>1 DEF TypeOK, CacheTypeOK, hit
  <2> QED BY <2>1, <2>2, <2>3
<1> QED BY <1>1, <1>2

(* In a cycle of a miss the request stays where it is.                      *)
LEMMA RequestHeld ==
  ASSUME IInv, NEW otherStall \in BOOLEAN, Advance(otherStall),
         \/ Edge_MissClean \/ Edge_WriteWait \/ Edge_WriteDone
         \/ Edge_ReadWait \/ Edge_ReadDone
  PROVE  req' = req /\ wb_load' = wb_load /\ wb_mem_rdata' = wb_mem_rdata
<1>1. Requested(req) /\ ~mem_resp(req)
  BY DEF Edge_MissClean, Edge_WriteWait, Edge_WriteDone, Edge_ReadWait,
     Edge_ReadDone, MissClean, WriteBack, FillWait, FillDone, pmem_write,
     mem_resp, IInv, FillForAMiss, pmem_read
<1> QED BY <1>1, PortCases DEF IInv, portVars

(* Leaving check_hit on a miss of a clean line.                             *)
LEMMA InvMissClean ==
  ASSUME IInv, TypeOK', req' = req, Edge_MissClean
  PROVE  IInv'
<1>1. /\ state = "check_hit" /\ state' = "read_mem"
      /\ data' = data /\ tag' = tag /\ valid' = valid /\ dirty' = dirty
      /\ mem' = mem /\ Requested(req) /\ ~hit(req)
  BY DEF Edge_MissClean, MissClean
<1> QED
  BY <1>1 DEF IInv, CleanLinesInMemory, DirtyLinesValid, FillForAMiss, Filling,
     pmem_read, hit

(* What a write-back is: the victim is valid and dirty, and the memory      *)
(* changes at most at the victim's address.                                 *)
LEMMA WriteBackFacts ==
  ASSUME IInv, NEW words \in SUBSET Words, NEW presp, WriteBack(req, presp),
         MemoryTakes(words)
  PROVE  /\ state = "check_hit" /\ Requested(req) /\ ~hit(req)
         /\ data' = data /\ tag' = tag /\ valid' = valid /\ dirty' = dirty
         /\ dirty[req.index] /\ valid[req.index]
         /\ mem' = [mem EXCEPT ![<<tag[req.index], req.index>>] =
                      [w \in Words |-> IF w \in words THEN data[req.index][w] ELSE @[w]]]
<1>1. state = "check_hit" /\ Requested(req) /\ ~hit(req) /\ dirty_out(req)
  BY DEF WriteBack, pmem_write
<1>2. dirty[req.index] /\ valid[req.index]
  BY <1>1, AddrOfParts
     DEF dirty_out, dirty_load, mem_resp, IInv, DirtyLinesValid, TypeOK
<1>3. pmem_address(req) = <<tag[req.index], req.index>> /\ pmem_wdata(req) = data[req.index]
  BY <1>1 DEF pmem_address, pmem_wdata, line_out, mem_resp
<1> QED BY <1>1, <1>2, <1>3 DEF WriteBack, MemoryTakes

(* While the victim is written back, and when that is over.                 *)
LEMMA InvWriteBack ==
  ASSUME IInv, TypeOK', req' = req, Edge_WriteWait \/ Edge_WriteDone
  PROVE  IInv'
<1>1. PICK words \in SUBSET Words, presp \in BOOLEAN :
         WriteBack(req, presp) /\ MemoryTakes(words)
  BY DEF Edge_WriteWait, Edge_WriteDone
<1>2. /\ state = "check_hit" /\ Requested(req) /\ ~hit(req)
      /\ data' = data /\ tag' = tag /\ valid' = valid /\ dirty' = dirty
      /\ dirty[req.index] /\ valid[req.index]
      /\ mem' = [mem EXCEPT ![<<tag[req.index], req.index>>] =
                   [w \in Words |-> IF w \in words THEN data[req.index][w] ELSE @[w]]]
  BY <1>1, WriteBackFacts
<1>3. CleanLinesInMemory'
  <2> SUFFICES ASSUME NEW s \in Sets, valid'[s], ~dirty'[s], ~Filling(s)'
               PROVE  data'[s] = mem'[<<tag'[s], s>>]
    BY DEF CleanLinesInMemory
  <2>1. s # req.index
    BY <1>2
  <2>2. mem'[<<tag[s], s>>] = mem[<<tag[s], s>>]
    BY <1>2, <2>1 DEF IInv, TypeOK, CacheTypeOK, LineAddr
  <2>3. data[s] = mem[<<tag[s], s>>]
    BY <1>2 DEF IInv, CleanLinesInMemory, Filling
  <2> QED BY <1>2, <2>2, <2>3
<1> QED
  BY <1>2, <1>3 DEF IInv, DirtyLinesValid, FillForAMiss, hit

(* While the line is fetched, and when it has arrived.                      *)
LEMMA InvFill ==
  ASSUME IInv, TypeOK', req' = req, Edge_ReadWait \/ Edge_ReadDone
  PROVE  IInv'
<1> USE DEF IInv, TypeOK, CacheTypeOK
<1>1. CASE Edge_ReadWait
  <2>1. PICK garbage \in Line : FillWait(req, FALSE, garbage)
    BY <1>1 DEF Edge_ReadWait
  <2>2. /\ state = "read_mem" /\ state' = "read_mem" /\ mem' = mem
        /\ tag' = tag /\ valid' = valid
        /\ data' = [data EXCEPT ![req.index] = garbage]
        /\ dirty' = [dirty EXCEPT ![req.index] = FALSE]
    BY <1>1, <2>1 DEF FillWait, Edge_ReadWait
  <2>3. CleanLinesInMemory'
    BY <2>2, AddrOfParts DEF CleanLinesInMemory, Filling
  <2>4. DirtyLinesValid'
    BY <2>2, AddrOfParts DEF DirtyLinesValid
  <2>5. FillForAMiss'
    BY <2>2 DEF FillForAMiss, pmem_read, hit
  <2> QED BY <2>3, <2>4, <2>5
<1>2. CASE Edge_ReadDone
  <2>1. /\ state = "read_mem" /\ state' = "check_hit" /\ mem' = mem
        /\ data' = [data EXCEPT ![req.index] = mem[AddrOf(req)]]
        /\ dirty' = [dirty EXCEPT ![req.index] = FALSE]
        /\ tag' = [tag EXCEPT ![req.index] = req.tag]
        /\ valid' = [valid EXCEPT ![req.index] = TRUE]
    BY <1>2 DEF Edge_ReadDone, FillDone, pmem_address, dirty_out, dirty_load, dirty_in
  <2>2. CleanLinesInMemory'
    BY <2>1, AddrOfParts DEF CleanLinesInMemory, Filling, AddrOf
  <2>3. DirtyLinesValid'
    BY <2>1, AddrOfParts DEF DirtyLinesValid
  <2>4. FillForAMiss'
    BY <2>1 DEF FillForAMiss, pmem_read
  <2> QED BY <2>2, <2>3, <2>4
<1> QED BY <1>1, <1>2

(* Every step keeps the invariant.                                          *)
LEMMA InvStep ==
  ASSUME IInv, Next
  PROVE  IInv'
<1>1. TypeOK'
  BY TypeStep DEF IInv
<1>2. PICK otherStall \in BOOLEAN : Advance(otherStall)
  BY EdgeCases DEF IInv
<1>3. CASE Edge_NoAccess \/ Edge_ReadHit \/ Edge_WriteHit
  BY <1>1, <1>3, InvHit
<1>4. CASE \/ Edge_MissClean \/ Edge_WriteWait \/ Edge_WriteDone
           \/ Edge_ReadWait \/ Edge_ReadDone
  <2>1. req' = req
    BY <1>2, <1>4, RequestHeld
  <2> QED BY <1>1, <1>4, <2>1, InvMissClean, InvWriteBack, InvFill
<1> QED BY <1>3, <1>4, EdgeCases DEF IInv

(* The invariants the runs check on small instances, for every instance:    *)
(* clean lines are in memory, dirty lines are valid, and the request a line *)
(* is fetched for stays on the port and keeps missing.                      *)
THEOREM Invariance == Spec => []IInv
<1>1. IInv /\ [Next]_vars => IInv'
  <2> SUFFICES ASSUME IInv, [Next]_vars PROVE IInv'
    OBVIOUS
  <2>1. CASE Next
    BY <2>1, InvStep
  <2>2. CASE UNCHANGED vars
    BY <2>2 DEF vars, cacheVars, portVars, IInv, TypeOK, CacheTypeOK,
       CleanLinesInMemory, DirtyLinesValid, FillForAMiss, Filling, pmem_read, hit
  <2> QED BY <2>1, <2>2
<1> QED BY <1>1, InvInit, PTL DEF Spec

(* Dropping a clean line loses nothing: its copy in memory is current       *)
(* (the check_hit branch without a write-back).                             *)
THEOREM CleanInMemory == Spec => []CleanLinesInMemory
BY Invariance, PTL DEF IInv

-----------------------------------------------------------------------------
(* Refinement of ShadowMemory.  The flat memory is "view": a line's cached  *)
(* copy, unless it is being replaced, else its copy in memory.              *)

(* The view is a memory, and the abstract load register a word or NoLoad.   *)
LEMMA ViewType ==
  ASSUME TypeOK
  PROVE  view \in [LineAddr -> Line]
BY AddrParts DEF view, TypeOK, CacheTypeOK

(* No line is cached after reset.                                           *)
LEMMA ViewInit ==
  ASSUME Init
  PROVE  view = Image
BY SystemAssumption, AddrParts DEF Init, CacheReset, view, Cached

(* A hit shows the view.                                                    *)
LEMMA HitSeesView ==
  ASSUME IInv, mem_resp(req)
  PROVE  /\ AddrOf(req) \in LineAddr
         /\ Cached(AddrOf(req))
         /\ view[AddrOf(req)] = data[req.index]
         /\ req.op = "read" =>
              mem_rdata_cpu(req) = mem_rdata(view[AddrOf(req)], req.word)
BY AddrOfParts
   DEF IInv, TypeOK, mem_resp, hit, Cached, Filling, view, mem_rdata_cpu, line_out

(* Nothing changes for the processor while the port is idle or a load is    *)
(* answered.                                                                *)
LEMMA ViewHit ==
  ASSUME IInv, Edge_NoAccess \/ Edge_ReadHit
  PROVE  view' = view
BY DEF Edge_NoAccess, Edge_ReadHit, NoAccess, ReadHit, cacheVars, mem_resp,
   view, Cached, Filling

(* A write hit stores into the view, and into nothing else.                 *)
LEMMA ViewWriteHit ==
  ASSUME IInv, Edge_WriteHit
  PROVE  view' = [view EXCEPT ![AddrOf(req)] = Stored(@, req)]
<1>1. /\ state = "check_hit" /\ state' = "check_hit" /\ mem_resp(req)
      /\ data' = [data EXCEPT ![req.index] = Stored(@, req)]
      /\ tag' = tag /\ valid' = valid /\ mem' = mem
  BY DEF Edge_WriteHit, WriteHit, mem_resp
<1>2. view \in [LineAddr -> Line] /\ view' = [a \in LineAddr |-> view'[a]]
  BY ViewType DEF IInv, view
<1>3. ASSUME NEW a \in LineAddr
      PROVE  view'[a] = [view EXCEPT ![AddrOf(req)] = Stored(@, req)][a]
  <2>1. a[1] \in Tags /\ a[2] \in Sets /\ a = <<a[1], a[2]>>
    BY AddrParts
  <2>2. view'[a] = IF valid[a[2]] /\ tag[a[2]] = a[1] THEN data'[a[2]] ELSE mem[a]
    BY <1>1 DEF view, Cached, Filling
  <2>3. view[a] = IF valid[a[2]] /\ tag[a[2]] = a[1] THEN data[a[2]] ELSE mem[a]
    BY <1>1 DEF view, Cached, Filling
  <2>4. CASE a = AddrOf(req)
    <3>1. a[2] = req.index /\ a[1] = req.tag /\ req.index \in Sets
      BY <2>4, AddrOfParts DEF IInv, TypeOK
    <3>2. view'[a] = Stored(data[req.index], req)
      BY <1>1, <2>2, <3>1 DEF IInv, TypeOK, CacheTypeOK, mem_resp, hit
    <3> QED BY <1>1, <1>2, <2>4, <3>2, HitSeesView
  <2>5. CASE a # AddrOf(req)
    <3>1. a[2] # req.index \/ a[1] # req.tag
      BY <2>1, <2>5 DEF AddrOf
    <3>2. view'[a] = view[a]
      BY <1>1, <2>1, <2>2, <2>3, <3>1 DEF IInv, TypeOK, CacheTypeOK, mem_resp, hit
    <3> QED BY <1>2, <2>5, <3>2
  <2> QED BY <2>4, <2>5
<1> QED BY <1>2, <1>3

(* Giving up a clean line is not noticed.                                   *)
LEMMA ViewMissClean ==
  ASSUME IInv, req' = req, Edge_MissClean
  PROVE  view' = view
<1>1. /\ state = "check_hit" /\ state' = "read_mem"
      /\ data' = data /\ tag' = tag /\ valid' = valid /\ mem' = mem
      /\ ~dirty[req.index]
  BY DEF Edge_MissClean, MissClean, dirty_out, dirty_load, mem_resp
<1>2. ASSUME NEW a \in LineAddr
      PROVE  view'[a] = view[a]
  <2>1. a[2] \in Sets /\ a = <<a[1], a[2]>>
    BY AddrParts
  <2> QED
    BY <1>1, <2>1 DEF view, Cached, Filling, IInv, CleanLinesInMemory
<1> QED BY <1>2 DEF view

(* Nor is a write-back, beat by beat, nor giving up the line it has saved.  *)
LEMMA ViewWriteBack ==
  ASSUME IInv, req' = req, Edge_WriteWait \/ Edge_WriteDone
  PROVE  view' = view
<1>1. PICK words \in SUBSET Words, presp \in BOOLEAN :
        /\ WriteBack(req, presp) /\ MemoryTakes(words)
        /\ presp => words = Words
  BY DEF Edge_WriteWait, Edge_WriteDone
<1> DEFINE victim == <<tag[req.index], req.index>>
<1>2. /\ state = "check_hit"
      /\ data' = data /\ tag' = tag /\ valid' = valid /\ valid[req.index]
      /\ mem' = [mem EXCEPT ![victim] =
                   [w \in Words |-> IF w \in words THEN data[req.index][w] ELSE @[w]]]
  BY <1>1, WriteBackFacts
<1>3. victim \in LineAddr /\ data[req.index] \in Line
  BY AddrOfParts DEF IInv, TypeOK, CacheTypeOK, LineAddr
<1>4. ASSUME NEW a \in LineAddr
      PROVE  view'[a] = view[a]
  <2>1. a[2] \in Sets /\ a = <<a[1], a[2]>>
    BY AddrParts
  <2>2. CASE a # victim
    <3>1. mem'[a] = mem[a]
      BY <1>2, <2>2 DEF IInv, TypeOK
    <3>2. a[2] = req.index => tag[a[2]] # a[1]
      BY <2>1, <2>2
    <3> QED BY <1>2, <3>1, <3>2 DEF view, Cached, Filling
  <2>3. CASE a = victim
    <3>1. view[a] = data[req.index]
      BY <1>2, <2>3, <1>3 DEF view, Cached, Filling
    <3>2. CASE presp
      <4>1. state' = "read_mem"
        BY <1>1, <3>2 DEF WriteBack
      <4>2. mem'[a] = [w \in Words |-> data[req.index][w]]
        BY <1>1, <1>2, <1>3, <2>3, <3>2 DEF IInv, TypeOK
      <4>3. mem'[a] = data[req.index]
        BY <1>3, <4>2 DEF Line
      <4> QED BY <2>3, <3>1, <4>1, <4>3 DEF view, Cached, Filling
    <3>3. CASE ~presp
      <4>1. state' = "check_hit"
        BY <1>1, <3>3 DEF WriteBack
      <4> QED BY <1>2, <2>3, <3>1, <4>1 DEF view, Cached, Filling
    <3> QED BY <3>2, <3>3
  <2> QED BY <2>2, <2>3
<1> QED BY <1>4 DEF view

(* The line under replacement is not looked at, and when it has arrived it  *)
(* is what the memory holds.                                                *)
LEMMA ViewFill ==
  ASSUME IInv, req' = req, Edge_ReadWait \/ Edge_ReadDone
  PROVE  view' = view
<1> USE DEF IInv, TypeOK, CacheTypeOK
<1>1. CASE Edge_ReadWait
  <2>1. PICK garbage \in Line : FillWait(req, FALSE, garbage)
    BY <1>1 DEF Edge_ReadWait
  <2>2. /\ state = "read_mem" /\ state' = "read_mem" /\ mem' = mem
        /\ tag' = tag /\ valid' = valid
        /\ data' = [data EXCEPT ![req.index] = garbage]
    BY <1>1, <2>1 DEF FillWait, Edge_ReadWait
  <2>3. ASSUME NEW a \in LineAddr
        PROVE  view'[a] = view[a]
    BY <2>2, AddrParts, AddrOfParts DEF view, Cached, Filling
  <2> QED BY <2>3 DEF view
<1>2. CASE Edge_ReadDone
  <2>1. /\ state = "read_mem" /\ state' = "check_hit" /\ mem' = mem
        /\ data' = [data EXCEPT ![req.index] = mem[AddrOf(req)]]
        /\ tag' = [tag EXCEPT ![req.index] = req.tag]
        /\ valid' = [valid EXCEPT ![req.index] = TRUE]
    BY <1>2 DEF Edge_ReadDone, FillDone, pmem_address, dirty_out, dirty_load, dirty_in
  <2>2. ASSUME NEW a \in LineAddr
        PROVE  view'[a] = view[a]
    <3>1. a[2] \in Sets /\ a = <<a[1], a[2]>>
      BY AddrParts
    <3>2. CASE a[2] # req.index
      BY <2>1, <3>1, <3>2, AddrOfParts DEF view, Cached, Filling
    <3>3. CASE a[2] = req.index
      BY <2>1, <3>1, <3>3, AddrOfParts DEF view, Cached, Filling, AddrOf
    <3> QED BY <3>2, <3>3
  <2> QED BY <2>2 DEF view
<1> QED BY <1>1, <1>2

(* The abstract registers after a step of the port.                         *)
LEMMA ShadowStep ==
  ASSUME IInv, Next
  PROVE  [Shadow!Next]_(Shadow!shadowVars)
<1> DEFINE loaded == IF wb_load THEN wb_mem_rdata ELSE NoLoad
<1>1. PICK otherStall \in BOOLEAN : Advance(otherStall)
  BY EdgeCases DEF IInv
<1>2. \/ req' = req /\ loaded' = loaded
      \/ /\ req' \in Requests \union Bubbles(Requests, req)
         /\ loaded' = IF req.op = "read" THEN mem_rdata_cpu(req) ELSE NoLoad
  BY <1>1, PortCases DEF IInv, portVars
<1>3. CASE Edge_NoAccess
  <2>1. view' = view /\ req.op = "none"
    BY <1>3, ViewHit DEF Edge_NoAccess, NoAccess, Requested
  <2> QED
    BY <1>2, <2>1, ShadowBubbles
       DEF Shadow!Next, Shadow!Bubble, Shadow!Issue, Shadow!shadowVars
<1>4. CASE Edge_ReadHit
  <2>1. view' = view /\ req.op = "read" /\ mem_resp(req)
    BY <1>4, ViewHit DEF Edge_ReadHit, ReadHit
  <2>2. mem_rdata_cpu(req) = mem_rdata(view[AddrOf(req)], req.word)
    BY <2>1, HitSeesView
  <2> QED
    BY <1>2, <2>1, <2>2, ShadowBubbles
       DEF Shadow!Next, Shadow!Load, Shadow!Issue, Shadow!shadowVars,
           Shadow!AddrOf, Shadow!mem_rdata, AddrOf, mem_rdata
<1>5. CASE Edge_WriteHit
  <2>1. view' = [view EXCEPT ![AddrOf(req)] = Stored(@, req)] /\ req.op = "write"
    BY <1>5, ViewWriteHit DEF Edge_WriteHit, WriteHit
  <2> QED
    BY <1>2, <2>1, ShadowBubbles
       DEF Shadow!Next, Shadow!Store, Shadow!Issue, Shadow!shadowVars,
           Shadow!AddrOf, Shadow!Stored, Shadow!Masked,
           Shadow!mem_wdata_line, Shadow!mem_byte_enable_line, AddrOf,
           Stored, Masked, mem_wdata_line, mem_byte_enable_line
<1>6. CASE \/ Edge_MissClean \/ Edge_WriteWait \/ Edge_WriteDone
           \/ Edge_ReadWait \/ Edge_ReadDone
  <2>1. req' = req /\ loaded' = loaded
    BY <1>1, <1>6, RequestHeld
  <2>2. view' = view
    BY <1>6, <2>1, ViewMissClean, ViewWriteBack, ViewFill
  <2> QED BY <2>1, <2>2 DEF Shadow!shadowVars
<1> QED BY <1>3, <1>4, <1>5, <1>6, EdgeCases DEF IInv

(* The check of shadow_memory.sv never reports an error: seen from the data *)
(* port the cache and the memory behind it are one flat memory, in which a  *)
(* load returns what the last store to each of its bytes left there.        *)
THEOREM FlatMemory == Spec => ImplementsShadow
<1>1. Init => Shadow!Init
  BY ViewInit DEF Init, Shadow!Init, Shadow!NoRequest, NoRequest
<1>2. IInv /\ [Next]_vars => [Shadow!Next]_(Shadow!shadowVars)
  <2> SUFFICES ASSUME IInv, [Next]_vars PROVE [Shadow!Next]_(Shadow!shadowVars)
    OBVIOUS
  <2>1. CASE Next
    BY <2>1, ShadowStep
  <2>2. CASE UNCHANGED vars
    BY <2>2 DEF vars, cacheVars, portVars, Shadow!shadowVars, view, Cached, Filling
  <2> QED BY <2>1, <2>2
<1> QED BY <1>1, <1>2, Invariance, PTL DEF Spec, ImplementsShadow, Shadow!Spec
=============================================================================
