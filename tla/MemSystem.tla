----------------------------- MODULE MemSystem -----------------------------
(***************************************************************************)
(* The memory hierarchy of Final/hdl/mp4.sv: the two ports of the          *)
(* pipeline, the instruction and the data cache, the arbiter, the          *)
(* cacheline adaptor and, on the other side of the chip's pins, the burst  *)
(* memory.  All of it is one clock domain: a step is one rising edge, on   *)
(* which every component reads the outputs the others had before it.       *)
(***************************************************************************)
EXTENDS MemoryTypes

CONSTANTS
  MaxCount, WordsPerBeat,                  \* Bursts
  DELAY_MEM, DELAY_PAGE_HIT, TagsPerPage,  \* ParamMemory
  Fetches,       \* reads the fetch stage may make
  DataRequests,  \* loads and stores the memory stage may make
  Image,         \* the memory file, ParamMemory
  NoLoad

VARIABLES
  \* the pipeline registers at the ports
  i_req,          \* IMAR, with instr_read
  ir, id_pc,      \* IR and IF_pc_out: the instruction word in ID, its address
  d_req, wb_load, wb_mem_rdata,
  \* instruction cache and data cache
  i_state, i_data, i_tag, i_valid, i_dirty,
  d_state, d_data, d_tag, d_valid, d_dirty,
  \* arbiter
  grant,
  \* cacheline adaptor
  macro, count, linebuf, addressbuf,
  \* memory
  mem, task, addr, delay, beat, pageno, resp, rdata, error

portVars == <<i_req, ir, id_pc, d_req, wb_load, wb_mem_rdata>>
icacheVars == <<i_state, i_data, i_tag, i_valid, i_dirty>>
dcacheVars == <<d_state, d_data, d_tag, d_valid, d_dirty>>
adaptorVars == <<macro, count, linebuf, addressbuf>>
memoryVars == <<mem, task, addr, delay, beat, pageno, resp, rdata, error>>
vars == <<portVars, icacheVars, dcacheVars, grant, adaptorVars, memoryVars>>

ICache == INSTANCE Cache
            WITH state <- i_state, data <- i_data, tag <- i_tag,
                 valid <- i_valid, dirty <- i_dirty
DCache == INSTANCE Cache
            WITH state <- d_state, data <- d_data, tag <- d_tag,
                 valid <- d_valid, dirty <- d_dirty
Arb == INSTANCE Arbiter WITH state <- grant
Adaptor == INSTANCE CachelineAdaptor
Memory == INSTANCE ParamMemory WITH i <- beat

(* IMAR is reset to 0, so the first fetch reads address 0.                  *)
BootFetch == [op |-> "read", tag |-> 0, index |-> 0, word |-> 0,
              mbe |-> {}, wdata |-> ZeroWord]

ASSUME PortAssumption ==
  /\ Fetches \subseteq {r \in Request : r.op = "read"}
  /\ BootFetch \in Fetches
  /\ DataRequests \subseteq {r \in Request : Requested(r)}
  /\ Image \in [LineAddr -> Line]
  /\ NoLoad \notin Word

(* The parameters of Bursts and ParamMemory, and bursts of at least two     *)
(* beats: the adaptor leaves WAITR and WAITW with count = 1.                *)
ASSUME BurstMemoryAssumption ==
  /\ MaxCount \in Nat \ {0}
  /\ WordsPerBeat \in Nat \ {0}
  /\ Words = 0 .. (MaxCount + 1) * WordsPerBeat - 1
  /\ DELAY_MEM \in Nat \ {0}
  /\ DELAY_PAGE_HIT \in Nat \ {0}
  /\ TagsPerPage \in Nat \ {0}
  /\ Tags \subseteq Nat

-----------------------------------------------------------------------------
(* The wires of mp4.sv.                                                     *)

data_side == [read  |-> DCache!pmem_read,
              write |-> DCache!pmem_write(d_req),
              addr  |-> DCache!pmem_address(d_req),
              line  |-> DCache!pmem_wdata(d_req)]

(* The write port of the instruction cache is not connected.                *)
instr_side == [read |-> ICache!pmem_read,
               addr |-> ICache!pmem_address(i_req)]

adaptor_answer == [resp |-> Adaptor!resp_o, line |-> linebuf]

arbiter_request == [read  |-> Arb!pmem_read(data_side, instr_side),
                    write |-> Arb!pmem_write(data_side),
                    addr  |-> Arb!pmem_address(data_side, instr_side),
                    line  |-> Arb!pmem_wburst(data_side)]

pins == [read  |-> Adaptor!read_o,
         write |-> Adaptor!write_o,
         addr  |-> addressbuf,
         wdata |-> Adaptor!burst_o]

instr_mem_resp == ICache!mem_resp(i_req)
data_mem_resp == DCache!mem_resp(d_req)

(* One stall for the whole pipeline (datapath.sv:81); instr_read is always  *)
(* high out of reset.                                                       *)
stall == ~instr_mem_resp \/ (Requested(d_req) /\ ~data_mem_resp)

-----------------------------------------------------------------------------
(* The pipeline at its two ports.                                           *)

Stall ==
  /\ stall
  /\ UNCHANGED portVars

(* MEM/WB takes what the data cache drives.                                 *)
Writeback ==
  /\ wb_load' = (d_req.op = "read")
  /\ wb_mem_rdata' = DCache!mem_rdata_cpu(d_req)

(* A load hazard holds the fetch and puts a bubble in the memory stage.     *)
LoadHazard ==
  /\ ~stall
  /\ Writeback
  /\ d_req' \in Bubbles(DataRequests, d_req)
  /\ UNCHANGED <<i_req, ir, id_pc>>

(* Everything moves by one stage; the program decides where to.             *)
Advance ==
  /\ ~stall
  /\ Writeback
  /\ d_req' \in DataRequests \union {NoRequest(d_req)}
  /\ ir' = ICache!mem_rdata_cpu(i_req)
  /\ id_pc' = i_req
  /\ i_req' \in Fetches

PipelineClock == Stall \/ LoadHazard \/ Advance

-----------------------------------------------------------------------------

Init ==
  /\ i_req = BootFetch
  /\ ir = ZeroWord
  /\ id_pc = BootFetch
  /\ d_req \in {NoRequest(r) : r \in DataRequests}
  /\ wb_load = FALSE
  /\ wb_mem_rdata = ZeroWord
  /\ ICache!CacheReset
  /\ DCache!CacheReset
  /\ Arb!ArbiterReset
  /\ Adaptor!AdaptorReset
  /\ Memory!MemoryInit

Next ==
  /\ PipelineClock
  /\ ICache!CacheClock(i_req, Arb!instr_mem_resp(adaptor_answer),
                       Arb!instr_mem_burst(adaptor_answer))
  /\ DCache!CacheClock(d_req, Arb!data_mem_resp(adaptor_answer),
                       Arb!data_mem_burst(data_side, adaptor_answer))
  /\ Arb!ArbiterClock(data_side, instr_side, adaptor_answer)
  /\ Adaptor!AdaptorClock(arbiter_request, resp, rdata)
  /\ Memory!MemoryClock(pins)

Spec == Init /\ [][Next]_vars

(* The clock does not stop.                                                 *)
FairSpec == Spec /\ WF_vars(Next)

-----------------------------------------------------------------------------
(* Properties.                                                              *)

TypeOK ==
  /\ i_req \in Fetches
  /\ ir \in Word
  /\ id_pc \in Fetches
  /\ d_req \in Request
  /\ wb_load \in BOOLEAN
  /\ wb_mem_rdata \in Word
  /\ ICache!CacheTypeOK
  /\ DCache!CacheTypeOK
  /\ Arb!ArbiterTypeOK
  /\ Adaptor!AdaptorTypeOK
  /\ Memory!MemoryTypeOK

(* No assertion of param_memory.sv fails (read_steady, no_write,            *)
(* addr_read_steady, write_steady, no_read, addr_write_steady, and          *)
(* "simultaneous read/write"): whatever the caches and the arbiter do, the  *)
(* memory sees one held request at a time.                                  *)
MemoryProtocol == TypeOK /\ ~error

(* The data cache with everything behind it is the cache over a line memory *)
(* of CacheSystem, hence one flat memory to the data port.                  *)
DataPort == INSTANCE CacheSystem
              WITH state <- d_state, data <- d_data, tag <- d_tag,
                   valid <- d_valid, dirty <- d_dirty,
                   req <- d_req, Requests <- DataRequests
ImplementsCacheSystem == DataPort!Spec

(* The instruction word that enters ID is the one the program image has at  *)
(* its address (shadow_memory.sv checks fetches against _imem), as long as  *)
(* the program does not store into the lines it fetches from: fetches and   *)
(* data never mix up although they share arbiter, adaptor and memory.       *)
FetchesImage ==
  [][Advance => ir' = mem_rdata(Image[AddrOf(id_pc')], id_pc'.word)]_vars

(* The hypothesis "does not store into the lines it fetches from".          *)
NoCodeStores ==
  \A r \in DataRequests, f \in Fetches : r.op = "write" => AddrOf(r) # AddrOf(f)

(* A line one of the caches has been handed complete is the memory's.       *)
AnsweredFills ==
  /\ Arb!instr_mem_resp(adaptor_answer) =>
       ICache!pmem_read /\ linebuf = mem[AddrOf(i_req)]
  /\ Arb!data_mem_resp(adaptor_answer) =>
       IF DCache!pmem_read THEN linebuf = mem[AddrOf(d_req)]
       ELSE DCache!pmem_write(d_req) /\ mem[data_side.addr] = data_side.line

(* The pipeline always gets going again: no miss waits for ever, neither    *)
(* behind the other port nor behind the write-back of its own victim.       *)
PipelineMoves == []<>(~stall)
=============================================================================
