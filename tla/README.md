# A verification development for the ECE 411 processors

The repository holds one student's work for a computer-organisation course:
four small SystemVerilog designs (`mp1`), a multicycle RISC-V processor
(`mp2`), the same processor with a two-way cache (`mp3`), and a five-stage
pipelined RISC-V processor with split caches, an arbiter and a burst memory
(`Final`), with the C programs it is measured with: CoreMark and three
competition programs.  This directory models them in TLA+, checks the models
with TLC on small instances and proves the central results with TLAPS for
every value of the parameters.

The hardware is synchronous.  A TLA+ variable is a register, an operator of the
registers and the inputs is a combinational signal, and **one step is one
rising clock edge**: every component reads the outputs the others had before
the edge.  Concurrency is there not interleaving but lock-step, and what is
nondeterministic is what the hardware does not fix: the program (which requests
arrive at the ports), memory latency, the contents of registers that reset does
not touch, and what lies on a bus nobody drives.

In the programs a step is a statement or a loop iteration with its effect on
the heap or on shared state.  What runs in parallel there (the threads at a
barrier, the contexts of CoreMark, which may be threads or processes) is
interleaved.

## 1. Inventory

### Final: the pipelined processor

```
             fetch port                    data port
  datapath.sv  ---------->  instruction      data  <---------- datapath.sv
   (stall)                     cache         cache               (DMAR ...)
                                  \           /
                                   arbiter.sv
                                        |   256-bit lines
                               cacheline_adaptor.sv
                                        |   4 beats of 64 bits
                          hvl/param_memory.sv (outside the chip)
```

| component | state it keeps | operations | interacts by |
|---|---|---|---|
| cache (`cache*.sv`, `array.sv`, `data_array.sv`, `line_adapter.sv`), instantiated twice | `state` (check_hit, read_mem), data, tag, valid, dirty per set | hit, write hit, write-back, fill | request held on the CPU port until `mem_resp`; `pmem_read/write` held until `pmem_resp` |
| arbiter (`arbiter.sv`) | `state` (idle, data, instr) | grant, hold, release; data first | routes request and answer of one cache at a time |
| adaptor (`cacheline_adaptor.sv`) | `macro`, `count`, `linebuf`, `addressbuf` | read burst, write burst | buffers a request, counts beats, answers with `resp_o` for one cycle |
| burst memory (`hvl/param_memory.sv`) | memory, current task, delay, beat, page | read task, write task, six assertions | `resp` for `BURST_LEN` cycles after a delay that depends on the page |
| shadow memory (`hvl/shadow_memory.sv`) | a flat memory | compares every load, store and fetch at commit | observer |
| pipeline (`datapath.sv`, `forwarding_unit.sv`, `control_word.sv`, `regfile.sv`) | IF/ID, ID/EX, EX/MEM, MEM/WB registers, register file | five stages, forwarding, load hazard, two-cycle flush, one stall for everything | two cache ports |
| CSR file (`csr_regfile.sv`) | a few machine registers | read in ID, written in WB | pipeline |
| MMU and TLBs (`mmu/`, `tlb/`, `fake_mem.sv`) | walk state, level, PTE; four entries with LRU | page-table walk, cached translation | not instantiated by `mp4.sv` |

### The C programs

| component | state it keeps | operations | interacts by |
|---|---|---|---|
| CoreMark kernels (`core_list_join.c`, `core_state.c`, `core_matrix.c`, `core_util.c`) | a linked list in a block, a text, two matrices, running CRCs | find, reverse, merge sort, remove and undo; run and corrupt the text; four matrix products | comparing two items of the list may run one of the other kernels and cache its result in the item |
| CoreMark main (`core_main.c`) | results per context, total errors | arguments, memory blocks, calibration, start and stop of contexts, report | port functions |
| POSIX port (`linux/core_portme.c`) | pids, shared memory, sockets | threads, or processes that hand CRCs over in shared memory or in a datagram | signals, `waitpid` |
| RISC-V port (`riscv-baremetal/core_portme.c`) | volatile seeds, a 32-bit cycle counter | one context, no command line | the processor |
| printf of the barebones port (`ee_printf.c`, `cvt.c`) | none | integers, decimals, strings, addresses | |
| baremetal barrier (`util.h`) | sense, count, a sense per thread | arrive, flip, spin | shared memory |
| competition programs (`comp1.c`, `comp2.c`, `comp3.c`) | loop counters, a status | branch kernels, least common multiples, risk of option trades | |

### mp1, mp2, mp3

| component | state | hard part |
|---|---|---|
| `mp1/fifo` | 9-bit pointers that count down, queue, output buffer | full against empty, simultaneous enqueue and dequeue |
| `mp1/cam` | keys, values, ages, valid bits | ages stay a permutation, true LRU eviction |
| `mp1/multiplier` | A, Q, M, C, iteration | carry kept over one cycle, start while running, reset in the middle |
| `mp1/cacheline_adaptor` | latch FSM with 11 states, buffer | waits for `resp_i` per beat, address not buffered |
| `mp2` | control state machine, registers | memory handshake per state |
| `mp3/hdl/cache` | two ways, LRU, a control of five states | arrays and LRU bit show the cycle before, hit without valid, evict condition, which way a store writes |

### What makes the behaviour hard

* A cache fill writes the data array in *every* cycle of the wait, under the
  victim's tag (`cache_control.sv:64-66`).
* The write-back address and data are combinational functions of the live
  request while the transaction runs (`cache_datapath.sv:36-38`).
* One stall stops the whole pipeline (`datapath.sv:81`), so an answered access
  is repeated while the other port waits.
* Adaptor and memory count beats independently; after the first beat the
  adaptor no longer looks at `resp_i` (`cacheline_adaptor.sv:78-90`).
* The memory *drops* an access whose request is not held steady
  (`param_memory.sv:65-87`).
* The arbiter has a fixed priority.
* The ages of the CAM must stay a permutation through every mixture of hits,
  misses and evictions; the FIFO must show a word that the memory does not hold
  yet when the only word leaves as another comes.
* CoreMark's list is relinked in place while it is sorted, and the comparison
  that drives the sort changes the data it compares and two other blocks.
* A context of CoreMark may fail to start, be suspended, or answer before it is
  listened to; `waitpid` may return for another child or for a stop.
* The verdict is one integer that is both a count and a flag, and the number of
  iterations is found with a truncated time, on the processor with a clock that
  goes round in 4.3 seconds.
* The same two words serve every call of the barrier.

`PROJECT.json` lists the hazards, each at its line, with the properties that
cover it or why none does.

## 2. Modules

| module | models | notes |
|---|---|---|
| `MemoryTypes` | line, word and byte lanes, requests; `line_adapter.sv`, the masked write of `data_array.sv` | shared vocabulary |
| `Cache` | one cache, an action per thing a clock edge can do | outputs are operators `hit`, `mem_resp`, `dirty_out`, `pmem_address`, ... named as in the source |
| `ShadowMemory` | **abstract specification**: one flat memory behind a port | what `shadow_memory.sv` checks |
| `CacheSystem` | `Cache` + CPU port + a line memory as weak as arbiter and adaptor leave it | refines `ShadowMemory` through `view` |
| `Arbiter` | `arbiter.sv` | |
| `Bursts` | beats of a line | |
| `CachelineAdaptor` | `cacheline_adaptor.sv` | |
| `ParamMemory` | `param_memory.sv`, with its assertions | user is arbitrary |
| `BurstLink` | adaptor + memory | requester is arbitrary |
| `MemSystem` | the hierarchy of `mp4.sv` with both pipeline ports | refines `CacheSystem` |
| `InstructionSet` | the kinds of instruction `control_word.sv` tells apart, ALU, comparator, write-back multiplexer, register file | shared by the next two |
| `Isa` | **abstract specification**: one instruction at a time, in program order | what the RVFI monitor recomputes at commit |
| `Pipeline` | `datapath.sv`, `forwarding_unit.sv`: the registers between the stages; an edge is `Stall`, `Hazard` or `Advance` | refines `Isa` |
| `BoundedQueue` | **abstract specification**: a bounded queue with a registered output | |
| `Fifo` | `mp1/fifo` | refines `BoundedQueue` |
| `LruTable` | **abstract specification**: at most so many keys, the least recently used one is dropped | |
| `Cam` | `mp1/cam`: keys, values, valid bits and ages, the comparators of its controller | refines `LruTable` |
| `AddShiftMultiplier` | `mp1/multiplier`, reset and start at any edge | |
| `CoreUtil`, `CoreState`, `CoreMatrix`, `CoreReport` | the CRCs and number parsing, the text and its state machine, the matrices, seeds and known results | operators only |
| `CoreList` | `core_list_join.c` and `iterate()`: a heap of cells, a merge step per action, with the other kernels run in full by the comparison | |
| `CoreMain` | `main` over the POSIX and the RISC-V port | CRCs abstracted to where they come from |
| `EePrintf`, `PrintedNumbers` | the formatting functions; calls with one number | |
| `Rendezvous` | **abstract specification**: nobody leaves call *k* before all have made call *k* | |
| `SpinBarrier` | `barrier()` of `util.h`, a step per access of a shared word | refines `Rendezvous` |
| `TwoWayCache` | `mp3/hdl/cache`: control, datapath and arrays, with a memory of lines and the shadow memory as history | checked as it is by one run, inside `MCUnits` by another |
| `CompPrograms`, `RiskProgram` | `comp1.c` and `comp2.c`, `comp3.c` | |
| `MCCacheSystem`, `MCBurstLink`, `MCMemSystem`, `MCPipeline`, `MCCoreList`, `MCCoreMain`, `MCUnits` | constants for TLC; `MCUnits` puts the parts that share nothing side by side | |
| `CacheSystemProofs`, `BurstLinkProofs`, `MemSystemProofs`, `PipelineProofs`, `UnitProofs`, `ProgramProofs`, `CoreMainProofs`, `CoreListProofs` | proofs | `UnitProofs`: burst memory, CAM, FIFO, multiplier, two-way cache; `ProgramProofs`: barrier, `comp3.c` |

Operators named `X_Something` are deliberately wrong variants of `X`: each is
the counter-check of one property, which TLC must find violated when the
variant takes the place of `X`.

**How state corresponds to the code.** Names are those of the source where a
TLA+ name allows it.  An address is `<<tag, index>>` plus a word number; the
byte offset and the split into 24/3/5 bits are gone.  A line is a function from
words to words of bytes, so byte enables act on lanes.  `array.sv` and
`data_array.sv` forward a value that is being written in the same cycle; this
is visible in `dirty_out` (which is why `pmem_address` already shows the
requested line in the first cycle of a fill) and in `line_out`.
A task of `param_memory.sv` is a small state machine (`task`, `delay`, `i`);
its `resp` and `rdata` are driven with nonblocking assignments at the edge and
so are registers.  The assertion process and the transfer process of a task
wake at the same edge in either order; `Checked` and `Abort` are the two
outcomes.

**The pipeline.** `PC`, `IMAR`, `IR` and `regfile` are the registers of that
name; `id_pc` is `IF_pc_out`; `ex`, `mem` and `wb` are the records of the
ID/EX, EX/MEM and MEM/WB registers.  A control word is a function of the
instruction, so a stage carries the instruction.  One kind of instruction
stands for each way a value reaches a register, the PC or the memory (all of
`op_imm` but the comparisons are `imm`, and so on); words and addresses are
numbers modulo `Size`, an instruction is one word long.  A register is kept
where a later stage reads it and is 0 under instructions that do not use it;
what only the monitor looks at is left out.  Address 0, which flushed stages
carry and where no program is, is the value `NoPC`.

An instruction *happens* when it leaves EX: nothing stops it from there.  The
refinement mapping follows: the abstract registers are the register file with
the results that WB and MEM hold written into it (`RegsAhead`), the abstract
memory has the store in MEM performed (`Written`), and the abstract PC is the
oldest address that has not left EX and is not about to be dropped
(`NextAhead`: in EX, else in ID, else the fetch address, else `PC`).

**The units of mp1.**  `Fifo` keeps the pointers as they are, counting down with
one bit more than an address; its abstract queue is read off the memory between
the pointers.  `Cam` keeps keys, values, valid bits and the LRU ages; the order
of the abstract table is the order of the ages.  In `AddShiftMultiplier` the
record `ms` is `mstate_s`, and `accepted` remembers the operands of the last
start that was accepted, so that the product can be compared with them.

**The two-way cache of mp3.**  An array registers what it reads and forwards what
is written at the same edge, so its output is its content at the index of the
edge before: `rindex` is that index, and `lru_value` the copy of the LRU bit,
one edge older still.  Nobody connects the reset of the arrays, so they start
with `Unset`, which no comparison matches.  `hold` keeps a new request waiting
for the cycle the arrays need; `Lookup`, `Hit`, `Fill`, `WriteBack` and
`MissWait` are the cases of the control's states, and between two requests of
the processor there is a cycle without one, as its states `Fetch1` and
`Calc_Addr` leave it.  `expected` is the memory `mp3/hvl/shadow_memory.sv` keeps.
The memory moves a line beat by beat and therefore never answers in the first
cycle of a request; it acts on the address and the line that are at the port
when it answers.

**CoreMark's list.**  A cell and a datum are numbers, in the order in which the
block hands them out; the list is the functions `next` and `info`.  `Split`,
`Merge`, `Merged` and `EndPass` are the loops of `core_list_mergesort`;
`Compare` is `cmp_complex` with `calc_func`, which runs `core_bench_state` or
`core_bench_matrix` on the real blocks and folds their results in the running
CRCs, or `cmp_idx`, which puts the data back.  `Call` to `Return` is
`core_bench_list`.  CRCs, corruption and matrix products are computed in full,
so the numbers that `core_main.c` compares with come out of the model.
`before` and `origin` are history: the order before a sort, the blocks before
the first call.

**CoreMark's main.**  The build (`method`) is chosen in the initial state, with
the time an iteration takes (`ticks`) and what a shared memory segment still
holds from an earlier run (`leftover`: the key is a constant and nobody removes
the segment).  Each context has the state of its process (`child`), what a wait
for it would report (`wait`), the channel it hands its results over by
(`channel`: a segment or a socket) and what `results[c]` holds (`value`).  CRCs
are right when they were computed from the seeds of this run, whoever did so.
A fork may fail, a process may be stopped by a signal and go on later or never,
a datagram to a socket that is not bound is lost, a child may fail to attach.

**The barrier and the programs.**  `SpinBarrier` has a step per access to
`sense` or `count` (the addition is the atomic one of the code), and counts
calls and returns as history.  `RiskProgram` takes any buffer of notifications,
handles them in the order and with the stride of the code, and accumulates as
`comp3.c` does; `handled` is history.  `CompPrograms` carries the sums of
`comp2.c` in two limbs because they exceed 31 bits.

**What the environment may do.** In `CacheSystem` the port may ask for any
request of `Requests` or hold a bubble, and `otherStall`, the other port's
stall, is free in every cycle.  The memory may wait any number of cycles,
drives any line before it answers and takes the words of a write in any order.
In `BurstLink` the requester may change its mind in every cycle.  In
`MemSystem` both caches, the arbiter, the adaptor and the memory are the real
ones; only the program is free.  In `Pipeline` each port is seen as `CacheSystem`
shows it, one flat memory that answers when it likes: `Stall` takes the two
answers as inputs, and a store answered during a stall of the other port is
performed at every such edge.  The units of mp1 take any input at every edge
that their comments allow, and the multiplier a reset at any edge.

## 3. Runs

| run | what it asks | instance |
|---|---|---|
| `cache_system` | the inductive invariant (types; a clean line equals memory; dirty implies valid; a fill is for a held miss); refinement of `ShadowMemory`, with stores that enable one byte only; every request is answered | 2 sets, 2 tags, words of 2 bytes, with fairness; two lines compete for one set, the other has one |
| `burst_link` | the inductive invariant (types, the memory's assertions, beats in step, beats moved, the line whole at the answer); during a write only the buffered line changes; adaptor and memory are one atomic memory of lines; a burst ends | 2 lines in 2 pages, the real 4 beats |
| `mem_system` | types; assertions at the pins; answers go to the right cache with the right line; fetched words come from the image; the data side implements `CacheSystem`, hence `ShadowMemory`; the pipeline always moves again | 4 lines in one set: two of code, two of data; bursts of 3 beats; delays 2 and 1 |
| `pipeline` | types; operands; right path; refinement of `Isa`; instructions never stop leaving EX | 26831 programs: every sound sequence of four of 13 instructions, 3 registers, 4 words |
| `coremark_list` | no cell or datum is lost; every sort is stable and sorts; the blocks are as before after each call; the known CRCs come out; it ends | lists of 5 to 18 cells, 22 runs, three of them with seeds and sizes whose results the code knows |
| `coremark_main` | the blocks are disjoint; which contexts' CRCs have been gathered; what "validated" means, both ways; what calibration gives; `main` ends unless it waits for something that cannot come | 7 builds, up to 3 contexts, 1 to 60 ticks an iteration |
| `units` | burst memory against any user, legal or not; FIFO, CAM and barrier refine their specifications; invariants of CAM, multiplier and two-way cache; the product; totals and status of `comp3.c`; `comp1.c` and `comp2.c` pass, the multiplier becomes ready and the two-way cache answers; numbers are printed right | one unit per initial state: 2 lines and 3 beats; 4 words in the FIFO; 5 keys for 4 entries; 4-bit operands; 3 lines for two ways and one in another set; 3 threads and 3 calls; buffers of 7 kinds of notification |
| `pipeline_x0` | *violated*: x0 reads as zero | loads into x0, readers of x0 |
| `pipeline_narrow` | *violated*: operands, for a load whose base was loaded as a byte | three instructions |
| `list_restored` | *violated*: the list is back to its original state after every call | the runs of `coremark_list` |
| `coremark_verdict` | *violated*: "validated" is said of known seeds only | the builds of `coremark_main` |
| `two_way_store` | *violated*: a load through the two-way cache returns what the shadow memory expects | one set, 2 lines, 2 values |

Where the properties of a run include a proved inductive invariant, its
conjuncts (`MemoryProtocol` and `LineMoved` of `BurstLink`, for instance) are
not checked again in that run.  `AtomicLines` is no conjunct and does not follow
from `IInv`: an adaptor that does not buffer the line of a write
(`StartWrite_NoBuffer`) keeps `IInv` and `OnlyAddressed`, and only `AtomicLines`
fails, since it compares the memory after the burst with the request at the
edge that took it.

**What the violations show.**  `forwarding_unit.sv` compares register numbers
and little else.  (a) Lines 91, 152 and 176-191 do not exclude register 0: a
load into x0 hands the loaded word to the next reader of x0.  (b) The override
that hands on the extended value of a byte or half-word load (lines 91, 152) is
switched off when the instruction in ID is a load itself, which then gets the
whole memory word as its base (lines 67 and 128).  `Final/README.rst:323-326`
and `Final/testcode/mp4-cp2.s:8` ask for correct forwarding and none for x0.
`Sound` excludes (a) and (b) and nothing else; the refinement holds for every
program that is left, so these two are the only programs of the model on which
forwarding goes wrong.  (An instruction may also be held for a cycle by bits of
its immediate, lines 176-191; only time is lost.)

(c) `core_list_join.c:129` says that `core_bench_list` leaves the list in its
original state.  It sorts by an index that line 250 makes from 14 bits of the
item's number and the seed, and two items may get the same one (seed 7, ten
items): the sort back then keeps them in the order of the sort before it, and
the next call works on another list.  `Restored` states the comment for the
lists whose indexes differ, and holds.  (d) `core_main.c:261` sets the number of
errors to -1 for unknown seeds and line 300 adds 1 for a run shorter than ten
seconds: the sum is 0, which line 324 reports as a validated operation.
`ValidatedMeansComputed` and `CompleteRunValidates` are about known seeds and
hold.

(e) `cache_datapath.sv:221` of mp3 lets a store write way 1 only when the LRU bit
names way 1.  After an access that hit way 1 the bit names way 0; a store to the
same line then hits way 1 and is written into the line of way 0.  It is lost,
and another address changes: the shadow memory of the testbench reports it at
the next load (`mp3/hvl/shadow_memory.sv:50`).  The run has one set, in which
nothing else goes wrong.  With several sets the decision whether to write a
line back (line 193) uses an LRU bit that is one cycle older than the tags it
is combined with, that of the set used before; the hazard is listed, and
`TwoWayInv`, which says where a line may be and when a request is looked at,
does not depend on it.

One more thing `coremark_main` shows, without any line that claims the
contrary: on the processor the counter has 32 bits and a second is 10^9 cycles,
so a run that takes ten seconds is measured as less than five and counts as too
short: the verdict of a run of known seeds is never "validated"
(`CompleteRunValidates`).  This is about the value of `total_errors`; the
`ee_printf` of the baremetal build prints nothing.

And one that `BlocksDisjoint` leaves out by its hypothesis: `core_init_matrix`
aligns its operands to a multiple of 4 inside a share that need not start at
one, and finds the dimension without counting the bytes skipped.  A share of
8n^2 + 1 bytes (201 of the size 603 with three algorithms) then has no room for
them, and the matrix of the sums ends 2 bytes into the next block.  The
default of 2000 bytes (`coremark.h:27`) has room, whether one algorithm, two or
three share it; `RoomToAlign` says which shares do, and the runs contain 603.  Nothing in the repository says that any size will do.

**Why the bounds are enough.** The cache compares tags, indexes one set and
masks lanes, so two tags per set (a line and its victim), two sets (a write to
the wrong set shows), two bytes of a word (a write to the wrong byte shows) and two
values per byte (old against new) exercise every comparison both ways; the
words of a line, which the line adapter tells apart as it does bytes, are
several in `mem_system`.  The
adaptor and the memory treat all beats but the first and the last alike, so
four beats, the number in the code, contain every case.  The delay matters
only as "one", the edge case of a page hit that answers at the first possible
edge, and "more than one".  `mem_system` has to have a code line and a data
line compete for arbiter and adaptor, and two data lines for one set so that
write-backs happen.  For the pipeline, a value is passed on between four stages (ID, EX, MEM,
WB), so four consecutive instructions meet in every combination of kinds; two
registers besides x0 let the two operands of an instruction have different
producers; programs wrap around, so every branch target is an instruction.  No
counter is unbounded, so no bound cuts a behaviour off: in every run all reachable states of the
instance are visited.  The hardware never stops, and deadlock is checked in
the runs of the memory hierarchy and the pipeline, and in `coremark_list`, where
a list that has been handed back stutters.  `coremark_main` and `units` have it
off: there `main`, the programs and the callers of the barrier end, and a
context of CoreMark may wait for ever, which `MainEnds` is about.

A queue of four words fills, empties and wraps around with both signs of the
pointers.  Four entries with five keys make every mixture of hit, miss and
eviction, and the ages of four entries can go wrong in every way two of them
can be compared.  Three lines for two ways make every hit, fill and eviction of
the two-way cache, and a line in another set makes the arrays show a set that
is not the one asked for; data play no part in `TwoWayInv`, so one value is enough.  Operands of four bits contain every carry pattern of an
addition and a shift.  Three threads and three calls let a fast thread meet a
slow one in the next call, and the sense come back to its first value.  The
seeds of `coremark_list` are chosen so that indexes collide and do not, the
corruption of the text is undone and is not, and the three published runs are
computed in full for one iteration.  `coremark_main` has ticks on both sides
of every quotient of the calibration, five of them to a second; on the
processor ten iterations take 0.1, 1.02, 5 or 10 seconds, so that its clock
does not go round, or once, or twice.  The numbers printed are on either side
of every change of length, rounding and sign; -2147483648 is left out, whose
negation overflows in the code.

**Fairness.** In hardware the clock does not stop: `FairSpec` of `BurstLink`
and `MemSystem` is `Spec /\ WF_vars(Next)`, nothing more.  Everything below it
(the delay counter, the beat counters, the arbiter) is then bound to move.
`CacheSystem` abstracts the memory, so there fairness also says that a held
request is answered (`WriteDone`, `ReadDone`), and `Pipeline` says of its ports that both answer in
the same cycle again and again; `PipelineMoves` in `mem_system` shows that
the real memory does so, in spite of the arbiter's priority for the data cache:
the pipeline is stalled as a whole, so a data cache that has been served has
nothing new to ask for before the fetch is served too.

A program runs on: `ListFairSpec` is the weak fairness of its next-state
relation, written without its ENABLED.  `MainFairSpec` is weakly fair to `main`
and to each context, not to the signals that stop or resume one: nothing in the
code sends them.  At the barrier each thread is scheduled again and again
(`UnitsSpec` is weakly fair to `Step(t)` of each), no more.  The multiplier is
clocked: its `Round` happens unless a reset comes, and `comp1.c` and `comp2.c` run on.
The two-way cache is clocked while there is a request, and its memory answers
(`Served`, `MissWait`); that the processor asks again is not assumed.

## 4. Proofs

The theorems hold for every number of sets, tags, words, lanes and values, any
set of requests, any delay and any burst length of at least two beats.  The
assumptions are the named ASSUMEs of the modules: 0 is a tag, a set and a value
(what reset writes), the words of a line are the beats times the words of a
beat, delays are positive, `Image` is a memory; the set of threads is finite and
not empty, there are contexts and ticks, message numbers start above 0,
contracts have 16 bits, arguments are strings, and the block of the list
benchmark has 120 bytes or more, which is three items (with fewer
`core_list_remove` follows a null pointer), and no more items than 15-bit
indexes tell apart.

**`CacheSystemProofs`.** `Invariance` is `Spec => []IInv`, where `IInv` is the
type invariant with three facts that need each other.  A clean line equals its
copy in memory (`CleanLinesInMemory`) cannot be kept on its own: a fill puts
garbage in the array while the old tag is valid, so the line being filled has
to be exempt, and to know *which* line that is when the answer comes one needs
that the request is still there and still misses (`FillForAMiss`).  A miss that
finds a dirty bit writes the victim back under its own tag; that this is a line
somebody cached needs `DirtyLinesValid`.  `TypeCorrect` and `CleanInMemory` are
read off.  `FlatMemory` is the refinement of `ShadowMemory`: the abstract memory
is `view`, the cached copy of a line where there is one and it is not being
filled, and the memory behind elsewhere.  Each kind of edge has a lemma that
says what it does to `view`: a write hit stores, every other edge leaves it
alone (a write-back makes memory equal to a line that hides it, a fill starts
on a line that is clean and ends with the line of memory).

**`BurstLinkProofs`.** `InStep` says where the memory's task stands seen from
the adaptor's state: not started, in its delay, or in a burst with the same beat
number on both sides.  From it the request is steady, hence no assertion fails
(`ProtocolKept`); the beat counters agree (`BeatsTogether`).  `BeatsMoved` says
that the words of the beats before `count` are the same in the adaptor and in
memory; when the last beat has gone by that is the whole line
(`LineDelivered`).  That a word is in exactly one beat (`WordOfBeat`) is
arithmetic on `\div` and `%`.  `WritesOnlyAddressed` is the action property.
`AtomicLineMemory` is the promise of the pair to its requester, `AtomicLines`:
each access is done whole with the address, operation and line of the edge that
took it.  The abstract memory is `lines`, where the line in the adaptor stands
for the addressed one during a write; each kind of edge has a lemma: it takes
the request of that edge (`TakingEdge`), moves a beat unseen or answers
(`ReadingEdge`, `WritingEdge`), or releases (`ReleasingEdge`).  That a beat of a
write is unseen (`WriteHidden`) rests on `MemoryMoves`, that the answer is the
line on `LineMoved` after the last beat.

**`MemSystemProofs`.**  The composition, from the two proved halves: `Link` is
the adaptor with the memory and an arbitrary requester, `Port` the data cache
with an abstract memory behind it, both instances of the modules above.  What
has to be shown of the composition is that each half sees of the other only what
it was proved for.  `GrantHeld`: the cache that holds the grant is still asking,
which is so because the pipeline is stalled.  `BufferedRequest`: what the
adaptor has buffered is still what that cache drives, so an answer belongs to
the request that is at the port when it comes.  `InstrSide`: nothing dirties a
line of the instruction cache, which could not write one back.  With the
invariants of both halves this is inductive (`Invariance`): an edge of the
system is an edge of `Link` (`LinkStep`) and an edge of `Port` or a stutter
(`PortNext`), by cases on the grant.  The assertions at the pins
(`ProtocolKept`), the routing of answers (`FillsAnswered`) and the refinement of
`CacheSystem` (`DataPortKept`) follow, and with `FlatMemory` of the cache the
promise to the program: the data port of the whole hierarchy is one flat memory
(`FlatDataMemory`).  Fetches need more: that no copy of a line of code, in memory or
in a cache, differs from the image (`CodeKept`).  It holds for programs that do
not store into their code (`NoCodeStores`, the hypothesis of
`FetchesFromImage`, which the instance of the run satisfies); for the others it
is false, since the caches are not coherent.

**`PipelineProofs`.** For every number of registers, every word size, every
narrowing of a loaded word, every initial memory and every set of programs that
are `Sound` (`AllSound`, the hypothesis of each theorem).  `IInv` joins four
facts.  `Stages`: an instruction in a stage is the one at its address and a
bubble does nothing.  `RightPath`: the addresses in the front end follow each
other unless a taken branch is in MEM or WB, which is exactly when
`branch_taken` drops them.  `ForwardedOperands`: the operands in EX are those of
the abstract registers, except where a load in MEM is about to patch them.  The
heart is `ForwardRight`: what the forwarding unit finds for an operand in ID is
the abstract value the register will have once the instruction in EX has left,
by cases on the youngest stage that supplies it.  It needs `Stages` to know that
the load in MEM is an instruction of a sound program.  `StallAhead` and
`HazardAhead` say that these edges change nothing abstract, `AdvanceAhead` what
the third adds; `Refinement` follows: an `Advance` with an instruction in EX is
`Execute`, everything else stutters.

**`UnitProofs`.**  *The burst memory.*  `param_memory.sv` against a user that may do anything at
any edge: until an assertion reports it, `resp` is high exactly during the beats
of a task, and a read is given the beats of the addressed line in order
(`MemoryAnswers`).  The strengthening `NotBegun` says that while a task waits,
its beat number is still the first.

*The CAM.*  For every number of entries, keys and values: no
two entries have one age, no two valid ones one key, and the valid ones are the
youngest (`CamInv`).  What makes it inductive is `FilledTo(n)`: the valid
entries are the first *n* and the *n* youngest, and the others still have the
age they were reset to, so that the entry a new key goes to has the age *n* that
`camsize` entries with different ages leave free.  A request that is served
gives one entry age 0 and moves those that were younger up by one; that is what
using a key does to a table in the order of use, and `CamLeastRecent` shows it
place by place: the abstract table lists the entries by age.

*The FIFO.*  `FifoQueue` is the refinement of `BoundedQueue`, for every capacity
and with resets at any time.  The invariant bounds the distance of the two
pointers and says that the output register is the word the reading pointer
names as soon as one waits.  The rest is arithmetic on a ring that counts down
with one bit more than an address: how the distance, the flags and the place of
each word follow the pointers, and that a word is written behind those that wait.

*The multiplier.*  `PartialProduct` relates the registers after each round to
the operands; an addition and a shift preserve it because the nine bits of C and
A hold the sum (`AddRound`, `ShiftRound`).  Uniqueness of quotient and remainder
is proved here; that a power of two doubles is read off the number of
subsets of a set with one element more.

*The two-way cache.*  `TwoWayInv` is made inductive by what `hold` is for: once it
is low, the arrays show the set of the request at the port.  A fill puts a line
into a way only after a lookup in that set has missed both.

**`ProgramProofs`.**  *The barrier.*  For every finite set of threads and number of calls.
`BarrierInv` has four parts: `Placed` ties a thread's calls and returns to the
statement it is at, `Parity` its own sense to the parity of its calls and the
shared sense to that of the flips, `Counted` says that `count` is the number
of threads that have arrived in the running round, and `OneLast` that at most
one thread is between the last addition and the flip.  `BarrierRefinement`
follows: a thread that sees its sense in the shared word is at a round that
all threads have called.

*`comp3.c`.*  For every buffer and stride.  Whether a notification counts is
defined without the running maximum of the code (its number is above that of
every earlier one of interest); `SeenIsBehind` is the lemma that the two agree.
The program then ends well exactly when none that counted was over its limit
(`RiskStatus`), and each one that counted is in the counters once and on its
side (`RiskCounted`).  The totals are stated as numbers of single contracts, not
as sums over the history, so that a step adds a set to a disjoint one.

**`CoreMainProofs`.**  For every number of contexts, every set of command
lines and every duration.  *A run of known seeds that is reported as validated*
has, in each context it used, CRCs computed in this run, unless the segment
still holds those of the same seeds (`MainValidated`).  The invariant
behind it says that a success was said of right results only: for known seeds
the errors only add up (`ZeroErrors`), so a sum of 0 means that no context was
counted.  *The converse* (`CompleteValidated`) needs to know for each build how
results reach main: by the child itself, in the segment, or in a datagram.
`StartedOnce` ties contexts to the loop of main, and `ByThread`, `ByFork` and
`BySocket` say what main holds for those it has waited for; a process whose stop
was taken for its exit is the case that must be carried along.  *What main has
gathered* (`CrcsGathered`): a context it has waited for has its own CRCs, but for
five cases: its fork failed, it is suspended, it was when the wait returned, it
could not attach the segment, or its exit was collected by the wait for a fork
that failed.  TLC finds a run for each of the five.  `TakenIInv` adds to
`RunIInv` that a process is gone before its turn only if a failed fork has been
waited for.  *Calibration*
(`Calibrated`): the loop leaves with a time between one and ten seconds or with
ten iterations that took longer, and the quotient by the truncated time then
gives 10 to 100 seconds, arithmetic the provers do once durations are named.  *Blocks*
(`BlocksApart`): the dimension that is found by trial fits, because the numbers
below the first that does not have a last one (`LastOfThose`); it leaves room for two
operands and the sums after alignment (`Aligned`, under `RoomToAlign`), and the
shares are laid end to end (`SharesApart`).

That every argument parses to a number (`ParsevalNumber`) is an induction over
its digits.  The library's induction theorems take an operator as a parameter and
cannot be used; `Least`, that a set of numbers has a smallest, gives `Induction`
as a fact about sets, and with it `LoopType`: a loop whose step keeps a type ends
with a value of that type.  The operators that model loops are written with
`Loop` for this.

**`CoreListProofs`.**  The list benchmark, for every size and every seeds that
`InputsAssumption` allows, for any number of iterations.  The invariant
`ListIInv` says that there are an order *s* of *N* distinct cells of the *n* in
the heap, a number *a* of cells already put out and the number *a0* put out
before this merge, such that the heap is what the statement in progress needs:

* `Whole`: outside a sort, `list` is the first cell of *s*, each cell links to the
  next one and the last to none.  `Removed`: between `core_list_remove` and its
  undo the cell taken out is the last of *s*, and its datum that of the second.
* `SplitShape`, `TakeShape`: in a sort, what has been put out is the first *a*
  cells, `p` is the next one and `q` that which follows the rest of the first run;
  only the links at these two seams may be wrong, and the next steps mend them.
* `Member`: until the first call is over every cell is in *s*, later the header
  and every cell whose index is not 0.  (Two items of index 0 may be sorted before
  the header, whose address `res->list` keeps; `NothingLost` is about the lists
  whose indexes differ, and all lists up to the first call.)
* `SplitOrder`, `TakeOrder`: neighbours inside a run are in the order of their
  keys, and equal ones in the order they had before the sort; a run of the pass
  has the same data as before the sort had at the same places (`InBlock`), which is
  why, across two runs, `cmp <= 0` for the first run is the stable choice.
* `Sorting`, `Settled`, `Regular`: the comparison writes.  `calc_func` caches its
  result in the datum and changes text, matrices and CRCs; `cmp_idx` without
  `res` writes the low byte anew from the high one.  A key counts as known only
  once it is cached (`Settled`), and each datum that `cmp_idx` has seen is regular
  again; the last item of a list whose length is one above a multiple of the run
  length is seen only by the last pass, which is the exception in the invariant.
* `Kernels`: the blocks of the other two kernels between two comparisons.  The
  matrix is always as it was initialized (`matrix_test` subtracts what it added,
  modulo 2^16: `MatrixBench`); the text is, if the second corruption undoes the
  first (`CorruptTwice`).

`ListHolds` is `ListSpec => []ListIInv`: a lemma for each statement of the
benchmark, and for the merge one each for a cell from the first run and from the second, for
the shape and for the order (`FromPShape`, `FromQShape`, `FromPOrder`,
`FromQOrder`).  From it follow `NothingIsLost` (the parts of the relinked list, as
a walk along the links finds them, together have each cell once; the permutation
of `info` never loses a datum), `SortsAreStable` (the last pass has one run) and
`IsRestored` (two orders of the same cells with rising and different indexes are
one, `OneOrder`).  What makes the walks tractable is `ChainFrom` and the lemmas
around it: where the links run along a stretch of *s*, the walk yields this
stretch, whatever the rest of the heap is.

**Only model-checked.**  `KnownAnswers` of `CoreList`: the published CRCs are the
outcome of a computation, which TLC carries out.  `NumbersPrinted`, whose
formatting functions are recursive.  All liveness
(`RequestsAnswered`, `BurstEnds`, `PipelineMoves`, `ProgramGoesOn`, `BenchEnds`,
`MainEnds`, `BarrierReturns`, `UnitsFinish`): fairness and ENABLED are outside
what this prover handles.

## 5. What is abstracted, and what is not modelled

* In `Final`, reset is the initial state; a reset in the middle of a run is not
  modelled (`source_tb.sv` resets once, for five cycles).  The units of mp1 may be
  reset at any time, as their testbenches do.
* Instruction words are data: `FetchesImage` checks that the word belongs to the
  address, as long as the program does not store into its own code.  The caches
  are not coherent with each other and nothing in the repository claims it.
* Under a bubble the byte enables are taken to be empty; with `mem_write` low
  nobody looks at them.
* `Pipeline` leaves out the CSR instructions, the byte lanes of stores (they are
  in `Cache`), which address bits choose the part of a word a narrow load takes
  (`Narrow` is any function of the word) and stores into the program itself.
* `Pipeline` and `MemSystem` are not composed in one run.  They meet at the
  ports: the first assumes of them what the second is shown to provide.
* CoreMark: `check_data_types` finds no error; `get_seed(7)` is not truncated to
  16 bits; seeds of `coremark_list` are below 2^15 and its matrices do not
  overflow 32 bits, which would be undefined in the code; the number of iterations has no width.
  `pthread_create`, `shmget`, `socket` and `bind` do not fail.  The linux64 and cygwin ports hold
  the code of the linux one; the simple and barebones ports differ in a timer only and are left out.
* `ee_printf`: no conversion in exponential form, doubles are exact decimals, no
  buffer limit; the UART it would write to is an `#error` in the source.
* The barrier is modelled with stores that become visible in order, as on the
  processors of this repository.  `verify`, `lfsr` and `insn_len` of `util.h` have no state;
  `encoding.h` is a generated table of constants.
* `comp1.c` drops the result of its recursive kernel, and so does the model; in
  `comp3.c` no shift of a price loses a bit.
* In `TwoWayCache` a store writes a whole word, and the memory is one of lines:
  what the adaptor of mp3 makes of an address that changes under it is left out.
* The CSR file, the MMU and TLBs, the mp1 adaptor, mp2 and the processor of mp3
  are not modelled; `PROJECT.json` gives each with its reason.  Generated code (`rvfimon.v`),
  testbenches, traces and assembly programs will stay out.

## 6. Plan

1. *(done)* The memory hierarchy of `Final`: cache, arbiter, adaptor, memory,
   composition, refinement to a flat memory; proofs for the cache and for the
   adaptor with the memory.
2. *(done)* `Isa` and `Pipeline`: five stages with forwarding, load hazard,
   flush and stall, refining the sequential machine; proofs.  Left: the CSR
   instructions, whose read in ID has no bypass from the write in WB.
3. *(done)* CoreMark: the kernels step by step, `main` with its contexts and
   both ports it is used with, the printing of numbers; the baremetal barrier
   refining a rendezvous, with proofs; the competition programs.
4. *(done)* `Fifo` refining a bounded queue, `Cam` refining an LRU table, the
   multiplier; proofs for the CAM and the burst memory.  Left: the mp1 adaptor.
5. `Mmu`, `Tlb`: the walk against the translation steps quoted in `mmu.sv`
   (superpages), the TLB against the walk, its replacement order.
6. *(done)* The mp3 two-way cache against its shadow memory.  Left: the mp2
   control with its memory handshake, and the adaptor of mp3.
7. *(done)* Proofs of the composition `MemSystem`, of the refinements of FIFO
   and CAM, of multiplier and two-way cache, of calibration, verdict and blocks
   of CoreMark, of the counters of `comp3.c`, of the whole list benchmark: its
   relinking, its sorts and what it restores.  Left: the formatting of numbers.
