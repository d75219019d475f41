------------------------------ MODULE CoreList ------------------------------
(***************************************************************************)
(* core_list_join.c and iterate() of core_main.c: a linked list in a block *)
(* of cells that is searched, reversed, sorted by the results of the other *)
(* two kernels, and sorted back.  The heap is three functions: next and    *)
(* info of a cell, data16 and idx of a datum.  Cell 1 is the list header.  *)
(***************************************************************************)
EXTENDS Integers, Sequences, SequencesExt

INSTANCE CoreUtil
INSTANCE CoreState
INSTANCE CoreMatrix
INSTANCE CoreReport

CONSTANT Inputs      \* the runs: size of a block, three seeds, iterations

VARIABLES
  input,             \* the run
  next, info, data,  \* the heap
  mem, mat,          \* the blocks of the two other kernels
  res,               \* the outputs in core_results
  at, call,          \* the statement, and which call of core_bench_list
  list, retval, i,   \* locals of core_list_init and core_bench_list
  wanted, remover,
  m,                 \* locals of core_list_mergesort
  before, origin     \* history: the order before a sort, the first state

heap == <<next, info, data>>
kernels == <<mem, mat, res>>
locals == <<list, retval, i, wanted, remover>>
listVars == <<input, next, info, data, mem, mat, res, at, call, list, retval, i,
              wanted, remover, m, before, origin>>

Null == 0

(* Cells from c on, in the order of the list (cut short on a cycle), and up *)
(* to cell e.                                                               *)
Chain(nx, c) ==
  LET Follow == [k \in 1 .. Len(nx) + 1 |-> [s \in Seq(Nat) |->
        LET x == IF s = <<>> THEN c ELSE nx[s[Len(s)]]
        IN  IF x = Null THEN s ELSE Append(s, x)]]
  IN  Loop(Len(nx) + 1, Follow, <<>>)

Upto(s, e) ==
  SubSeq(s, 1, CHOOSE k \in DOMAIN s : s[k] = e /\ \A j \in 1 .. k - 1 : s[j] # e)

Link(nx, s) ==
  [c \in DOMAIN nx |->
     IF \E k \in DOMAIN s : s[k] = c
     THEN LET k == CHOOSE j \in DOMAIN s : s[j] = c IN IF k < Len(s) THEN s[k + 1] ELSE Null
     ELSE nx[c]]

Data(c) == data[info[c]]

-----------------------------------------------------------------------------
(* core_list_find, core_list_reverse.                                       *)

Matches(c, what) ==
  IF what.idx >= 0 THEN Data(c).idx = what.idx ELSE Data(c).data16 % 256 = what.data16

core_list_find(from, what) ==
  LET s == Chain(next, from)
      hits == {k \in DOMAIN s : Matches(s[k], what)}
  IN  IF hits = {} THEN Null ELSE s[CHOOSE k \in hits : \A j \in hits : k <= j]

core_list_reverse(from) ==
  LET s == Reverse(Chain(next, from)) IN [next |-> Link(next, s), head |-> s[1]]

-----------------------------------------------------------------------------
(* core_list_init.  The header is made first, then the tail and the items   *)
(* are inserted behind it while there is room in the block.                 *)

ListSize(blksize) == (blksize \div 20) - 2

(* Fewer than three cells, and core_list_remove would follow a null pointer; *)
(* more than a 16-bit index can number, and the list would not be in order. *)
ASSUME InputsAssumption ==
  \A x \in Inputs :
    /\ x.size \in Nat /\ x.size >= 120 /\ ListSize(x.size) \div 5 <= 32768
    /\ x.seed1 \in Int /\ x.seed2 \in Int

core_list_insert_new(what) ==
  LET c == Len(next) + 1 IN
  IF c >= ListSize(input.size) THEN UNCHANGED heap
  ELSE /\ next' = Append([next EXCEPT ![1] = c], next[1])
       /\ info' = Append(info, c)
       /\ data' = Append(data, what)

(* datpat is the seed's low bits by the number of the item, kept twice.     *)
Item(k, seed) ==
  LET dat == (Xor8(seed, k) % 16) * 8 + (k % 8)
  IN  [idx |-> 0, data16 |-> (dat * 256) + dat]

Insert ==
  /\ at = "insert"
  /\ i < ListSize(input.size)
  /\ core_list_insert_new(Item(i, input.seed1))
  /\ i' = i + 1
  /\ UNCHANGED <<input, kernels, at, call, list, retval, wanted, remover, m, before, origin>>

(* The index of the k-th cell behind the header: the first fifth in order.  *)
Index(k, size, seed) ==
  IF k < size \div 5 THEN k
  ELSE LET pat == Xor16(k, seed)
       IN  (Or8((k + 1) % 8, pat \div 256) * 256 + (pat % 256)) % 16384

NoMerge == [cmp |-> "", then |-> "", p |-> Null, q |-> Null, psize |-> 0, qsize |-> 0,
            insize |-> 0, nmerges |-> 0, tail |-> Null, out |-> Null]

StartSort(from, cmp, then) ==
  /\ m' = [NoMerge EXCEPT !.cmp = cmp, !.then = then, !.p = from, !.insize = 1]
  /\ before' = [k \in DOMAIN Chain(next, from) |-> info[Chain(next, from)[k]]]
  /\ at' = "split"

IndexAndSort ==
  /\ at = "insert"
  /\ i >= ListSize(input.size)
  /\ LET s == Chain(next, 1) IN
     data' = [d \in DOMAIN data |->
                IF \E k \in 2 .. Len(s) - 1 : info[s[k]] = d
                THEN [data[d] EXCEPT !.idx =
                        Index((CHOOSE k \in 2 .. Len(s) - 1 : info[s[k]] = d) - 1,
                              ListSize(input.size), input.seed1)]
                ELSE data[d]]
  /\ StartSort(1, "cmp_idx", "init")
  /\ UNCHANGED <<input, next, info, kernels, call, locals, origin>>

-----------------------------------------------------------------------------
(* The comparisons, which may change the data they compare.                 *)

(* The kernel that a datum asks for, or none; s carries what the kernels    *)
(* may change.                                                              *)
Kernel(x, s) ==
  LET dtype == ((x \div 8) % 16) * 17
      text == core_bench_state(input.size, s.mem, input.seed1, input.seed2,
                               IF dtype < 34 THEN 34 ELSE dtype, s.res.crc)
      product == core_bench_matrix(s.mat, dtype, s.res.crc)
  IN  CASE x % 8 = 0 -> [crc |-> text.crc, mem |-> text.mem, A |-> s.mat.A]
        [] x % 8 = 1 -> [crc |-> product.crc, mem |-> s.mem, A |-> product.A]
        [] OTHER     -> [crc |-> x, mem |-> s.mem, A |-> s.mat.A]

(* Its result is cached in the lower half, and folded in.                   *)
FirstResult(old, new) == IF old = 0 THEN new ELSE old

Cached(s, d, x, ran) ==
  [data |-> [s.data EXCEPT ![d].data16 = ((x \div 256) * 256) + 128 + (ran.crc % 128)],
   mem |-> ran.mem,
   mat |-> [s.mat EXCEPT !.A = ran.A],
   res |-> [s.res EXCEPT
              !.crc = crcu16(ran.crc, @),
              !.crcstate = IF x % 8 = 0 THEN FirstResult(@, ran.crc) ELSE @,
              !.crcmatrix = IF x % 8 = 1 THEN FirstResult(@, ran.crc) ELSE @]]

(* calc_func: the value cached in a datum, or the one that a kernel         *)
(* computes, which is cached.                                               *)
calc_func(d, s) ==
  LET x == s.data[d].data16
  IN  IF (x \div 128) % 2 = 1 THEN s ELSE Cached(s, d, x, Kernel(x, s))

(* cmp_idx without results restores the data from their upper halves.       *)
(* Mutant: cached results stay.                                             *)
Regenerate_Not(d, dat) == dat
Regenerate(d, dat) == [dat EXCEPT ![d].data16 = (@ \div 256) * 257]

Compare(a, b) ==
  LET s == [data |-> data, mem |-> mem, mat |-> mat, res |-> res]
  IN  IF m.cmp = "cmp_idx" THEN [s EXCEPT !.data = Regenerate(b, Regenerate(a, data))]
      ELSE calc_func(b, calc_func(a, s))

Key(cmp, d, dat) == IF cmp = "cmp_idx" THEN dat[d].idx ELSE dat[d].data16 % 128

(* "First element of p is lower (or same)".  Mutant: lower only.            *)
FirstOfP_Lower(dat) == Key(m.cmp, info[m.p], dat) < Key(m.cmp, info[m.q], dat)
FirstOfP(dat) == Key(m.cmp, info[m.p], dat) <= Key(m.cmp, info[m.q], dat)

-----------------------------------------------------------------------------
(* core_list_mergesort.                                                     *)

(* A run of at most insize cells from p; q is where the next one starts.    *)
Split ==
  /\ at = "split"
  /\ m.p # Null
  /\ LET s == Chain(next, m.p) IN
     m' = [m EXCEPT !.nmerges = @ + 1, !.qsize = m.insize,
                    !.psize = IF Len(s) < m.insize THEN Len(s) ELSE m.insize,
                    !.q = IF Len(s) > m.insize THEN s[m.insize + 1] ELSE Null]
  /\ at' = "take"
  /\ UNCHANGED <<input, heap, kernels, call, locals, before, origin>>

Mergeable == m.psize > 0 \/ (m.qsize > 0 /\ m.q # Null)

Emit(e, rest) ==
  /\ next' = IF m.tail = Null THEN next ELSE [next EXCEPT ![m.tail] = e]
  /\ m' = [rest EXCEPT !.tail = e, !.out = IF m.tail = Null THEN e ELSE @]

FromP == Emit(m.p, [m EXCEPT !.p = next[m.p], !.psize = @ - 1])
FromQ == Emit(m.q, [m EXCEPT !.q = next[m.q], !.qsize = @ - 1])

Merge ==
  /\ at = "take"
  /\ Mergeable
  /\ \/ m.psize = 0 /\ FromQ /\ UNCHANGED <<data, kernels>>
     \/ m.psize > 0 /\ (m.qsize = 0 \/ m.q = Null) /\ FromP /\ UNCHANGED <<data, kernels>>
     \/ /\ m.psize > 0 /\ m.qsize > 0 /\ m.q # Null
        /\ \E s \in {Compare(info[m.p], info[m.q])} :
           /\ IF FirstOfP(s.data) THEN FromP ELSE FromQ
           /\ data' = s.data /\ mem' = s.mem /\ mat' = s.mat /\ res' = s.res
  /\ UNCHANGED <<input, info, at, call, locals, before, origin>>

Merged ==
  /\ at = "take"
  /\ ~Mergeable
  /\ m' = [m EXCEPT !.p = m.q]
  /\ at' = "split"
  /\ UNCHANGED <<input, heap, kernels, call, locals, before, origin>>

(* Mutant: the runs do not get longer.                                      *)
NextPass_Same == [m EXCEPT !.p = m.out, !.out = Null, !.tail = Null, !.nmerges = 0]
NextPass == [m EXCEPT !.p = m.out, !.out = Null, !.tail = Null, !.nmerges = 0, !.insize = 2 * @]

(* Mutant: what was put out last keeps its successor.                       *)
Terminated_Not == next
Terminated == [next EXCEPT ![m.tail] = Null]

(* One merge in the whole pass: done; else a pass over runs twice as long.  *)
EndPass ==
  /\ at = "split"
  /\ m.p = Null
  /\ next' = Terminated
  /\ IF m.nmerges <= 1
     THEN list' = m.out /\ at' = m.then /\ m' = NoMerge
     ELSE m' = NextPass /\ UNCHANGED <<list, at>>
  /\ UNCHANGED <<input, info, data, kernels, call, retval, i, wanted, remover, before, origin>>

-----------------------------------------------------------------------------
(* core_bench_list and iterate.                                             *)

Contents(from) == [k \in DOMAIN Chain(next, from) |-> Data(Chain(next, from)[k])]

Blocks(from) == [list |-> Contents(from), mem |-> mem, A |-> mat.A]

(* The list made by core_list_init is res->list; iterate clears the CRCs.   *)
Initialized ==
  /\ at = "init"
  /\ at' = "call"
  /\ call' = 1
  /\ res' = [crc |-> 0, crclist |-> 0, crcmatrix |-> 0, crcstate |-> 0, list |-> list]
  /\ origin' = Blocks(list)
  /\ UNCHANGED <<input, heap, mem, mat, locals, m, before>>

Odd(k) == k % 2 = 1

(* core_bench_list(res, 1) and core_bench_list(res, -1) in turn.            *)
Call ==
  /\ at = "call"
  /\ call <= 2 * input.iterations
  /\ at' = "find"
  /\ list' = res.list
  /\ retval' = 0
  /\ i' = 0
  /\ wanted' = [idx |-> IF Odd(call) THEN 1 ELSE -1, data16 |-> 0]
  /\ UNCHANGED <<input, heap, kernels, call, remover, m, before, origin>>

(* One search; the list is reversed, and the cell behind the one found      *)
(* moves to the front.                                                      *)
Find ==
  LET what == [wanted EXCEPT !.data16 = i % 256]
      found == core_list_find(list, what)
      r == core_list_reverse(list)
      moved == r.next[found]
      bit(c, w) == BitAt(Data(c).data16, w)
  IN
  /\ at = "find"
  /\ i < input.seed3
  /\ list' = r.head
  /\ IF found = Null
     THEN /\ next' = r.next
          /\ retval' = U16(retval + bit(r.next[r.head], 256) - 1)
     ELSE /\ next' = IF moved = Null THEN r.next
                     ELSE LET cut == [r.next EXCEPT ![found] = r.next[moved]]
                          IN  [cut EXCEPT ![moved] = cut[r.head], ![r.head] = moved]
          /\ retval' = U16(retval + bit(found, 1) * bit(found, 512) + 4)
  /\ wanted' = IF what.idx >= 0 THEN [what EXCEPT !.idx = @ + 1] ELSE what
  /\ i' = i + 1
  /\ UNCHANGED <<input, info, data, kernels, at, call, remover, m, before, origin>>

Sort ==
  /\ at = "find"
  /\ i >= input.seed3
  /\ IF Odd(call) THEN StartSort(list, "cmp_complex", "remove")
     ELSE at' = "remove" /\ UNCHANGED <<m, before>>
  /\ UNCHANGED <<input, heap, kernels, call, locals, origin>>

(* core_list_remove(list->next): the data of the next cell move up.         *)
RemoveItem ==
  /\ at = "remove"
  /\ LET item == next[list]
         ret == next[item] IN
     /\ info' = [info EXCEPT ![item] = info[ret], ![ret] = info[item]]
     /\ next' = [next EXCEPT ![item] = next[ret], ![ret] = Null]
     /\ remover' = ret
  /\ at' = "crc"
  /\ UNCHANGED <<input, data, kernels, call, list, retval, i, wanted, m, before, origin>>

(* The datum of the header is folded in once for each cell.                 *)
CrcTimes(n, x, crc) == Loop(n, [k \in 1 .. n |-> [c \in Half |-> crc16(x, c)]], crc)

Crc ==
  /\ at = "crc"
  /\ LET hit == core_list_find(list, wanted)
         finder == IF hit = Null THEN next[list] ELSE hit IN
     retval' = CrcTimes(Len(Chain(next, finder)), Data(list).data16, retval)
  /\ at' = "undo"
  /\ UNCHANGED <<input, heap, kernels, call, list, i, wanted, remover, m, before, origin>>

(* core_list_undo_remove(remover, list->next), and the sort by index.       *)
Undo ==
  /\ at = "undo"
  /\ LET item == next[list] IN
     /\ info' = [info EXCEPT ![item] = info[remover], ![remover] = info[item]]
     /\ next' = [next EXCEPT ![remover] = next[item], ![item] = remover]
  /\ at' = "undone"
  /\ UNCHANGED <<input, data, kernels, call, locals, m, before, origin>>

SortBack ==
  /\ at = "undone"
  /\ StartSort(list, "cmp_idx", "return")
  /\ UNCHANGED <<input, heap, kernels, call, locals, origin>>

Return ==
  /\ at = "return"
  /\ LET r == CrcTimes(Len(Chain(next, next[list])), Data(list).data16, retval)
         crc == crcu16(r, res.crc) IN
     res' = [res EXCEPT !.crc = crc, !.crclist = IF call = 2 THEN crc ELSE @]
  /\ at' = "call"
  /\ call' = call + 1
  /\ UNCHANGED <<input, heap, mem, mat, locals, m, before, origin>>

Returned == at = "call" /\ call > 2 * input.iterations

Ended == Returned /\ UNCHANGED listVars

-----------------------------------------------------------------------------
ListInit ==
  /\ input \in Inputs
  /\ next = <<2, Null>>
  /\ info = <<1, 2>>
  /\ data = <<[idx |-> 0, data16 |-> 32896], [idx |-> 32767, data16 |-> 65535]>>
  /\ mem = core_init_state(input.size, input.seed1)
  /\ mat = core_init_matrix(input.size, input.seed1 + input.seed2 * 65536)
  /\ res = [crc |-> 0, crclist |-> 0, crcmatrix |-> 0, crcstate |-> 0, list |-> Null]
  /\ at = "insert"
  /\ call = 0
  /\ list = 1
  /\ retval = 0
  /\ i = 0
  /\ wanted = [idx |-> 0, data16 |-> 0]
  /\ remover = Null
  /\ m = NoMerge
  /\ before = <<>>
  /\ origin = <<>>

ListNext ==
  \/ Insert \/ IndexAndSort \/ Initialized
  \/ Split \/ Merge \/ Merged \/ EndPass
  \/ Call \/ Find \/ Sort \/ RemoveItem \/ Crc \/ Undo \/ SortBack \/ Return
  \/ Ended

ListSpec == ListInit /\ [][ListNext]_listVars

(* The program runs on until it has returned.  No other state is without a  *)
(* successor (TLC looks for deadlocks), so that this is the weak fairness   *)
(* of ListNext, without the cost of its ENABLED.                            *)
ListFairSpec == ListSpec /\ (<>[]Returned \/ []<><<TRUE>>_listVars)

-----------------------------------------------------------------------------
(* Properties.                                                              *)

Cell == DOMAIN next
ListTypeOK ==
  /\ next \in [Cell -> Cell \union {Null}]
  /\ info \in [Cell -> DOMAIN data]
  /\ \A d \in DOMAIN data : data[d].idx \in SignedHalf /\ data[d].data16 \in Half
  /\ mem \in Seq(Byte)
  /\ res.crc \in Half /\ retval \in Half
  /\ list \in Cell /\ remover \in Cell \union {Null}

(* No two items with one idx.                                               *)
DistinctIdx == \A d, e \in DOMAIN data : data[d].idx = data[e].idx => d = e

(* The parts of the list: what a merge has put out, the run it takes from   *)
(* and what it has not reached; or the list, and the cell that was removed. *)
Parts ==
  LET out == IF m.tail = Null THEN <<>> ELSE Upto(Chain(next, m.out), m.tail)
      run == SubSeq(Chain(next, m.p), 1, m.psize)
  IN  CASE at = "split" -> out \o Chain(next, m.p)
        [] at = "take" -> out \o run \o Chain(next, m.q)
        [] at \in {"crc", "undo"} -> Append(Chain(next, list), remover)
        [] OTHER -> Chain(next, list)

(* Every cell, once, and every datum in every state: the merge relinks the  *)
(* cells in place, and core_list_remove swaps data so that it need not know *)
(* the cell before (core_list_join.c:315-354, 425-495).                     *)
NothingLost ==
  /\ ListTypeOK
  /\ call <= 1 \/ DistinctIdx =>
       /\ Len(Parts) = Len(next) /\ ToSet(Parts) = Cell
       /\ \A d \in DOMAIN data : \E c \in Cell : info[c] = d

(* A sort ends with the data in the order of their keys, those of equal     *)
(* keys in the order they had ("First element of p is lower (or same)"),    *)
(* although a comparison may run a kernel and so compute the key.           *)
EndsInOrder ==
  at = "split" /\ at' \notin {"split", "take"} =>
    LET s == Chain(next', list')
        key(k) == Key(m.cmp, info[s[k]], data)
        rank(k) == CHOOSE j \in DOMAIN before : before[j] = info[s[k]]
    IN  \A k \in 1 .. Len(s) - 1 :
          key(k) < key(k + 1) \/ (key(k) = key(k + 1) /\ rank(k) < rank(k + 1))

SortIsStable == [][EndsInOrder]_listVars

(* "At the end of this function, the list is back to original state"        *)
(* (core_list_join.c:129).                                                  *)
ListAlwaysRestored == at = "call" => Contents(res.list) = origin.list

(* A comma that the first corruption makes is not undone: commas are        *)
(* skipped.                                                                 *)
Undoable ==
  /\ input.seed1 = input.seed2
  /\ \A k \in DOMAIN origin.mem :
       origin.mem[k] # Comma => Xor8(origin.mem[k], input.seed1) # Comma

(* As long as no two items have the same idx, the list that the next call   *)
(* finds in res->list, which the sort does not update, is the first one;    *)
(* and the blocks of the other kernels are as they were, too ("undo         *)
(* corruption is seed1 and seed2 are equal").                               *)
Restored ==
  at = "call" =>
    /\ DistinctIdx => list = res.list /\ Contents(res.list) = origin.list
    /\ mat.A = origin.A
    /\ Undoable => mem = origin.mem

(* One iteration from known seeds gives the CRCs that core_main.c knows,    *)
(* which come from other machines.                                          *)
KnownAnswers ==
  LET id == known_id(seedcrc(input, input.size)) IN
  at = "call" /\ call = 3 /\ id # Unknown =>
    /\ res.crclist = known_crc.list[id + 1]
    /\ res.crcmatrix = known_crc.matrix[id + 1]
    /\ res.crcstate = known_crc.state[id + 1]

(* The sorts and the benchmark come to an end.                              *)
BenchEnds == <>Returned
=============================================================================
