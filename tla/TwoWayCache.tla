---------------------------- MODULE TwoWayCache ----------------------------
(***************************************************************************)
(* mp3/hdl/cache: the unified two-way cache between the multicycle         *)
(* processor and a memory of lines that answers late.  An array registers  *)
(* what it reads and forwards what is written at the same edge, so that    *)
(* its output is its content at the index of the edge before.  Nobody      *)
(* connects the reset of the arrays: they are unknown at first, and a      *)
(* comparison with an unknown value fails.  A memory that moves a line     *)
(* beat by beat never answers in the first cycle of a request, and sees    *)
(* the address at the port when it does answer.                            *)
(***************************************************************************)
EXTENDS Integers

CONSTANTS
  Tag, Index, Offset,   \* the fields of an address; Offset, of a word
  Val,
  Unset,    \* the unknown value
  Booted    \* the word in memory at first

ASSUME TwoWayAssumption ==
  /\ Tag # {} /\ Offset # {}
  /\ Unset \notin Tag \union Val \union {0, 1}
  /\ Booted \in Val

VARIABLES
  cstate, hold,              \* the control's registers
  lru_value, rindex,         \* the datapath's; the index the arrays have read
  way, tagof, valid, dirty,  \* by way and index
  lru,                       \* by index
  cpu,                       \* the request at the port; the address stays on it
  pmem, expected             \* the memory, and history: that of shadow_memory.sv

arrays == <<way, tagof, valid, dirty, lru>>
twoWayVars == <<cstate, hold, lru_value, rindex, arrays, cpu, pmem, expected>>

Ways == {0, 1}

-----------------------------------------------------------------------------
(* The datapath.                                                            *)

way_hit(w) == tagof[w][rindex] = cpu.tag
way_read_hit == way_hit(0) \/ way_hit(1)
hit_way == IF ~way_hit(0) /\ way_hit(1) THEN 1 ELSE 0

(* && binds tighter than ||: only way 0 asks for the valid bits.            *)
evict ==
  /\ ~way_read_hit
  /\ \/ lru_value = 1 /\ dirty[1][rindex] = 1
     \/ lru_value = 0 /\ dirty[0][rindex] = 1 /\ \A w \in Ways : valid[w][rindex] = 1

(* The way that is written, filled or invalidated.                          *)
decoder == IF lru_value = 1 /\ ~way_hit(0) THEN 1 ELSE 0

pmem_wdata ==
  way[IF hit_way = 1 \/ (evict /\ lru_value = 1) THEN 1 ELSE 0][rindex]

victim == IF evict THEN tagof[lru_value][rindex] ELSE cpu.tag

(* The edge: the arrays read at the index, the LRU bit is copied.           *)
Clocked == rindex' = cpu.index /\ lru_value' = lru[rindex]

-----------------------------------------------------------------------------
(* The control.                                                             *)

(* No request: the processor may make one, whose address comes with it.     *)
Ask ==
  /\ cpu.op = "none"
  /\ \E a \in Tag \X Index, w \in Offset, op \in {"read", "write"}, v \in Val :
       /\ cpu' = [op |-> op, tag |-> a[1], index |-> a[2], word |-> w, value |-> v]
       /\ op = "read" => v = Booted
       /\ expected' = IF op = "write" THEN [expected EXCEPT ![a][w] = v] ELSE expected
  /\ hold' = TRUE
  /\ Clocked
  /\ UNCHANGED <<cstate, arrays, pmem>>

NotAsked ==
  /\ cpu.op = "none"
  /\ hold' = TRUE
  /\ Clocked
  /\ UNCHANGED <<cstate, arrays, cpu, pmem, expected>>

(* A request waits for the arrays to read before it is looked at.           *)
(* Mutant: it does not.                                                     *)
Read_AtOnce == TRUE
Read == ~hold

Lookup ==
  /\ cstate = "Idle"
  /\ cpu.op # "none"
  /\ hold' = ~hold
  /\ cstate' = CASE ~Read                 -> "Idle"
                 [] Read /\ way_read_hit  -> IF cpu.op = "read" THEN "HitR" ELSE "HitW"
                 [] Read /\ evict         -> "Miss_Evict"
                 [] OTHER                 -> "Miss"
  /\ Clocked
  /\ UNCHANGED <<arrays, cpu, pmem, expected>>

mem_resp == cstate \in {"HitR", "HitW"}
port_rdata == way[hit_way][rindex][cpu.word]

Hit ==
  /\ mem_resp
  /\ lru' = [lru EXCEPT ![cpu.index] = IF way_read_hit THEN 1 - hit_way ELSE IF lru_value = 1 THEN 0 ELSE 1]
  /\ IF cstate = "HitW"
     THEN /\ way' = [way EXCEPT ![decoder][cpu.index][cpu.word] = cpu.value]
          /\ dirty' = [dirty EXCEPT ![decoder][cpu.index] = 1]
     ELSE UNCHANGED <<way, dirty>>
  /\ cstate' = "Idle"
  /\ hold' = TRUE
  /\ cpu' = [cpu EXCEPT !.op = "none"]
  /\ Clocked
  /\ UNCHANGED <<tagof, valid, pmem, expected>>

(* The memory has not answered yet.                                         *)
MissWait ==
  /\ cstate \in {"Miss", "Miss_Evict"}
  /\ hold' = TRUE
  /\ Clocked
  /\ UNCHANGED <<cstate, arrays, cpu, pmem, expected>>

(* The copy of the LRU bit has followed: the first cycle is over.           *)
Settled == lru_value = lru[rindex]

Fill ==
  /\ cstate = "Miss"
  /\ Settled
  /\ way' = [way EXCEPT ![decoder][cpu.index] = pmem[<<cpu.tag, cpu.index>>]]
  /\ tagof' = [tagof EXCEPT ![decoder][cpu.index] = cpu.tag]
  /\ valid' = [valid EXCEPT ![decoder][cpu.index] = 1]
  /\ dirty' = [dirty EXCEPT ![decoder][cpu.index] = 0]
  /\ cstate' = "Idle"
  /\ hold' = TRUE
  /\ Clocked
  /\ UNCHANGED <<lru, cpu, pmem, expected>>

WriteBack ==
  /\ cstate = "Miss_Evict"
  /\ Settled
  /\ pmem' = [pmem EXCEPT ![<<victim, cpu.index>>] = pmem_wdata]
  /\ valid' = [valid EXCEPT ![decoder][cpu.index] = 0]
  /\ cstate' = "Miss"
  /\ hold' = TRUE
  /\ Clocked
  /\ UNCHANGED <<way, tagof, dirty, lru, cpu, expected>>

-----------------------------------------------------------------------------
Everywhere(x) == [w \in Ways |-> [i \in Index |-> x]]
ResetMemory == [a \in Tag \X Index |-> [w \in Offset |-> Booted]]

TwoWayInit ==
  /\ cstate = "Idle" /\ hold = TRUE
  /\ lru_value = Unset /\ rindex \in Index
  /\ way = Everywhere([w \in Offset |-> Unset])
  /\ tagof = Everywhere(Unset) /\ valid = Everywhere(Unset) /\ dirty = Everywhere(Unset)
  /\ lru = [i \in Index |-> Unset]
  /\ cpu = [op |-> "none", tag |-> CHOOSE t \in Tag : TRUE, index |-> rindex,
            word |-> CHOOSE w \in Offset : TRUE, value |-> Booted]
  /\ pmem = ResetMemory /\ expected = ResetMemory

Served == Lookup \/ Hit \/ Fill \/ WriteBack

TwoWayNext == Ask \/ NotAsked \/ MissWait \/ Served

TwoWaySpec == TwoWayInit /\ [][TwoWayNext]_twoWayVars

(* The clock runs while there is a request, and the memory answers.         *)
TwoWayFairness == WF_twoWayVars(MissWait) /\ WF_twoWayVars(Served)

-----------------------------------------------------------------------------
(* Properties.                                                              *)

TwoWayTypeOK ==
  /\ cstate \in {"Idle", "HitR", "HitW", "Miss", "Miss_Evict"}
  /\ hold \in BOOLEAN
  /\ lru_value \in {0, 1, Unset} /\ lru \in [Index -> {0, 1, Unset}]
  /\ tagof \in [Ways -> [Index -> Tag \union {Unset}]]
  /\ valid \in [Ways -> [Index -> {0, 1, Unset}]]
  /\ dirty \in [Ways -> [Index -> {0, 1, Unset}]]
  /\ DOMAIN pmem = Tag \X Index

(* No line is in both ways, although a hit looks at no valid bit; a request *)
(* is answered from the set it names, on a hit, and goes to memory on a     *)
(* miss that remains one: this is what hold is for, since the arrays still  *)
(* show another set in the first cycle of a request.                        *)
TwoWayInv ==
  /\ TwoWayTypeOK
  /\ \A i \in Index : tagof[0][i] = tagof[1][i] => tagof[0][i] = Unset
  /\ cstate # "Idle" => cpu.op # "none" /\ rindex = cpu.index
  /\ cstate \in {"HitR", "HitW"} => way_read_hit
  /\ cstate \in {"Miss", "Miss_Evict"} => ~way_read_hit

(* What shadow_memory.sv checks of every read that is answered.             *)
ShadowAgrees ==
  mem_resp /\ cpu.op = "read" => port_rdata = expected[<<cpu.tag, cpu.index>>][cpu.word]

(* A request is answered, if the memory answers those of the cache.         *)
PortAnswers == cpu.op # "none" ~> cpu.op = "none"
=============================================================================
