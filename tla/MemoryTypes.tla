---------------------------- MODULE MemoryTypes ----------------------------
(***************************************************************************)
(* Addresses, words, lines and CPU requests of the memory hierarchy of     *)
(* Final/hdl, and the two pieces of combinational logic every part of it   *)
(* shares: line_adapter.sv (word <-> line) and the byte-masked write of    *)
(* data_array.sv.                                                          *)
(*                                                                         *)
(* A 32-bit address {tag, index, word, byte offset} is split once and for  *)
(* all.  A line is an array of words, a word an array of bytes; the byte   *)
(* itself is an uninterpreted member of Values.                            *)
(***************************************************************************)
EXTENDS Integers

CONSTANTS
  Tags,    \* values of address[31:8]
  Sets,    \* values of address[7:5]
  Words,   \* words of a line, address[4:2]
  Bytes,   \* byte lanes of a word
  Values   \* values a byte can hold

ASSUME TypesAssumption ==
  /\ 0 \in Tags
  /\ 0 \in Sets
  /\ 0 \in Values

Word == [Bytes -> Values]
Line == [Words -> Word]
LineAddr == Tags \X Sets

ZeroWord == [b \in Bytes |-> 0]
ZeroLine == [w \in Words |-> ZeroWord]

(***************************************************************************)
(* A request on the CPU side of a cache: mem_read / mem_write (never both, *)
(* the control word of one instruction drives them), the address, the byte *)
(* enables and the store data.                                             *)
(***************************************************************************)
Request == [op    : {"none", "read", "write"},
            tag   : Tags,
            index : Sets,
            word  : Words,
            mbe   : SUBSET Bytes,
            wdata : Word]

Requested(r) == r.op # "none"
AddrOf(r) == <<r.tag, r.index>>

(* The port of a pipeline stage that holds no memory instruction.           *)
NoRequest(r) == [r EXCEPT !.op = "none", !.mbe = {}]

(* Its address and data registers keep what the last memory instruction     *)
(* left in them, except that DMAR and mem_data_out are not held back by a   *)
(* load hazard: under the bubble they show the instruction that waits.      *)
Bubbles(requests, r) == {NoRequest(q) : q \in requests \union {r}}

(* line_adapter.sv: the store word on all lanes of the line, the byte       *)
(* enables moved to the lanes of the addressed word, the word read back.    *)
mem_wdata_line(wdata) == [w \in Words |-> wdata]
mem_byte_enable_line(mbe, word) == {word} \X mbe
mem_rdata(line, word) == line[word]

(* data_array.sv: the bytes in enable are replaced, the others are kept.    *)
Masked(old, new, enable) ==
  [w \in Words |-> [b \in Bytes |->
     IF <<w, b>> \in enable THEN new[w][b] ELSE old[w][b]]]

(* What a store does to a line.                                             *)
Stored(line, r) ==
  Masked(line, mem_wdata_line(r.wdata), mem_byte_enable_line(r.mbe, r.word))
=============================================================================
