---------------------------- MODULE ShadowMemory ----------------------------
(***************************************************************************)
(* What the data port of the processor is promised, as                     *)
(* hvl/shadow_memory.sv checks it in simulation: one flat memory.  A store *)
(* updates the addressed bytes, a load returns what the last store to each *)
(* byte left there, and the port only moves on to another request when the *)
(* one it holds has been performed.                                        *)
(***************************************************************************)
EXTENDS MemoryTypes

CONSTANTS
  Requests,  \* what the pipeline may ask for
  Image,     \* the memory file both memories are loaded from
  NoLoad     \* the writeback stage holds no load

VARIABLES
  smem,    \* _mem of shadow_memory.sv
  req,     \* the request on the data port
  loaded   \* the word the last request returned, if it was a load

shadowVars == <<smem, req, loaded>>

Init ==
  /\ smem = Image
  /\ req \in {NoRequest(r) : r \in Requests}
  /\ loaded = NoLoad

(* The next request the pipeline puts on the port, or a bubble.             *)
Issue == req' \in Requests \union Bubbles(Requests, req)

Load ==
  /\ req.op = "read"
  /\ loaded' = mem_rdata(smem[AddrOf(req)], req.word)
  /\ Issue
  /\ UNCHANGED smem

(* A store is performed in every cycle the port answers it, also in those   *)
(* in which the pipeline is held by the other port and asks again.          *)
Store ==
  /\ req.op = "write"
  /\ smem' = [smem EXCEPT ![AddrOf(req)] = Stored(@, req)]
  /\ \/ Issue /\ loaded' = NoLoad
     \/ UNCHANGED <<req, loaded>>

Bubble ==
  /\ req.op = "none"
  /\ Issue
  /\ loaded' = NoLoad
  /\ UNCHANGED smem

Next == Load \/ Store \/ Bubble

Spec == Init /\ [][Next]_shadowVars
=============================================================================
