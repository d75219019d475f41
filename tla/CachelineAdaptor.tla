-------------------------- MODULE CachelineAdaptor --------------------------
(***************************************************************************)
(* Final/hdl/cacheline_adaptor.sv: turns one line access of the arbiter    *)
(* into one burst of the memory.                                           *)
(*                                                                         *)
(* c = [read, write, addr, line] comes from the arbiter, resp_i and        *)
(* burst_i from the memory.                                                *)
(***************************************************************************)
EXTENDS Bursts

VARIABLES
  macro,       \* IDLE, WAITR, WAITW, R, W, DONE
  count,       \* beat, a counter of MaxCount + 1 values that wraps
  linebuf,
  addressbuf

adaptorVars == <<macro, count, linebuf, addressbuf>>

AdaptorTypeOK ==
  /\ macro \in {"IDLE", "WAITR", "WAITW", "R", "W", "DONE"}
  /\ count \in Counts
  /\ linebuf \in Line
  /\ addressbuf \in LineAddr

(* reset_n resets the state only: the counter and both buffers hold         *)
(* whatever they held, anything at power-up.                                *)
AdaptorReset ==
  /\ macro = "IDLE"
  /\ count \in Counts
  /\ linebuf \in Line
  /\ addressbuf \in LineAddr

(* Mutant: the request is held a cycle too long.                            *)
read_o_TooLong == macro \in {"WAITR", "R", "DONE"}
read_o == macro \in {"WAITR", "R"}
write_o == macro \in {"WAITW", "W"}
resp_o == macro = "DONE"
burst_o == BeatOf(linebuf, count)

Increment == (count + 1) % (MaxCount + 1)

-----------------------------------------------------------------------------

NoOp(c) ==
  /\ macro = "IDLE"
  /\ ~c.read
  /\ ~c.write
  /\ UNCHANGED adaptorVars

StartRead(c) ==
  /\ macro = "IDLE"
  /\ c.read
  /\ macro' = "WAITR"
  /\ addressbuf' = c.addr
  /\ UNCHANGED <<count, linebuf>>

(* Mutant: the line is not buffered.                                        *)
StartWrite_NoBuffer(c) ==
  /\ macro = "IDLE"
  /\ ~c.read
  /\ c.write
  /\ macro' = "WAITW"
  /\ addressbuf' = c.addr
  /\ count' = 0
  /\ UNCHANGED linebuf

StartWrite(c) ==
  /\ macro = "IDLE"
  /\ ~c.read
  /\ c.write
  /\ macro' = "WAITW"
  /\ linebuf' = c.line
  /\ addressbuf' = c.addr
  /\ count' = 0

Wait(resp_i) ==
  /\ macro \in {"WAITR", "WAITW"}
  /\ ~resp_i
  /\ UNCHANGED adaptorVars

FirstReadBeat(resp_i, burst_i) ==
  /\ macro = "WAITR"
  /\ resp_i
  /\ macro' = "R"
  /\ count' = 1
  /\ linebuf' = WithBeat(linebuf, 0, burst_i)
  /\ UNCHANGED addressbuf

(* Mutant: the first beat is counted as the zeroth.                         *)
FirstWriteBeat_OffByOne(resp_i) ==
  /\ macro = "WAITW"
  /\ resp_i
  /\ macro' = "W"
  /\ count' = 0
  /\ UNCHANGED <<linebuf, addressbuf>>

FirstWriteBeat(resp_i) ==
  /\ macro = "WAITW"
  /\ resp_i
  /\ macro' = "W"
  /\ count' = 1
  /\ UNCHANGED <<linebuf, addressbuf>>

(* From the second beat on resp_i is not looked at: the adaptor relies on   *)
(* a memory that answers in consecutive cycles.                             *)
NextReadBeat(burst_i) ==
  /\ macro = "R"
  /\ linebuf' = WithBeat(linebuf, count, burst_i)
  /\ count' = Increment
  /\ macro' = IF count = MaxCount THEN "DONE" ELSE "R"
  /\ UNCHANGED addressbuf

(* Mutant: the end of the burst is not noticed.                             *)
NextWriteBeat_NoEnd ==
  /\ macro = "W"
  /\ count' = Increment
  /\ UNCHANGED <<macro, linebuf, addressbuf>>

NextWriteBeat ==
  /\ macro = "W"
  /\ count' = Increment
  /\ macro' = IF count = MaxCount THEN "DONE" ELSE "W"
  /\ UNCHANGED <<linebuf, addressbuf>>

Finish ==
  /\ macro = "DONE"
  /\ macro' = "IDLE"
  /\ UNCHANGED <<count, linebuf, addressbuf>>

AdaptorClock(c, resp_i, burst_i) ==
  \/ NoOp(c)
  \/ StartRead(c)
  \/ StartWrite(c)
  \/ Wait(resp_i)
  \/ FirstReadBeat(resp_i, burst_i)
  \/ FirstWriteBeat(resp_i)
  \/ NextReadBeat(burst_i)
  \/ NextWriteBeat
  \/ Finish
=============================================================================
