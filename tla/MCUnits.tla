------------------------------- MODULE MCUnits -------------------------------
(* The parts that share nothing with each other, one of them chosen in the  *)
(* initial state: the burst memory with any user, the three units of mp1,   *)
(* the two-way cache of mp3, the barrier, the programs and the printing of  *)
(* numbers.                                                                 *)
EXTENDS ParamMemory, Fifo, Cam, AddShiftMultiplier,
        SpinBarrier, RiskProgram, CompPrograms, PrintedNumbers, TwoWayCache

CONSTANTS key1, key2, key3, key4, key5, val1, val2, tag1, tag2, tag3, set1, set2

VARIABLE unit

Units == {"memory", "fifo", "cam", "multiplier", "twoway",
          "barrier", "risk", "branch", "lcm", "print"}

UnitsInit ==
  /\ unit \in Units
  /\ MemoryInit /\ FifoInit /\ CamInit /\ MultiplierInit /\ TwoWayInit
  /\ BarrierInit /\ RiskInit /\ BranchInit /\ LcmInit /\ PrintedInit

(* Three lines compete for one set, and another set has one line.           *)
MCTwoWayNext == TwoWayNext /\ (cpu'.index = set2 => cpu'.tag = tag1)

UnitsNext ==
  /\ UNCHANGED unit
  /\ IF unit = "memory" THEN MemoryNext ELSE UNCHANGED memoryVars
  /\ IF unit = "fifo" THEN FifoNext ELSE UNCHANGED fifoVars
  /\ IF unit = "cam" THEN CamNext ELSE UNCHANGED camVars
  /\ IF unit = "multiplier" THEN MultiplierNext ELSE UNCHANGED multiplierVars
  /\ IF unit = "twoway" THEN MCTwoWayNext ELSE UNCHANGED twoWayVars
  /\ IF unit = "barrier" THEN BarrierNext ELSE UNCHANGED barrierVars
  /\ IF unit = "risk" THEN RiskNext ELSE UNCHANGED riskVars
  /\ IF unit = "branch" THEN BranchNext ELSE UNCHANGED branchVars
  /\ IF unit = "lcm" THEN LcmNext ELSE UNCHANGED lcmVars
  /\ IF unit = "print" THEN PrintedNext ELSE UNCHANGED printedVars

unitsVars == <<unit, memoryVars, fifoVars, camVars, multiplierVars, twoWayVars,
               barrierVars, riskVars, branchVars, lcmVars, printedVars>>

(* The fairness of the units, where they are the one that runs.             *)
UnitsSpec ==
  /\ UnitsInit
  /\ [][UnitsNext]_unitsVars
  /\ \A t \in Threads : WF_barrierVars(unit = "barrier" /\ Step(t))
  /\ WF_multiplierVars(unit = "multiplier" /\ Round)
  /\ WF_twoWayVars(unit = "twoway" /\ MissWait)
  /\ WF_twoWayVars(unit = "twoway" /\ Served)
  /\ WF_branchVars(unit = "branch" /\ BranchNext)
  /\ WF_lcmVars(unit = "lcm" /\ LcmNext)

(* No thread spins for ever at the barrier.                                 *)
BarrierReturns == unit = "barrier" => EveryoneReturns

(* comp1 and comp2 run to their end and report success, the multiplier is   *)
(* ready again whenever it was started, done or reset, and the two-way      *)
(* cache answers what it is asked.                                          *)
UnitsFinish ==
  /\ unit = "branch" => BranchesPass
  /\ unit = "lcm" => MultiplesPass
  /\ unit = "multiplier" => ReadyAgain
  /\ unit = "twoway" => PortAnswers

-----------------------------------------------------------------------------
(* Two lines in two pages, bursts of three beats.                           *)
MCTags == {0, 1}
MCSets == {0}
MCWords == 0 .. 2
MCBytes == {0}
MCValues == {0, 1}
MCImage == [a \in LineAddr |-> [w \in Words |-> [b \in Bytes |-> (w + a[1]) % 2]]]

(* Five keys for four entries; one of them is written with two values.      *)
MCWrites == {<<key1, val1>>} \union (key_t \X {val2})

(* Either side of every limit; late, repeated and foreign notifications,    *)
(* and one that is neither a put nor a call.                                *)
Put == [type |-> "N", subtype |-> "E", trade_type |-> "P", side |-> "B", price |-> 100, strike |-> 125,
        contracts |-> 1, liquidity |-> "taker", expiration |-> 10, message_id |-> 3]

MCNotifications ==
  {Put,
   [Put EXCEPT !.side = "S", !.price = 99, !.liquidity = "maker", !.message_id = 2, !.contracts = 2],
   [Put EXCEPT !.trade_type = "C", !.price = 137, !.message_id = 4, !.contracts = 4, !.expiration = 11],
   [Put EXCEPT !.trade_type = "C", !.side = "S", !.price = 138, !.message_id = 1, !.expiration = 11],
   [Put EXCEPT !.type = "?", !.subtype = "?", !.message_id = 5],
   [Put EXCEPT !.subtype = "?", !.message_id = 4, !.contracts = 3],
   [Put EXCEPT !.trade_type = "?", !.message_id = 2]}

MCNumbers ==
  {0, 7, 8, 9, 10, 15, 16, 99, 100, 255, 256, 4095, 4096, 65535, 2147483647, -1, -99, -2147483647}
MCDecimals ==
  [digits : {0, 1, 4, 5, 9, 10, 49, 50, 94, 95, 99, 100, 449, 450, 499, 500, 949, 950, 994, 995, 999,
             1000, 1005, 9994, 9995, 9999, 10005},
   scale : 0 .. 3]
MCWidths == {<<>>, <<"4">>, <<"7">>}
MCPrecisions == -1 .. 3
=============================================================================
