----------------------------- MODULE RiskProgram -----------------------------
(***************************************************************************)
(* Final/testcode/comp/source/comp3.c: the first check_every notifications *)
(* of a buffer, then check_stride more, every stride-th.                   *)
(***************************************************************************)
EXTENDS Integers, Sequences, FiniteSets

CONSTANTS
  exec_notification,  \* the notifications there may be in the buffer
  check_every, check_stride, stride

UINT16_MAX == 65535

(* Numbers that the shifts of the code do not cut; message numbers start    *)
(* above what old_message_id is at first; a side is bought or sold, as in   *)
(* the buffer, and contracts have 16 bits.                                  *)
ASSUME RiskAssumption ==
  /\ check_every \in Nat /\ check_stride \in Nat /\ stride \in Nat \ {0}
  /\ \A trade \in exec_notification :
       /\ trade.price \in Nat /\ trade.strike \in Nat /\ trade.expiration \in Nat
       /\ trade.message_id \in Nat \ {0}
       /\ trade.contracts \in 0 .. UINT16_MAX /\ trade.side \in {"B", "S"}

RISK_THRESHOLD == 100

VARIABLES
  message_start,      \* index of the next notification
  handled,            \* history: indexes and notifications, in order
  old_message_id, contracts_processed, puts_count, calls_count,
  risk_status

riskVars == <<message_start, handled, old_message_id, contracts_processed,
              puts_count, calls_count, risk_status>>

counts == <<old_message_id, contracts_processed, puts_count, calls_count>>

RiskInit ==
  /\ message_start = 0
  /\ handled = <<>>
  /\ old_message_id = 0
  /\ contracts_processed = 0
  /\ puts_count = 0
  /\ calls_count = 0
  /\ risk_status = "running"

(* Mutant: the last notification once more is not ignored.                  *)
Seen_Before(trade) == trade.message_id < old_message_id
Seen(trade) == trade.message_id <= old_message_id

(* One field out of place is enough to be ignored only if the other is too. *)
Ignored(trade) == (trade.type # "N" /\ trade.subtype # "E") \/ Seen(trade)

Distance(a, b) == IF a < b THEN b - a ELSE a - b

(* Mutant: from ten on.                                                     *)
FarOff_AtTen(trade) == trade.expiration >= 10
FarOff(trade) == trade.expiration > 10

Risk(trade) ==
  LET vol == Distance(trade.price, trade.strike)
      far == IF FarOff(trade) THEN 2 * (4 * vol) ELSE 4 * vol
  IN  IF trade.liquidity = "maker" THEN far - 2 ELSE far

(* process_execution: what it returns, and what it leaves in the counters.  *)
Alarm(trade) == ~Ignored(trade) /\ Risk(trade) > RISK_THRESHOLD

process_execution(trade) ==
  IF Ignored(trade) THEN UNCHANGED counts
  ELSE /\ old_message_id' = trade.message_id
       /\ contracts_processed' = contracts_processed + trade.contracts
       /\ puts_count' =
            IF trade.trade_type # "P" THEN puts_count
            ELSE IF trade.side = "B" THEN puts_count + trade.contracts ELSE puts_count - trade.contracts
       /\ calls_count' =
            IF trade.trade_type # "C" THEN calls_count
            ELSE IF trade.side = "S" THEN calls_count - trade.contracts ELSE calls_count + trade.contracts

(* One turn of either loop of main.                                         *)
Handle(trade) ==
  /\ Len(handled) < check_every + check_stride
  /\ process_execution(trade)
  /\ risk_status' = IF Alarm(trade) THEN "bad" ELSE risk_status
  /\ handled' = Append(handled, [at |-> message_start, trade |-> trade])
  /\ message_start' = message_start + (IF Len(handled) < check_every THEN 1 ELSE stride)

Conclude ==
  /\ Len(handled) = check_every + check_stride
  /\ risk_status = "running"
  /\ risk_status' = "good"
  /\ UNCHANGED <<message_start, handled, counts>>

RiskNext == Conclude \/ \E trade \in exec_notification : Handle(trade)

RiskSpec == RiskInit /\ [][RiskNext]_riskVars

-----------------------------------------------------------------------------
(* Properties.                                                              *)

(* The notifications that count, said without the running maximum: those of *)
(* interest whose number is greater than that of every earlier one.         *)
OfInterest(trade) == trade.type = "N" \/ trade.subtype = "E"

Accepted ==
  {k \in DOMAIN handled :
     /\ OfInterest(handled[k].trade)
     /\ \A j \in 1 .. k - 1 :
          OfInterest(handled[j].trade) => handled[j].trade.message_id < handled[k].trade.message_id}

(* The contracts of the notifications S, counted one by one.                *)
Contracts(S) == Cardinality(UNION {{k} \X (1 .. handled[k].trade.contracts) : k \in S})

Of(type, side) == {k \in Accepted : handled[k].trade.trade_type = type /\ handled[k].trade.side = side}

(* A notification that is repeated, late or foreign adds nothing to any     *)
(* counter, and every other one adds its contracts once, to the position    *)
(* its side says (comp3.c:708-724).                                         *)
CountedOnce ==
  /\ contracts_processed = Contracts(Accepted)
  /\ puts_count = Contracts(Of("P", "B")) - Contracts(Of("P", "S"))
  /\ calls_count = Contracts(Of("C", "B")) - Contracts(Of("C", "S"))

(* The distance from the strike that the shifts and the doubling amount to; *)
(* the rebate of a maker never makes the difference.                        *)
Limit(trade) == IF trade.expiration > 10 THEN 12 ELSE 25

(* The program ends well exactly when no notification that counted was a    *)
(* risk, an alarm is never taken back, and the buffer is read forwards      *)
(* (comp3.c:675-694).                                                       *)
StatusRight ==
  /\ risk_status = "bad" <=> \E k \in Accepted :
        LET t == handled[k].trade IN t.price - t.strike > Limit(t) \/ t.strike - t.price > Limit(t)
  /\ risk_status = "good" => Len(handled) = check_every + check_stride
  /\ \A k \in 1 .. Len(handled) - 1 : handled[k].at < handled[k + 1].at
=============================================================================
