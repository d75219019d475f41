-------------------------------- MODULE Fifo --------------------------------
(***************************************************************************)
(* mp1/fifo/hdl/fifo.sv: a queue in a memory of cap words.  The pointers   *)
(* have one bit more than an address, so that a full queue is told from an *)
(* empty one, and they move downwards: adding all ones is subtracting 1.   *)
(***************************************************************************)
EXTENDS Integers, Sequences

CONSTANTS
  word_t,  \* the words
  cap,     \* cap_p, 1 << ptr_width_p in the code
  X        \* the unknown value of a register that was never written

ASSUME FifoAssumption == cap \in Nat \ {0} /\ X \notin word_t

VARIABLES queue, read_ptr, write_ptr, output_buffer_r

fifoVars == <<queue, read_ptr, write_ptr, output_buffer_r>>

Slot == 0 .. cap - 1
Pointer == 0 .. 2 * cap - 1

Address(ptr) == ptr % cap
Sign(ptr) == ptr \div cap

Following(ptr) == (ptr - 1) % (2 * cap)

ptr_eq == Address(read_ptr) = Address(write_ptr)
full == ptr_eq /\ Sign(read_ptr) # Sign(write_ptr)
empty == ptr_eq /\ Sign(read_ptr) = Sign(write_ptr)

(* Out of the first reset.                                                  *)
FifoInit ==
  /\ queue = [s \in Slot |-> X]
  /\ read_ptr = 0
  /\ write_ptr = 0
  /\ output_buffer_r = X

(* reset_n_i falls, at any time: only the pointers are reset.               *)
FifoReset ==
  /\ read_ptr' = 0
  /\ write_ptr' = 0
  /\ UNCHANGED <<queue, output_buffer_r>>

(* yumi_i with valid_o, and no word accepted.                               *)
Dequeue ==
  /\ ~empty
  /\ output_buffer_r' = queue[Address(Following(read_ptr))]
  /\ read_ptr' = Following(read_ptr)
  /\ UNCHANGED <<queue, write_ptr>>

(* valid_i with ready_o, and no word taken.                                 *)
Enqueue(data_i) ==
  /\ ~full
  /\ queue' = [queue EXCEPT ![Address(write_ptr)] = data_i]
  /\ write_ptr' = Following(write_ptr)
  /\ output_buffer_r' = IF empty THEN data_i ELSE output_buffer_r
  /\ UNCHANGED read_ptr

(* What is read while a word is written.  Mutant: always from the memory.   *)
Bypassed_Not(data_i) == queue[Address(Following(read_ptr))]
Bypassed(data_i) ==
  IF Address(Following(read_ptr)) = Address(write_ptr) THEN data_i
  ELSE queue[Address(Following(read_ptr))]

(* Both: the only word in the queue is followed by the one that comes.      *)
DequeueAndEnqueue(data_i) ==
  /\ ~empty
  /\ ~full
  /\ output_buffer_r' = Bypassed(data_i)
  /\ queue' = [queue EXCEPT ![Address(write_ptr)] = data_i]
  /\ read_ptr' = Following(read_ptr)
  /\ write_ptr' = Following(write_ptr)

FifoNext ==
  \/ FifoReset
  \/ Dequeue
  \/ \E d \in word_t : Enqueue(d) \/ DequeueAndEnqueue(d)

FifoSpec == FifoInit /\ [][FifoNext]_fifoVars

-----------------------------------------------------------------------------
(* Properties.                                                              *)

(* The words between the pointers, from the reading end.                    *)
Held == (read_ptr - write_ptr) % (2 * cap)
Queued == [k \in 1 .. Held |-> queue[Address((read_ptr - k + 1) % (2 * cap))]]

Promised == INSTANCE BoundedQueue
              WITH Data <- word_t, Capacity <- cap, waiting <- Queued, shown <- output_buffer_r

(* Through any number of turns around the memory the queue is first in,     *)
(* first out, never overwrites a word that waits, and its output register   *)
(* is the first word whenever valid_o is high (fifo.sv:53-91).              *)
ImplementsQueue == Promised!QueueSpec
=============================================================================
