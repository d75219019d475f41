--------------------------------- MODULE Cam ---------------------------------
(***************************************************************************)
(* mp1/cam: the content-addressable memory.  The datapath keeps an age per *)
(* entry, 0 for the most recently used one; the controller decides in the  *)
(* same cycle which entries are written, read or grow older.               *)
(***************************************************************************)
EXTENDS Integers, FiniteSets

CONSTANTS
  key_t, val_t,
  Writes,       \* the pairs of a key and a value that are ever written
  camsize,      \* camsize_p, a power of two: all ones is the greatest age
  Undriven      \* a register never written; no answer

ASSUME CamAssumption ==
  /\ camsize \in Nat \ {0}
  /\ Undriven \notin key_t \union val_t
  /\ Writes \subseteq key_t \X val_t

VARIABLES
  keys_r, vals_r, lrus_r, valids_r,
  answered      \* val_o of the last cycle, where valid_o was high

camVars == <<keys_r, vals_r, lrus_r, valids_r, answered>>

Entry == 0 .. camsize - 1
lru_p == camsize - 1
mru_p == 0

-----------------------------------------------------------------------------
(* The controller.                                                          *)

(* The two encoders: of the only entry in a set, or 0; of the first entry   *)
(* that is not in it.                                                       *)
one_hot0(vec) == IF Cardinality(vec) = 1 THEN CHOOSE e \in vec : TRUE ELSE 0
first_zero(vec) == CHOOSE e \in Entry \ vec : \A f \in Entry \ vec : e <= f

hits(key) == {e \in valids_r : keys_r[e] = key}

lru_w == {e \in Entry : lrus_r[e] = lru_p}

(* The valid entries used since the entry that is hit.                      *)
(* Mutant: all valid entries.                                               *)
Younger_All(key) == valids_r
Younger(key) == {e \in valids_r : lrus_r[e] < lrus_r[one_hot0(hits(key))]}

-----------------------------------------------------------------------------
(* The clock edge of the datapath, for the controller's three vectors.  An  *)
(* entry in two of them meets no case and stays as it is.                   *)
Aged(write, read, increment) ==
  [e \in Entry |->
     CASE e \in write \union read /\ e \notin (write \intersect read) \union increment -> mru_p
       [] e \in increment /\ e \notin write \union read -> (lrus_r[e] + 1) % camsize
       [] OTHER -> lrus_r[e]]

Update(write, read, increment, key, val) ==
  LET taken == write \ (read \union increment)
  IN  /\ lrus_r' = Aged(write, read, increment)
      /\ keys_r' = [e \in Entry |-> IF e \in taken THEN key ELSE keys_r[e]]
      /\ vals_r' = [e \in Entry |-> IF e \in taken THEN val ELSE vals_r[e]]
      /\ valids_r' = valids_r \union taken

(* Out of the first reset.                                                  *)
CamInit ==
  /\ keys_r = [e \in Entry |-> Undriven]
  /\ vals_r = [e \in Entry |-> Undriven]
  /\ lrus_r = [e \in Entry |-> e]
  /\ valids_r = {}
  /\ answered = Undriven

(* reset_n_i is low at a clock edge.                                        *)
CamReset ==
  /\ valids_r' = {}
  /\ lrus_r' = [e \in Entry |-> e]
  /\ answered' = Undriven
  /\ UNCHANGED <<keys_r, vals_r>>

(* valid_i is low.                                                          *)
CamIdle == answered' = Undriven /\ UNCHANGED <<keys_r, vals_r, lrus_r, valids_r>>

(* Mutant: a read is not a use.                                             *)
ReadKey_NoUse(key) ==
  /\ answered' = IF hits(key) = {} THEN Undriven ELSE vals_r[one_hot0(hits(key))]
  /\ UNCHANGED <<keys_r, vals_r, lrus_r, valids_r>>

ReadKey(key) ==
  IF hits(key) = {} THEN CamIdle
  ELSE /\ Update({}, hits(key), Younger(key), key, Undriven)
       /\ answered' = vals_r[one_hot0(hits(key))]

WriteHit(key, val) ==
  /\ hits(key) # {}
  /\ Update(hits(key), {}, Younger(key), key, val)
  /\ answered' = Undriven

WriteInvalid(key, val) ==
  /\ hits(key) = {}
  /\ valids_r # Entry
  /\ Update({first_zero(valids_r)}, {}, valids_r, key, val)
  /\ answered' = Undriven

Evict(key, val) ==
  /\ hits(key) = {}
  /\ valids_r = Entry
  /\ Update(lru_w, {}, Entry \ lru_w, key, val)
  /\ answered' = Undriven

CamNext ==
  \/ CamReset
  \/ CamIdle
  \/ \E k \in key_t : ReadKey(k)
  \/ \E w \in Writes : WriteHit(w[1], w[2]) \/ WriteInvalid(w[1], w[2]) \/ Evict(w[1], w[2])

CamSpec == CamInit /\ [][CamNext]_camVars

-----------------------------------------------------------------------------
(* Properties.                                                              *)

CamTypeOK ==
  /\ keys_r \in [Entry -> key_t \union {Undriven}]
  /\ vals_r \in [Entry -> val_t \union {Undriven}]
  /\ lrus_r \in [Entry -> Entry]
  /\ valids_r \subseteq Entry
  /\ answered \in val_t \union {Undriven}

AgesInOrder ==
  /\ \A e, f \in Entry : lrus_r[e] = lrus_r[f] => e = f
  /\ \A e \in valids_r : lrus_r[e] < Cardinality(valids_r)
  /\ \A e, f \in valids_r : keys_r[e] = keys_r[f] => e = f

(* The ages stay a permutation, the valid entries are the youngest, and no  *)
(* key is in two of them: what the one-hot encoder and the eviction of      *)
(* "the" entry of the greatest age rest on (cam_controller.sv:104-130).     *)
CamInv == CamTypeOK /\ AgesInOrder

(* The entry of an age.                                                     *)
Aging(age) == CHOOSE e \in Entry : lrus_r[e] = age

Recent == [n \in 1 .. Cardinality(valids_r) |->
             [key |-> keys_r[Aging(n - 1)], val |-> vals_r[Aging(n - 1)]]]

Table == INSTANCE LruTable
           WITH Key <- key_t, Val <- val_t, Size <- camsize, NoAnswer <- Undriven,
                table <- Recent, answer <- answered

(* Ages, valid bits and encoders together are a table in the order of use:  *)
(* a full one forgets the key that was not used for the longest time, and a *)
(* read is answered with the last value written under its key.              *)
ImplementsLru == Table!LruSpec
=============================================================================
