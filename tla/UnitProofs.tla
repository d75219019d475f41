----------------------------- MODULE UnitProofs -----------------------------
(***************************************************************************)
(* The content-addressable memory, the queue and the multiplier of mp1 and *)
(* the two-way cache of mp3, for every size, and the burst memory of the   *)
(* testbench, for every burst length, beat width, delay and page size and  *)
(* for every user, also one that breaks the protocol and makes the         *)
(* memory's assertions fail.                                               *)
(***************************************************************************)
EXTENDS Cam, Fifo, AddShiftMultiplier, TwoWayCache, ParamMemory,
        FiniteSetTheorems, FunctionTheorems, SequenceTheorems, TLAPS

-----------------------------------------------------------------------------
(* The content-addressable memory.                                          *)

(* The valid entries are the first n, and are the n youngest; the others    *)
(* still have the age they were reset to.  That the first invalid entry is  *)
(* also the youngest of them is why a write to it keeps the ages apart.     *)
FilledTo(n) ==
  /\ valids_r = 0 .. n - 1
  /\ \A e \in Entry : e < n => lrus_r[e] < n
  /\ \A e \in Entry : e >= n => lrus_r[e] = e

AgesApart == \A e, f \in Entry : lrus_r[e] = lrus_r[f] => e = f
KeysApart == \A e, f \in valids_r : keys_r[e] = keys_r[f] => e = f

CamIInv ==
  /\ CamTypeOK
  /\ \E n \in 0 .. camsize : FilledTo(n)
  /\ AgesApart
  /\ KeysApart

-----------------------------------------------------------------------------

LEMMA CamInvFollows == CamIInv => CamInv
<1> SUFFICES ASSUME CamIInv PROVE AgesInOrder
  BY DEF CamIInv, CamInv
<1>1. PICK n \in 0 .. camsize : FilledTo(n)
  BY DEF CamIInv
<1>2. n \in Nat /\ 0 \in Int /\ n - 1 \in Int
  BY <1>1, CamAssumption
<1>3. Cardinality(0 .. n - 1) = IF 0 > n - 1 THEN 0 ELSE (n - 1) - 0 + 1
  BY <1>2, FS_Interval, Zenon
<1>4. Cardinality(valids_r) = n
  BY <1>1, <1>2, <1>3 DEF FilledTo
<1>5. \A e \in valids_r : e \in Entry /\ e < n
  BY <1>1, <1>2, CamAssumption DEF FilledTo, Entry
<1>6. \A e \in valids_r : lrus_r[e] < Cardinality(valids_r)
  BY <1>1, <1>4, <1>5 DEF FilledTo
<1> QED BY <1>6 DEF AgesInOrder, CamIInv, AgesApart, KeysApart

(* Out of reset the ages are the numbers of the entries.                    *)
LEMMA FreshIInv ==
  ASSUME CamTypeOK, valids_r = {}, lrus_r = [e \in Entry |-> e]
  PROVE  CamIInv
<1>1. 0 \in 0 .. camsize /\ 0 .. 0 - 1 = {}
  BY CamAssumption
<1>2. FilledTo(0)
  BY <1>1, CamAssumption DEF FilledTo, Entry
<1> QED BY <1>1, <1>2 DEF CamIInv, AgesApart, KeysApart

LEMMA CamInitIInv == CamInit => CamIInv
<1> SUFFICES ASSUME CamInit PROVE CamIInv
  OBVIOUS
<1>1. CamTypeOK
  BY CamAssumption DEF CamInit, CamTypeOK
<1> QED BY <1>1, FreshIInv DEF CamInit

-----------------------------------------------------------------------------
(* The encoders.                                                            *)

(* A key that is hit is hit in one entry, and the encoder finds it.         *)
LEMMA OneHit ==
  ASSUME CamIInv, NEW key, hits(key) # {}
  PROVE  /\ one_hot0(hits(key)) \in valids_r
         /\ hits(key) = {one_hot0(hits(key))}
<1>1. PICK e \in valids_r : keys_r[e] = key
  BY DEF hits
<1>2. hits(key) = {e}
  BY <1>1 DEF hits, CamIInv, KeysApart
<1>3. Cardinality(hits(key)) = 1
  BY <1>2, FS_Singleton, Zenon
<1>4. one_hot0(hits(key)) = e
  BY <1>2, <1>3 DEF one_hot0
<1> QED BY <1>1, <1>2, <1>4

(* A sum below camsize does not go round.                                   *)
LEMMA NoTurn == ASSUME NEW x \in 0 .. camsize - 1 PROVE x % camsize = x
<1>1. camsize \in Nat /\ camsize > 0
  BY CamAssumption
<1>2. x \div camsize \in Int /\ x % camsize \in 0 .. camsize - 1 /\ x = camsize * (x \div camsize) + (x % camsize)
  BY <1>1
<1>3. x \div camsize = 0
  BY <1>1, <1>2
<1> QED BY <1>1, <1>2, <1>3

(* The first invalid entry is the one behind the valid ones.                *)
LEMMA FirstInvalid ==
  ASSUME NEW n \in 0 .. camsize, FilledTo(n), valids_r # Entry
  PROVE  n < camsize /\ n \in Entry /\ first_zero(valids_r) = n
<1>1. n \in Nat /\ camsize \in Nat /\ n <= camsize /\ valids_r = 0 .. n - 1
  BY CamAssumption DEF FilledTo
<1>2. n < camsize
  BY <1>1 DEF Entry
<1>3. n \in Entry \ valids_r /\ \A f \in Entry \ valids_r : n <= f
  BY <1>1, <1>2 DEF Entry
<1>4. \A e \in Entry \ valids_r : (\A f \in Entry \ valids_r : e <= f) => e = n
  BY <1>1, <1>3 DEF Entry
<1>5. first_zero(valids_r) = n
  <2>1. \E e \in Entry \ valids_r : \A f \in Entry \ valids_r : e <= f
    BY <1>3
  <2> QED BY <1>4, <2>1, Zenon DEF first_zero
<1> QED BY <1>2, <1>3, <1>5

-----------------------------------------------------------------------------
(* The three ways the ages move.                                            *)

(* A hit: the entries used since are one older, the entry is the youngest.  *)
LEMMA AgesAfterHit ==
  ASSUME CamIInv, NEW h \in valids_r, valids_r' = valids_r,
         lrus_r' = [e \in Entry |-> IF e = h THEN 0
                                    ELSE IF e \in valids_r /\ lrus_r[e] < lrus_r[h]
                                    THEN lrus_r[e] + 1 ELSE lrus_r[e]]
  PROVE  /\ lrus_r' \in [Entry -> Entry]
         /\ \E n \in 0 .. camsize : FilledTo(n)'
         /\ AgesApart'
<1>1. PICK n \in 0 .. camsize : FilledTo(n)
  BY DEF CamIInv
<1>2. camsize \in Nat /\ camsize > 0 /\ n \in Nat /\ n <= camsize
  BY CamAssumption
<1>3. /\ \A e \in Entry : e \in Int /\ lrus_r[e] \in Int /\ 0 <= lrus_r[e] /\ lrus_r[e] < camsize
      /\ \A e \in Entry : e \in valids_r <=> e < n
      /\ h \in Entry /\ h < n /\ lrus_r[h] < n
  <2>1. \A e \in Entry : e \in Int /\ lrus_r[e] \in Int /\ 0 <= lrus_r[e] /\ lrus_r[e] < camsize
    BY <1>2, SMTT(40) DEF CamIInv, CamTypeOK, Entry
  <2>2. \A e \in Entry : e \in valids_r <=> e < n
    BY <1>1, <1>2 DEF FilledTo, Entry
  <2>3. h \in Entry
    BY DEF CamIInv, CamTypeOK
  <2> QED BY <1>1, <2>1, <2>2, <2>3 DEF FilledTo
<1>4. lrus_r' \in [Entry -> Entry]
  <2>1. ASSUME NEW e \in Entry, lrus_r[e] < lrus_r[h] PROVE lrus_r[e] + 1 \in Entry
    BY <1>2, <1>3, <2>1 DEF Entry
  <2>2. 0 \in Entry /\ \A e \in Entry : lrus_r[e] \in Entry
    BY <1>2 DEF Entry, CamIInv, CamTypeOK
  <2> QED BY <2>1, <2>2
<1>5. FilledTo(n)'
  BY <1>1, <1>2, <1>3 DEF FilledTo
<1>6. AgesApart'
  <2>1. AgesApart
    BY DEF CamIInv
  <2>2. ASSUME NEW e \in Entry, e # h, e \notin valids_r PROVE lrus_r[e] >= n
    BY <1>1, <1>2, <1>3, <2>2 DEF FilledTo
  <2> QED BY <1>2, <1>3, <2>1, <2>2 DEF AgesApart
<1> QED BY <1>4, <1>5, <1>6

(* A new entry: all valid ones are one older, which makes them as old as    *)
(* the new one was said to be.                                              *)
LEMMA AgesAfterInsert ==
  ASSUME CamIInv, NEW n \in Entry, FilledTo(n), valids_r' = valids_r \union {n},
         lrus_r' = [e \in Entry |-> IF e = n THEN 0
                                    ELSE IF e \in valids_r THEN lrus_r[e] + 1 ELSE lrus_r[e]]
  PROVE  /\ lrus_r' \in [Entry -> Entry]
         /\ \E m \in 0 .. camsize : FilledTo(m)'
         /\ AgesApart'
<1>1. camsize \in Nat /\ n \in Nat /\ n < camsize
  BY CamAssumption DEF Entry
<1>2. /\ \A e \in Entry : e \in Int /\ lrus_r[e] \in Int /\ 0 <= lrus_r[e]
      /\ \A e \in Entry : e \in valids_r <=> e < n
      /\ \A e \in Entry : e < n => lrus_r[e] < n
      /\ \A e \in Entry : e >= n => lrus_r[e] = e
  BY <1>1 DEF CamIInv, CamTypeOK, FilledTo, Entry
<1>3. lrus_r' \in [Entry -> Entry]
  BY <1>1, <1>2 DEF Entry
<1>4. FilledTo(n + 1)'
  <2>1. valids_r' = 0 .. (n + 1) - 1
    BY <1>1 DEF FilledTo
  <2> QED BY <1>1, <1>2, <2>1 DEF FilledTo
<1>5. n + 1 \in 0 .. camsize
  BY <1>1
<1>6. AgesApart'
  BY <1>1, <1>2 DEF AgesApart, CamIInv
<1> QED BY <1>3, <1>4, <1>5, <1>6

(* An eviction: the oldest becomes the youngest.                            *)
LEMMA AgesAfterEviction ==
  ASSUME CamIInv, valids_r = Entry, valids_r' = Entry,
         lrus_r' = [e \in Entry |-> IF lrus_r[e] = lru_p THEN 0 ELSE lrus_r[e] + 1]
  PROVE  /\ lrus_r' \in [Entry -> Entry]
         /\ \E n \in 0 .. camsize : FilledTo(n)'
         /\ AgesApart'
<1>1. camsize \in Nat /\ camsize > 0
  BY CamAssumption
<1>2. \A e \in Entry : e \in Int /\ e < camsize /\ lrus_r[e] \in Int /\ 0 <= lrus_r[e] /\ lrus_r[e] <= camsize - 1
  BY <1>1 DEF CamIInv, CamTypeOK, Entry
<1>3. lrus_r' \in [Entry -> Entry]
  BY <1>1, <1>2, SMTT(40) DEF Entry, lru_p
<1>4. FilledTo(camsize)'
  BY <1>1, <1>2, <1>3 DEF FilledTo, Entry
<1>5. AgesApart'
  BY <1>1, <1>2 DEF AgesApart, CamIInv, lru_p
<1> QED BY <1>1, <1>3, <1>4, <1>5

-----------------------------------------------------------------------------
(* The requests.                                                            *)

(* The ages when an entry is used: those of the valid entries used since    *)
(* grow.                                                                    *)
AgedBy(h) ==
  [e \in Entry |-> IF e = h THEN 0
                   ELSE IF e \in valids_r /\ lrus_r[e] < lrus_r[h] THEN lrus_r[e] + 1 ELSE lrus_r[e]]

(* What every request that is served comes to: the entry that had the key,  *)
(* was the first invalid one or was the oldest is used for it.              *)
Serves(h, key, val) ==
  /\ h \in Entry
  /\ lrus_r' = AgedBy(h)
  /\ keys_r' = [e \in Entry |-> IF e = h THEN key ELSE keys_r[e]]
  /\ vals_r' = [e \in Entry |-> IF e = h THEN val ELSE vals_r[e]]
  /\ valids_r' = valids_r \union {h}

(* What the clock edge does to the ages, when no entry is in two vectors.   *)
LEMMA AgedApart ==
  ASSUME NEW write, NEW read, NEW increment,
         write \intersect read = {}, increment \intersect (write \union read) = {}
  PROVE  Aged(write, read, increment) =
           [e \in Entry |-> IF e \in write \union read THEN 0
                            ELSE IF e \in increment THEN (lrus_r[e] + 1) % camsize ELSE lrus_r[e]]
<1>1. ASSUME NEW e \in Entry, e \in write \union read
      PROVE  Aged(write, read, increment)[e] = 0
  <2>1. e \notin (write \intersect read) \union increment
    BY <1>1
  <2>2. ~(e \in increment /\ e \notin write \union read)
    BY <1>1
  <2> QED BY <1>1, <2>1, <2>2, Zenon DEF Aged, mru_p
<1>2. ASSUME NEW e \in Entry, e \notin write \union read
      PROVE  Aged(write, read, increment)[e] = IF e \in increment THEN (lrus_r[e] + 1) % camsize ELSE lrus_r[e]
  BY <1>2, Zenon DEF Aged
<1>3. Aged(write, read, increment) = [e \in Entry |-> Aged(write, read, increment)[e]]
  BY DEF Aged
<1> QED BY <1>1, <1>2, <1>3

(* A hit, of a read or of a write.                                          *)
LEMMA HitAges ==
  ASSUME CamIInv, NEW key, hits(key) # {}, NEW write, NEW read,
         write \union read = hits(key), write \intersect read = {},
         lrus_r' = Aged(write, read, Younger(key)), valids_r' = valids_r
  PROVE  /\ lrus_r' = AgedBy(one_hot0(hits(key)))
         /\ lrus_r' \in [Entry -> Entry]
         /\ \E n \in 0 .. camsize : FilledTo(n)'
         /\ AgesApart'
<1> DEFINE h == one_hot0(hits(key))
<1>1. h \in valids_r /\ hits(key) = {h}
  BY OneHit
<1> HIDE DEF h
<1>2. Younger(key) = {e \in valids_r : lrus_r[e] < lrus_r[h]}
  BY DEF Younger, h
<1>3. /\ valids_r \subseteq Entry /\ camsize \in Nat /\ camsize > 0
      /\ \A e \in Entry : lrus_r[e] \in Int /\ 0 <= lrus_r[e] /\ lrus_r[e] <= camsize - 1
  BY CamAssumption DEF CamIInv, CamTypeOK, Entry
<1>4. h \notin Younger(key)
  BY <1>1, <1>2, <1>3
<1>5. lrus_r' = [e \in Entry |-> IF e \in write \union read THEN 0
                                 ELSE IF e \in Younger(key) THEN (lrus_r[e] + 1) % camsize ELSE lrus_r[e]]
  BY <1>1, <1>4, AgedApart
<1>6. ASSUME NEW e \in Younger(key) PROVE (lrus_r[e] + 1) % camsize = lrus_r[e] + 1
  <2>1. e \in Entry /\ h \in Entry /\ lrus_r[e] < lrus_r[h]
    BY <1>1, <1>2, <1>3
  <2>2. lrus_r[e] + 1 \in 0 .. camsize - 1
    BY <1>3, <2>1
  <2> QED BY <2>2, NoTurn
<1>7. lrus_r' = [e \in Entry |-> IF e = h THEN 0
                                 ELSE IF e \in valids_r /\ lrus_r[e] < lrus_r[h]
                                 THEN lrus_r[e] + 1 ELSE lrus_r[e]]
  BY <1>1, <1>2, <1>5, <1>6
<1>8. lrus_r' = AgedBy(one_hot0(hits(key)))
  BY <1>7 DEF AgedBy, h
<1> QED BY <1>1, <1>7, <1>8, AgesAfterHit

LEMMA ReadStep ==
  ASSUME CamIInv, NEW key, hits(key) # {},
         Update({}, hits(key), Younger(key), key, Undriven),
         answered' = vals_r[one_hot0(hits(key))]
  PROVE  /\ CamIInv'
         /\ Serves(one_hot0(hits(key)), key, vals_r[one_hot0(hits(key))])
<1>1. /\ lrus_r' = Aged({}, hits(key), Younger(key))
      /\ keys_r' = [e \in Entry |-> keys_r[e]]
      /\ vals_r' = [e \in Entry |-> vals_r[e]]
      /\ valids_r' = valids_r
  BY DEF Update
<1>2. keys_r' = keys_r /\ vals_r' = vals_r
  BY <1>1 DEF CamIInv, CamTypeOK
<1>3. /\ lrus_r' = AgedBy(one_hot0(hits(key)))
      /\ lrus_r' \in [Entry -> Entry]
      /\ \E n \in 0 .. camsize : FilledTo(n)'
      /\ AgesApart'
  BY <1>1, HitAges
<1>4. answered' \in val_t \union {Undriven}
  BY OneHit DEF CamIInv, CamTypeOK
<1>5. CamTypeOK'
  BY <1>1, <1>2, <1>3, <1>4 DEF CamIInv, CamTypeOK
<1>6. KeysApart'
  BY <1>1, <1>2 DEF CamIInv, KeysApart
<1>7. ASSUME NEW h, h = one_hot0(hits(key)) PROVE Serves(h, key, vals_r[h])
  <2>1. h \in valids_r /\ h \in Entry /\ keys_r[h] = key
    BY <1>7, OneHit DEF CamIInv, CamTypeOK, hits
  <2> QED BY <1>1, <1>3, <1>7, <2>1 DEF Serves
<1> QED BY <1>3, <1>5, <1>6, <1>7 DEF CamIInv

LEMMA WriteHitStep ==
  ASSUME CamIInv, NEW key \in key_t, NEW val \in val_t, WriteHit(key, val)
  PROVE  CamIInv' /\ Serves(one_hot0(hits(key)), key, val)
<1> DEFINE h == one_hot0(hits(key))
<1>1. hits(key) # {} /\ h \in valids_r /\ hits(key) = {h}
  BY OneHit DEF WriteHit
<1> HIDE DEF h
<1>2. hits(key) \ ({} \union Younger(key)) \subseteq {h}
  BY <1>1
<1>3. keys_r[h] = key /\ h \in Entry
  BY <1>1 DEF hits, CamIInv, CamTypeOK
<1>4. /\ lrus_r' = Aged(hits(key), {}, Younger(key))
      /\ keys_r' = [e \in Entry |-> IF e \in hits(key) \ ({} \union Younger(key)) THEN key ELSE keys_r[e]]
      /\ vals_r' = [e \in Entry |-> IF e \in hits(key) \ ({} \union Younger(key)) THEN val ELSE vals_r[e]]
      /\ valids_r' = valids_r \union (hits(key) \ ({} \union Younger(key)))
      /\ answered' = Undriven
  BY DEF WriteHit, Update
<1>5. keys_r' = keys_r /\ valids_r' = valids_r /\ vals_r' \in [Entry -> val_t \union {Undriven}]
  BY <1>1, <1>2, <1>3, <1>4 DEF CamIInv, CamTypeOK
<1>6. /\ lrus_r' = AgedBy(one_hot0(hits(key)))
      /\ lrus_r' \in [Entry -> Entry]
      /\ \E n \in 0 .. camsize : FilledTo(n)'
      /\ AgesApart'
  BY <1>1, <1>4, <1>5, HitAges
<1>7. CamTypeOK'
  BY <1>4, <1>5, <1>6 DEF CamIInv, CamTypeOK
<1>8. KeysApart'
  BY <1>5 DEF CamIInv, KeysApart
<1>9. h \notin Younger(key)
  BY <1>1, <1>3 DEF Younger, h, CamIInv, CamTypeOK, Entry
<1>10. hits(key) \ ({} \union Younger(key)) = {h}
  BY <1>1, <1>9
<1>11. Serves(h, key, val)
  BY <1>1, <1>3, <1>4, <1>6, <1>10 DEF Serves, h
<1> QED BY <1>6, <1>7, <1>8, <1>11 DEF CamIInv, h

LEMMA WriteInvalidStep ==
  ASSUME CamIInv, NEW key \in key_t, NEW val \in val_t, WriteInvalid(key, val)
  PROVE  CamIInv' /\ Serves(first_zero(valids_r), key, val)
<1>1. PICK n \in 0 .. camsize : FilledTo(n)
  BY DEF CamIInv
<1>2. n < camsize /\ n \in Entry /\ first_zero(valids_r) = n /\ n \in Nat
  BY <1>1, FirstInvalid DEF WriteInvalid
<1>3. n \notin valids_r /\ {n} \ ({} \union valids_r) = {n}
  BY <1>1, <1>2 DEF FilledTo
<1>4. /\ lrus_r' = Aged({n}, {}, valids_r)
      /\ keys_r' = [e \in Entry |-> IF e \in {n} THEN key ELSE keys_r[e]]
      /\ vals_r' = [e \in Entry |-> IF e \in {n} THEN val ELSE vals_r[e]]
      /\ valids_r' = valids_r \union {n}
      /\ answered' = Undriven
  BY <1>2, <1>3 DEF WriteInvalid, Update
<1>5. {n} \intersect {} = {} /\ valids_r \intersect ({n} \union {}) = {}
  BY <1>3
<1>6. lrus_r' = [e \in Entry |-> IF e \in {n} \union {} THEN 0
                                 ELSE IF e \in valids_r THEN (lrus_r[e] + 1) % camsize ELSE lrus_r[e]]
  BY <1>4, <1>5, AgedApart
<1>7. ASSUME NEW e \in valids_r PROVE (lrus_r[e] + 1) % camsize = lrus_r[e] + 1
  <2>1. e \in Entry /\ e < n /\ lrus_r[e] < n /\ lrus_r[e] \in Nat
    BY <1>1, <1>2, CamAssumption DEF FilledTo, CamIInv, CamTypeOK, Entry
  <2>2. lrus_r[e] + 1 \in 0 .. camsize - 1
    BY <1>2, <2>1, CamAssumption
  <2> QED BY <2>2, NoTurn
<1>8. lrus_r' = [e \in Entry |-> IF e = n THEN 0
                                 ELSE IF e \in valids_r THEN lrus_r[e] + 1 ELSE lrus_r[e]]
  BY <1>6, <1>7
<1>9. /\ lrus_r' \in [Entry -> Entry]
      /\ \E m \in 0 .. camsize : FilledTo(m)'
      /\ AgesApart'
  BY <1>1, <1>2, <1>4, <1>8, AgesAfterInsert
<1>10. CamTypeOK'
  BY <1>2, <1>4, <1>9 DEF CamIInv, CamTypeOK
<1>11. KeysApart'
  BY <1>2, <1>3, <1>4 DEF CamIInv, CamTypeOK, KeysApart, WriteInvalid, hits
<1>12. \A e \in valids_r : lrus_r[e] < lrus_r[n]
  BY <1>1, <1>2, CamAssumption DEF FilledTo, Entry
<1>13. Serves(n, key, val)
  BY <1>2, <1>4, <1>8, <1>12 DEF Serves, AgedBy
<1> QED BY <1>2, <1>9, <1>10, <1>11, <1>13 DEF CamIInv

(* Every age below the number of valid entries is that of one of them.      *)
LEMMA AgesTaken ==
  ASSUME CamIInv, NEW n \in 0 .. camsize, FilledTo(n), NEW age \in 0 .. n - 1
  PROVE  \E e \in valids_r : e \in Entry /\ lrus_r[e] = age
<1> DEFINE S == 0 .. n - 1
           f == [e \in S |-> lrus_r[e]]
<1>1. n \in Nat /\ camsize \in Nat /\ n <= camsize /\ valids_r = S /\ S \subseteq Entry
  BY CamAssumption DEF FilledTo, Entry
<1>2. f \in [S -> S]
  BY <1>1 DEF FilledTo, CamIInv, CamTypeOK, Entry
<1>3. IsFiniteSet(S)
  BY <1>1, FS_Interval
<1>4. f \in Injection(S, S)
  BY <1>1, <1>2 DEF Injection, IsInjective, CamIInv, AgesApart
<1>5. f \in Surjection(S, S)
  BY <1>3, <1>4, FS_Injection
<1> QED BY <1>1, <1>5 DEF Surjection

(* A full memory has an entry of the greatest age.                          *)
LEMMA OldestThere ==
  ASSUME CamIInv, valids_r = Entry
  PROVE  \E e \in Entry : lrus_r[e] = lru_p
<1>1. PICK n \in 0 .. camsize : FilledTo(n)
  BY DEF CamIInv
<1>2. n = camsize
  BY <1>1, CamAssumption DEF FilledTo, Entry
<1>3. lru_p \in 0 .. n - 1
  BY <1>2, CamAssumption DEF lru_p
<1> QED BY <1>1, <1>3, AgesTaken

LEMMA EvictStep ==
  ASSUME CamIInv, NEW key \in key_t, NEW val \in val_t, Evict(key, val)
  PROVE  CamIInv' /\ \E h \in lru_w : Serves(h, key, val)
<1>1. lru_w \ ({} \union (Entry \ lru_w)) = lru_w /\ lru_w \subseteq Entry
  BY DEF lru_w
<1>2. valids_r = Entry /\ valids_r \union lru_w = Entry
  BY <1>1 DEF Evict
<1>3. /\ lrus_r' = Aged(lru_w, {}, Entry \ lru_w)
      /\ keys_r' = [e \in Entry |-> IF e \in lru_w THEN key ELSE keys_r[e]]
      /\ vals_r' = [e \in Entry |-> IF e \in lru_w THEN val ELSE vals_r[e]]
      /\ valids_r' = Entry
      /\ answered' = Undriven
  BY <1>1, <1>2 DEF Evict, Update
<1>4. lru_w \intersect {} = {} /\ (Entry \ lru_w) \intersect (lru_w \union {}) = {}
  OBVIOUS
<1>5. lrus_r' = [e \in Entry |-> IF e \in lru_w \union {} THEN 0
                                 ELSE IF e \in Entry \ lru_w THEN (lrus_r[e] + 1) % camsize ELSE lrus_r[e]]
  BY <1>3, <1>4, AgedApart
<1>6. ASSUME NEW e \in Entry, lrus_r[e] # lru_p PROVE (lrus_r[e] + 1) % camsize = lrus_r[e] + 1
  <2>1. lrus_r[e] \in Entry
    BY DEF CamIInv, CamTypeOK
  <2>2. lrus_r[e] + 1 \in 0 .. camsize - 1
    BY <1>6, <2>1, CamAssumption DEF Entry, lru_p
  <2> QED BY <2>2, NoTurn
<1>7. lrus_r' = [e \in Entry |-> IF lrus_r[e] = lru_p THEN 0 ELSE lrus_r[e] + 1]
  BY <1>5, <1>6 DEF lru_w
<1>8. /\ lrus_r' \in [Entry -> Entry]
      /\ \E n \in 0 .. camsize : FilledTo(n)'
      /\ AgesApart'
  BY <1>2, <1>3, <1>7, AgesAfterEviction
<1>9. CamTypeOK'
  BY <1>3, <1>8 DEF CamIInv, CamTypeOK
<1>10. \A e, f \in lru_w : e = f
  BY DEF lru_w, CamIInv, AgesApart
<1>11. KeysApart'
  BY <1>2, <1>3, <1>10 DEF CamIInv, CamTypeOK, KeysApart, Evict, hits
<1>12. PICK h \in Entry : lrus_r[h] = lru_p
  BY <1>2, OldestThere
<1>13. \A e \in Entry : e # h => lrus_r[e] < lrus_r[h]
  BY <1>12, CamAssumption DEF CamIInv, CamTypeOK, AgesApart, Entry, lru_p
<1>14. lru_w = {h}
  BY <1>10, <1>12 DEF lru_w
<1>15. lrus_r' = AgedBy(h)
  <2>1. \A e \in Entry : (lrus_r[e] = lru_p <=> e = h) /\ (e # h => e \in valids_r /\ lrus_r[e] < lrus_r[h])
    BY <1>2, <1>12, <1>13, <1>14 DEF lru_w
  <2> QED BY <1>7, <2>1, Zenon DEF AgedBy
<1>16. Serves(h, key, val)
  BY <1>2, <1>3, <1>14, <1>15 DEF Serves
<1> QED BY <1>8, <1>9, <1>11, <1>14, <1>16 DEF CamIInv

LEMMA CamNextIInv ==
  ASSUME CamIInv, [CamNext]_camVars
  PROVE  CamIInv'
<1>1. CASE CamReset
  <2>1. CamTypeOK' /\ valids_r' = {} /\ lrus_r' = [e \in Entry |-> e]
    BY <1>1, CamAssumption DEF CamReset, CamIInv, CamTypeOK
  <2>2. 0 \in 0 .. camsize /\ FilledTo(0)'
    BY <2>1, CamAssumption DEF FilledTo, Entry
  <2> QED BY <2>1, <2>2 DEF CamIInv, AgesApart, KeysApart
<1>2. ASSUME UNCHANGED <<keys_r, vals_r, lrus_r, valids_r>>, answered' \in val_t \union {Undriven}
      PROVE  CamIInv'
  <2>1. PICK n \in 0 .. camsize : FilledTo(n)
    BY DEF CamIInv
  <2>2. FilledTo(n)'
    BY <1>2, <2>1 DEF FilledTo
  <2>3. CamTypeOK'
    BY <1>2 DEF CamIInv, CamTypeOK
  <2>4. AgesApart' /\ KeysApart'
    BY <1>2 DEF CamIInv, AgesApart, KeysApart
  <2> QED BY <2>2, <2>3, <2>4 DEF CamIInv
<1>3. CASE CamIdle
  BY <1>2, <1>3 DEF CamIdle
<1>4. ASSUME NEW k \in key_t, ReadKey(k) PROVE CamIInv'
  <2>1. CASE hits(k) = {}
    BY <1>3, <1>4, <2>1 DEF ReadKey
  <2>2. CASE hits(k) # {}
    BY <1>4, <2>2, ReadStep DEF ReadKey
  <2> QED BY <2>1, <2>2
<1>5. ASSUME NEW w \in Writes, WriteHit(w[1], w[2]) \/ WriteInvalid(w[1], w[2]) \/ Evict(w[1], w[2])
      PROVE  CamIInv'
  <2>1. w[1] \in key_t /\ w[2] \in val_t
    BY CamAssumption
  <2> QED BY <1>5, <2>1, WriteHitStep, WriteInvalidStep, EvictStep
<1>6. CASE UNCHANGED camVars
  BY <1>2, <1>6 DEF camVars, CamIInv, CamTypeOK
<1> QED BY <1>1, <1>3, <1>4, <1>5, <1>6 DEF CamNext

(* However many entries there are and whatever is read, written and reset,  *)
(* the ages are a permutation, the valid entries are the youngest, and no   *)
(* key is in two of them (cam_controller.sv, cam_datapath.sv).              *)
THEOREM CamAges == CamSpec => []CamInv
<1> QED BY CamInitIInv, CamNextIInv, CamInvFollows, PTL DEF CamSpec

(* The entry of an age is one.                                              *)
LEMMA OfItsAge ==
  ASSUME NEW ages, \A e, f \in Entry : ages[e] = ages[f] => e = f, NEW e \in Entry
  PROVE  (CHOOSE d \in Entry : ages[d] = ages[e]) = e
OBVIOUS

(* The table that n entries are, by age.                                    *)
Ordered(keys, vals, ages, n) ==
  [pos \in 1 .. n |-> [key |-> keys[CHOOSE d \in Entry : ages[d] = pos - 1],
                     val |-> vals[CHOOSE d \in Entry : ages[d] = pos - 1]]]

LEMMA OrderedAt ==
  ASSUME NEW keys, NEW vals, NEW ages, \A e, f \in Entry : ages[e] = ages[f] => e = f,
         NEW n \in Nat, NEW pos \in 1 .. n, NEW e \in Entry, ages[e] = pos - 1
  PROVE  Ordered(keys, vals, ages, n)[pos] = [key |-> keys[e], val |-> vals[e]]
<1>1. (CHOOSE d \in Entry : ages[d] = pos - 1) = e
  BY OfItsAge
<1> QED BY <1>1 DEF Ordered

LEMMA ValidCount ==
  ASSUME NEW n \in Nat
  PROVE  Cardinality(0 .. n - 1) = n
<1>1. Cardinality(0 .. n - 1) = IF 0 > n - 1 THEN 0 ELSE (n - 1) - 0 + 1
  BY FS_Interval
<1> QED BY <1>1

(* What the refinement shows is the entries in the order of their ages.     *)
LEMMA RecentOrdered ==
  ASSUME NEW n \in 0 .. camsize, FilledTo(n)
  PROVE  /\ Recent = Ordered(keys_r, vals_r, lrus_r, n)
         /\ Len(Recent) = n
<1>1. n \in Nat /\ Cardinality(valids_r) = n
  BY ValidCount, CamAssumption DEF FilledTo
<1>2. Recent = Ordered(keys_r, vals_r, lrus_r, n)
  BY <1>1 DEF Recent, Ordered, Aging
<1>3. DOMAIN Recent = 1 .. n
  BY <1>1 DEF Recent
<1> QED BY <1>1, <1>2, <1>3, LenProperties

LEMMA EntryInTable ==
  ASSUME CamIInv, NEW n \in 0 .. camsize, FilledTo(n), NEW e \in valids_r
  PROVE  /\ lrus_r[e] + 1 \in 1 .. n
         /\ Recent[lrus_r[e] + 1] = [key |-> keys_r[e], val |-> vals_r[e]]
<1>1. e \in Entry /\ lrus_r[e] \in Entry /\ n \in Nat
  BY CamAssumption DEF CamIInv, CamTypeOK
<1>2. e \in Nat /\ lrus_r[e] \in Nat /\ e < n
  BY <1>1, CamAssumption DEF Entry, FilledTo
<1>3. lrus_r[e] + 1 \in 1 .. n /\ lrus_r[e] = (lrus_r[e] + 1) - 1
  BY <1>1, <1>2 DEF FilledTo
<1>4. \A d, f \in Entry : lrus_r[d] = lrus_r[f] => d = f
  BY DEF CamIInv, AgesApart
<1>5. Ordered(keys_r, vals_r, lrus_r, n)[lrus_r[e] + 1] = [key |-> keys_r[e], val |-> vals_r[e]]
  BY <1>1, <1>3, <1>4, OrderedAt
<1> QED BY <1>3, <1>5, RecentOrdered

(* The places of a key in the table are those of the entries it hits.       *)
LEMMA PlacesOfHits ==
  ASSUME CamIInv, NEW key
  PROVE  Table!Entries(key) = {lrus_r[e] + 1 : e \in hits(key)}
<1>1. PICK n \in 0 .. camsize : FilledTo(n)
  BY DEF CamIInv
<1>2. n \in Nat /\ Len(Recent) = n
  BY <1>1, RecentOrdered, CamAssumption
<1>3. ASSUME NEW e \in valids_r
      PROVE  /\ lrus_r[e] + 1 \in 1 .. n
             /\ Recent[lrus_r[e] + 1] = [key |-> keys_r[e], val |-> vals_r[e]]
  BY <1>1, EntryInTable
<1>4. ASSUME NEW pos \in 1 .. n PROVE \E e \in valids_r : pos = lrus_r[e] + 1
  <2>1. pos - 1 \in 0 .. n - 1
    BY <1>2
  <2>2. PICK e \in valids_r : lrus_r[e] = pos - 1
    BY <1>1, <2>1, AgesTaken
  <2> QED BY <2>2
<1>5. ASSUME NEW pos \in Table!Entries(key) PROVE pos \in {lrus_r[e] + 1 : e \in hits(key)}
  <2>1. pos \in 1 .. n /\ Recent[pos].key = key
    BY <1>2 DEF Table!Entries
  <2>2. PICK e \in valids_r : pos = lrus_r[e] + 1
    BY <1>4, <2>1
  <2>3. Recent[pos] = [key |-> keys_r[e], val |-> vals_r[e]]
    BY <1>3, <2>2
  <2>4. keys_r[e] = key
    BY <2>1, <2>3
  <2> QED BY <2>2, <2>4 DEF hits
<1>6. ASSUME NEW e \in hits(key) PROVE lrus_r[e] + 1 \in Table!Entries(key)
  <2>1. e \in valids_r /\ keys_r[e] = key
    BY DEF hits
  <2>2. lrus_r[e] + 1 \in 1 .. n
    BY <1>3, <2>1
  <2>3. Recent[lrus_r[e] + 1] = [key |-> keys_r[e], val |-> vals_r[e]]
    BY <1>3, <2>1
  <2>4. Recent[lrus_r[e] + 1].key = key
    BY <2>1, <2>3
  <2> QED BY <1>2, <2>2, <2>4 DEF Table!Entries
<1> QED BY <1>5, <1>6

(* An entry used moves to the front of the table, and the place it leaves,  *)
(* or the first free one, takes those that were before it.                  *)
LEMMA UsedInTable ==
  ASSUME CamIInv, CamIInv', NEW n \in 0 .. camsize, FilledTo(n), NEW h, NEW key, NEW val,
         Serves(h, key, val), h \in valids_r \/ h = n
  PROVE  Recent' = Table!Used([key |-> key, val |-> val], lrus_r[h] + 1)
<1> DEFINE p == lrus_r[h] + 1
           m == IF h = n THEN n + 1 ELSE n
<1>1. /\ n \in Nat /\ n <= camsize /\ camsize \in Nat /\ h \in Entry /\ h \in Nat /\ h < camsize
      /\ valids_r = 0 .. n - 1 /\ valids_r \subseteq Entry
      /\ \A e \in Entry : lrus_r[e] \in Nat /\ (e \in valids_r => lrus_r[e] < n)
  <2>1. n \in Nat /\ n <= camsize /\ camsize \in Nat /\ h \in Entry
    BY CamAssumption DEF Serves
  <2>2. h \in Nat /\ h < camsize
    BY <2>1 DEF Entry
  <2>3. valids_r = 0 .. n - 1 /\ valids_r \subseteq Entry
    BY DEF FilledTo, CamIInv, CamTypeOK
  <2>4. ASSUME NEW e \in Entry PROVE lrus_r[e] \in Nat /\ (e \in valids_r => lrus_r[e] < n)
    <3>1. lrus_r[e] \in Entry
      BY DEF CamIInv, CamTypeOK
    <3>2. e \in Nat /\ lrus_r[e] \in Nat
      BY <2>1, <3>1 DEF Entry
    <3>3. e \in valids_r => e < n
      BY <2>1, <2>3, <3>2
    <3> QED BY <3>2, <3>3 DEF FilledTo
  <2> QED BY <2>1, <2>2, <2>3, <2>4
<1>2. h = n => lrus_r[h] = n
  BY <1>1 DEF FilledTo
<1>3. m \in 0 .. camsize /\ valids_r' = 0 .. m - 1 /\ p \in 1 .. m
  BY <1>1, <1>2 DEF Serves
<1>4. Recent' = Ordered(keys_r', vals_r', lrus_r', m)
  <2>1. Cardinality(valids_r') = m
    BY <1>1, <1>3, ValidCount
  <2> QED BY <2>1 DEF Recent, Ordered, Aging
<1>5. Recent = Ordered(keys_r, vals_r, lrus_r, n) /\ Len(Recent) = n
  BY RecentOrdered
<1>6. /\ \A e, f \in Entry : lrus_r[e] = lrus_r[f] => e = f
      /\ \A e, f \in Entry : lrus_r'[e] = lrus_r'[f] => e = f
  BY DEF CamIInv, AgesApart
<1> HIDE DEF p, m
<1>7. 1 .. Len(Recent) \union {p} = 1 .. m
  BY <1>1, <1>2, <1>3, <1>5 DEF p, m
<1>8. ASSUME NEW pos \in 1 .. m
       PROVE  Recent'[pos] = IF pos = 1 THEN [key |-> key, val |-> val]
                           ELSE IF pos <= p THEN Recent[pos - 1] ELSE Recent[pos]
  <2>1. CASE pos = 1
    <3>1. lrus_r'[h] = pos - 1
      BY <1>1, <2>1 DEF Serves, AgedBy
    <3>2. Ordered(keys_r', vals_r', lrus_r', m)[pos] = [key |-> keys_r'[h], val |-> vals_r'[h]]
      BY <1>1, <1>3, <1>6, <3>1, OrderedAt, SMTT(40)
    <3> QED BY <1>4, <1>1, <2>1, <3>2 DEF Serves
  <2>2. CASE pos # 1 /\ pos <= p
    <3>1. pos - 1 \in 1 .. n /\ pos - 2 \in 0 .. n - 1
      BY <1>1, <1>2, <1>3, <2>2 DEF p, m
    <3>2. PICK e \in valids_r : e \in Entry /\ lrus_r[e] = pos - 2
      BY <3>1, AgesTaken
    <3>3. lrus_r[e] < lrus_r[h] /\ e # h
      BY <1>1, <2>2, <3>1, <3>2 DEF p
    <3>4. lrus_r[e] = (pos - 1) - 1
      BY <3>1, <3>2
    <3>8. lrus_r'[e] = pos - 1
      BY <1>1, <3>1, <3>2, <3>3 DEF Serves, AgedBy
    <3>5. Ordered(keys_r', vals_r', lrus_r', m)[pos] = [key |-> keys_r'[e], val |-> vals_r'[e]]
      BY <1>1, <1>3, <1>6, <3>2, <3>8, OrderedAt
    <3>6. Recent[pos - 1] = [key |-> keys_r[e], val |-> vals_r[e]]
      BY <1>1, <1>5, <1>6, <3>1, <3>2, <3>4, OrderedAt, SMTT(40)
    <3>7. keys_r'[e] = keys_r[e] /\ vals_r'[e] = vals_r[e]
      BY <3>2, <3>3 DEF Serves
    <3> QED BY <1>4, <2>2, <3>5, <3>6, <3>7
  <2>3. CASE pos # 1 /\ pos > p
    <3>1. pos \in 1 .. n /\ pos - 1 \in 0 .. n - 1
      BY <1>1, <1>2, <1>3, <2>3 DEF p, m
    <3>2. PICK e \in valids_r : e \in Entry /\ lrus_r[e] = pos - 1
      BY <3>1, AgesTaken
    <3>3. ~(lrus_r[e] < lrus_r[h]) /\ e # h
      BY <1>1, <2>3, <3>1, <3>2 DEF p
    <3>4. lrus_r'[e] = pos - 1
      BY <1>1, <3>2, <3>3 DEF Serves, AgedBy
    <3>5. Ordered(keys_r', vals_r', lrus_r', m)[pos] = [key |-> keys_r'[e], val |-> vals_r'[e]]
      BY <1>1, <1>3, <1>6, <3>2, <3>4, OrderedAt
    <3>6. Ordered(keys_r, vals_r, lrus_r, n)[pos] = [key |-> keys_r[e], val |-> vals_r[e]]
      BY <1>1, <1>6, <3>1, <3>2, OrderedAt
    <3>7. keys_r'[e] = keys_r[e] /\ vals_r'[e] = vals_r[e]
      BY <3>2, <3>3 DEF Serves
    <3>8. ~(pos <= p)
      BY <1>1, <2>3, <3>1 DEF p
    <3> QED BY <1>4, <1>5, <2>3, <3>5, <3>6, <3>7, <3>8
  <2> QED BY <1>1, <1>3, <2>1, <2>2, <2>3 DEF p
<1>9. Recent' = [pos \in 1 .. m |-> Recent'[pos]]
  BY <1>4 DEF Ordered
<1> QED BY <1>7, <1>8, <1>9 DEF Table!Used, p

LEMMA CamInitTable == CamInit => Table!LruInit
<1> SUFFICES ASSUME CamInit PROVE Recent = <<>> /\ answered = Undriven
  BY DEF Table!LruInit
<1>1. FilledTo(0) /\ 0 \in 0 .. camsize
  BY CamAssumption DEF CamInit, FilledTo, Entry
<1>2. Recent = Ordered(keys_r, vals_r, lrus_r, 0)
  BY <1>1, RecentOrdered
<1> QED BY <1>2 DEF Ordered, CamInit

(* A read is a use of the entry that is hit.                                *)
LEMMA ReadIsUse ==
  ASSUME CamIInv, CamIInv', NEW key, hits(key) # {},
         Serves(one_hot0(hits(key)), key, vals_r[one_hot0(hits(key))]),
         answered' = vals_r[one_hot0(hits(key))]
  PROVE  Table!ReadHit(key)
<1>1. PICK n \in 0 .. camsize : FilledTo(n)
  BY DEF CamIInv
<1>2. PICK h : h = one_hot0(hits(key))
  OBVIOUS
<1>3. h \in valids_r /\ h \in hits(key) /\ hits(key) = {h} /\ keys_r[h] = key
  BY <1>2, OneHit DEF hits
<1>4. lrus_r[h] + 1 \in Table!Entries(key)
  BY <1>3, PlacesOfHits
<1>5. Recent' = Table!Used([key |-> key, val |-> vals_r[h]], lrus_r[h] + 1)
  BY <1>1, <1>2, <1>3, UsedInTable
<1>6. Recent[lrus_r[h] + 1] = [key |-> key, val |-> vals_r[h]]
  BY <1>1, <1>3, EntryInTable
<1> QED BY <1>2, <1>4, <1>5, <1>6 DEF Table!ReadHit

(* A write is a use of the entry that is hit, or of a new one.              *)
LEMMA WriteHitIsUse ==
  ASSUME CamIInv, CamIInv', NEW key, NEW val, hits(key) # {},
         Serves(one_hot0(hits(key)), key, val), answered' = Undriven
  PROVE  Table!Write(key, val)
<1>1. PICK n \in 0 .. camsize : FilledTo(n)
  BY DEF CamIInv
<1>2. PICK h : h = one_hot0(hits(key))
  OBVIOUS
<1>3. h \in valids_r /\ hits(key) = {h}
  BY <1>2, OneHit
<1>4. Table!Entries(key) = {lrus_r[h] + 1}
  BY <1>3, PlacesOfHits
<1>5. Recent' = Table!Used([key |-> key, val |-> val], lrus_r[h] + 1)
  BY <1>1, <1>2, <1>3, UsedInTable
<1>6. lrus_r[h] + 1 \in 1 .. camsize
  <2>1. lrus_r[h] \in Entry
    BY <1>3 DEF CamIInv, CamTypeOK
  <2> QED BY <2>1, CamAssumption DEF Entry
<1> QED BY <1>4, <1>5, <1>6 DEF Table!Write

LEMMA WriteMissIsUse ==
  ASSUME CamIInv, CamIInv', NEW key, NEW val, hits(key) = {}, answered' = Undriven,
         NEW n \in 0 .. camsize, FilledTo(n), NEW h, Serves(h, key, val),
         IF n = camsize THEN h \in lru_w ELSE h = n
  PROVE  Table!Write(key, val)
<1>1. n \in Nat /\ camsize \in Nat \ {0} /\ n <= camsize /\ h \in Entry
  BY CamAssumption DEF Serves
<1>2. Table!Entries(key) = {}
  BY PlacesOfHits
<1>3. Len(Recent) = n
  BY RecentOrdered
<1>4. h \in valids_r \/ h = n
  BY <1>1 DEF FilledTo, Entry
<1>5. Recent' = Table!Used([key |-> key, val |-> val], lrus_r[h] + 1)
  BY <1>4, UsedInTable
<1>6. lrus_r[h] + 1 = IF n = camsize THEN camsize ELSE n + 1
  BY <1>1 DEF FilledTo, lru_w, lru_p
<1>7. lrus_r[h] + 1 \in 1 .. camsize
  BY <1>1, <1>6
<1> QED BY <1>2, <1>3, <1>5, <1>6, <1>7 DEF Table!Write

LEMMA CamNextTable ==
  ASSUME CamIInv, CamIInv', [CamNext]_camVars
  PROVE  [Table!LruNext]_(Table!lruVars)
<1>1. PICK n \in 0 .. camsize : FilledTo(n)
  BY DEF CamIInv
<1>2. CASE CamReset
  <2>1. valids_r' = {} /\ answered' = Undriven
    BY <1>2 DEF CamReset
  <2>2. Cardinality(valids_r') = 0
    BY <2>1, FS_EmptySet
  <2>3. Recent' = <<>>
    BY <2>2 DEF Recent
  <2> QED BY <2>1, <2>3 DEF Table!LruNext, Table!Empty
<1>3. CASE CamIdle
  BY <1>3 DEF CamIdle, Recent, Aging, Table!LruNext, Table!Rest
<1>4. ASSUME NEW k \in key_t, ReadKey(k) PROVE Table!LruNext
  <2>1. CASE hits(k) = {}
    BY <1>3, <1>4, <2>1 DEF ReadKey, CamIdle, Recent, Aging, Table!LruNext, Table!Rest
  <2>2. CASE hits(k) # {}
    <3>1. /\ Update({}, hits(k), Younger(k), k, Undriven)
          /\ answered' = vals_r[one_hot0(hits(k))]
      BY <1>4, <2>2 DEF ReadKey
    <3>2. Serves(one_hot0(hits(k)), k, vals_r[one_hot0(hits(k))])
      BY <2>2, <3>1, ReadStep
    <3>3. Table!ReadHit(k)
      BY <2>2, <3>1, <3>2, ReadIsUse
    <3> QED BY <3>3 DEF Table!LruNext
  <2> QED BY <2>1, <2>2
<1>5. ASSUME NEW k \in key_t, NEW v \in val_t, WriteHit(k, v) \/ WriteInvalid(k, v) \/ Evict(k, v)
      PROVE  Table!LruNext
  <2>1. CASE WriteHit(k, v)
    <3>1. Serves(one_hot0(hits(k)), k, v) /\ hits(k) # {} /\ answered' = Undriven
      BY <2>1, WriteHitStep DEF WriteHit
    <3> QED BY <3>1, WriteHitIsUse DEF Table!LruNext
  <2>2. CASE WriteInvalid(k, v)
    <3>1. Serves(first_zero(valids_r), k, v) /\ hits(k) = {} /\ valids_r # Entry /\ answered' = Undriven
      BY <2>2, WriteInvalidStep DEF WriteInvalid
    <3>2. n < camsize /\ first_zero(valids_r) = n
      BY <1>1, <3>1, FirstInvalid
    <3>3. n # camsize
      BY <3>2, CamAssumption
    <3>4. Table!Write(k, v)
      BY <1>1, <3>1, <3>2, <3>3, WriteMissIsUse
    <3> QED BY <3>4 DEF Table!LruNext
  <2>3. CASE Evict(k, v)
    <3>1. hits(k) = {} /\ valids_r = Entry /\ answered' = Undriven
      BY <2>3 DEF Evict
    <3>2. PICK h \in lru_w : Serves(h, k, v)
      BY <2>3, EvictStep
    <3>3. n = camsize
      BY <1>1, <3>1, CamAssumption DEF FilledTo, Entry
    <3>4. Table!Write(k, v)
      BY <1>1, <3>1, <3>2, <3>3, WriteMissIsUse
    <3> QED BY <3>4 DEF Table!LruNext
  <2> QED BY <1>5, <2>1, <2>2, <2>3
<1>6. ASSUME NEW w \in Writes, WriteHit(w[1], w[2]) \/ WriteInvalid(w[1], w[2]) \/ Evict(w[1], w[2])
      PROVE  Table!LruNext
  <2>1. w[1] \in key_t /\ w[2] \in val_t
    BY CamAssumption
  <2> QED BY <1>5, <1>6, <2>1
<1>7. CASE UNCHANGED camVars
  BY <1>7 DEF camVars, Recent, Aging, Table!lruVars
<1> QED BY <1>2, <1>3, <1>4, <1>6, <1>7 DEF CamNext

(* For every number of entries, the ages, the valid bits and the encoders   *)
(* are a table in the order of use: a read is answered with the last value  *)
(* written under its key, unless as many other keys have been used since as *)
(* there are entries (cam_controller.sv, cam_datapath.sv).                  *)
THEOREM CamLeastRecent == CamSpec => ImplementsLru
<1>1. CamInit => CamIInv /\ Table!LruInit
  BY CamInitIInv, CamInitTable
<1>2. CamIInv /\ [CamNext]_camVars => CamIInv' /\ [Table!LruNext]_(Table!lruVars)
  BY CamNextIInv, CamNextTable
<1> QED BY <1>1, <1>2, PTL DEF CamSpec, ImplementsLru, Table!LruSpec

-----------------------------------------------------------------------------
(* The queue.                                                               *)

Content == word_t \union {X}

(* Not more than the memory holds waits, and the output register is the     *)
(* word the reading pointer names, which never leaves the memory before.    *)
FifoIInv ==
  /\ read_ptr \in Pointer /\ write_ptr \in Pointer
  /\ queue \in [Slot -> Content]
  /\ Held <= cap
  /\ Held # 0 => output_buffer_r = queue[Address(read_ptr)]

(* Within one turn of a ring, % is an addition.                             *)
LEMMA OneTurn ==
  ASSUME NEW n \in Nat \ {0}, NEW x \in Int
  PROVE  /\ x \in 0 .. n - 1 => x % n = x /\ x \div n = 0
         /\ x < 0 /\ x >= 0 - n => x % n = x + n
         /\ x >= n /\ x < 2 * n => x % n = x - n /\ x \div n = 1
OBVIOUS

LEMMA PointerFacts ==
  ASSUME NEW p \in Pointer
  PROVE  /\ Following(p) = IF p = 0 THEN 2 * cap - 1 ELSE p - 1
         /\ Following(p) \in Pointer
         /\ Address(p) = IF p < cap THEN p ELSE p - cap
         /\ Address(p) \in Slot
         /\ Sign(p) = IF p < cap THEN 0 ELSE 1
<1>1. cap \in Nat \ {0} /\ 2 * cap \in Nat \ {0} /\ p \in Int /\ p >= 0 /\ p < 2 * cap
  BY FifoAssumption DEF Pointer
<1>2. p % cap = (IF p < cap THEN p ELSE p - cap) /\ p \div cap = (IF p < cap THEN 0 ELSE 1)
  <2>1. CASE p < cap
    <3>1. p \in 0 .. cap - 1
      BY <1>1, <2>1
    <3>2. p % cap = p /\ p \div cap = 0
      BY <1>1, <3>1, OneTurn
    <3> QED BY <2>1, <3>2
  <2>2. CASE ~(p < cap)
    <3>1. p >= cap
      BY <1>1, <2>2
    <3>2. p % cap = p - cap /\ p \div cap = 1
      BY <1>1, <3>1, OneTurn
    <3> QED BY <2>2, <3>2
  <2> QED BY <2>1, <2>2
<1>3. (p - 1) % (2 * cap) = IF p = 0 THEN 2 * cap - 1 ELSE p - 1
  <2>1. p - 1 \in Int /\ p - 1 >= 0 - 2 * cap
    BY <1>1
  <2>2. CASE p = 0
    <3>1. (p - 1) % (2 * cap) = p - 1 + 2 * cap
      BY <1>1, <2>1, <2>2, OneTurn
    <3> QED BY <1>1, <2>2, <3>1
  <2>3. CASE p # 0
    <3>1. p - 1 \in 0 .. 2 * cap - 1
      BY <1>1, <2>3
    <3>2. (p - 1) % (2 * cap) = p - 1
      BY <1>1, <2>1, <3>1, OneTurn
    <3> QED BY <2>3, <3>2
  <2> QED BY <2>2, <2>3
<1> QED BY <1>1, <1>2, <1>3 DEF Following, Address, Sign, Pointer, Slot

(* The place of the k-th word.                                              *)
LEMMA PlaceFacts ==
  ASSUME NEW p \in Pointer, NEW k \in 1 .. 2 * cap
  PROVE  /\ (p - k + 1) % (2 * cap) = IF k > p + 1 THEN p - k + 1 + 2 * cap ELSE p - k + 1
         /\ (p - k + 1) % (2 * cap) \in Pointer
<1>1. 2 * cap \in Nat \ {0} /\ p \in Int /\ p >= 0 /\ p < 2 * cap /\ k \in Int
  BY FifoAssumption DEF Pointer
<1>2. p - k + 1 \in Int /\ p - k + 1 >= 0 - 2 * cap /\ p - k + 1 < 2 * cap
  BY <1>1
<1>3. (p - k + 1) % (2 * cap) = IF k > p + 1 THEN p - k + 1 + 2 * cap ELSE p - k + 1
  BY <1>1, <1>2, OneTurn
<1> QED BY <1>1, <1>3 DEF Pointer

LEMMA Distance ==
  ASSUME NEW p \in Pointer, NEW q \in Pointer
  PROVE  (p - q) % (2 * cap) = IF p >= q THEN p - q ELSE p - q + 2 * cap
<1>1. 2 * cap \in Nat \ {0} /\ p \in Int /\ p >= 0 /\ p < 2 * cap /\ q \in Int /\ q >= 0 /\ q < 2 * cap
  BY FifoAssumption DEF Pointer
<1> QED BY <1>1, OneTurn

(* The two flags tell an empty queue from a full one.                       *)
LEMMA Flags ==
  ASSUME read_ptr \in Pointer, write_ptr \in Pointer, Held <= cap
  PROVE  /\ Held \in 0 .. cap
         /\ empty <=> Held = 0
         /\ full <=> Held = cap
<1>1. Held = IF read_ptr >= write_ptr THEN read_ptr - write_ptr ELSE read_ptr - write_ptr + 2 * cap
  BY Distance DEF Held
<1>2. /\ Address(read_ptr) = IF read_ptr < cap THEN read_ptr ELSE read_ptr - cap
      /\ Sign(read_ptr) = IF read_ptr < cap THEN 0 ELSE 1
      /\ Address(write_ptr) = IF write_ptr < cap THEN write_ptr ELSE write_ptr - cap
      /\ Sign(write_ptr) = IF write_ptr < cap THEN 0 ELSE 1
  BY PointerFacts
<1> QED BY <1>1, <1>2, FifoAssumption DEF empty, full, ptr_eq, Pointer

(* What is written for the word that is put leaves the words that wait.     *)
LEMMA WritesBehind ==
  ASSUME read_ptr \in Pointer, write_ptr \in Pointer, Held < cap, NEW k \in 1 .. Held
  PROVE  Address((read_ptr - k + 1) % (2 * cap)) # Address(write_ptr)
<1>1. Held = IF read_ptr >= write_ptr THEN read_ptr - write_ptr ELSE read_ptr - write_ptr + 2 * cap
  BY Distance DEF Held
<1>2. cap \in Nat \ {0} /\ read_ptr \in 0 .. 2 * cap - 1 /\ write_ptr \in 0 .. 2 * cap - 1 /\ Held \in Int
  BY <1>1, FifoAssumption DEF Pointer
<1>3. k \in 1 .. 2 * cap
  BY <1>2
<1> DEFINE place == (read_ptr - k + 1) % (2 * cap)
<1>4. /\ place = IF k > read_ptr + 1 THEN read_ptr - k + 1 + 2 * cap ELSE read_ptr - k + 1
      /\ place \in Pointer
  BY <1>3, PlaceFacts
<1>5. /\ Address(place) = IF place < cap THEN place ELSE place - cap
      /\ Address(write_ptr) = IF write_ptr < cap THEN write_ptr ELSE write_ptr - cap
  BY <1>4, PointerFacts
<1> HIDE DEF place
<1>6. Address(place) # Address(write_ptr)
  BY <1>1, <1>2, <1>4, <1>5
<1> QED BY <1>6 DEF place

(* The places one after another, the first and the one behind the last.     *)
LEMMA Places ==
  ASSUME NEW p \in Pointer, NEW q \in Pointer
  PROVE  /\ (p - 1 + 1) % (2 * cap) = p
         /\ \A k \in 1 .. 2 * cap - 1 :
              (Following(p) - k + 1) % (2 * cap) = (p - (k + 1) + 1) % (2 * cap)
         /\ \A h \in 0 .. 2 * cap - 1 :
              h = (p - q) % (2 * cap) => (p - (h + 1) + 1) % (2 * cap) = q
<1>1. /\ cap \in Nat \ {0} /\ p \in 0 .. 2 * cap - 1 /\ q \in 0 .. 2 * cap - 1
  BY FifoAssumption DEF Pointer
<1>2. 1 \in 1 .. 2 * cap
  BY <1>1
<1>3. (p - 1 + 1) % (2 * cap) = p
  BY <1>1, <1>2, PlaceFacts
<1>4. ASSUME NEW k \in 1 .. 2 * cap - 1
      PROVE  (Following(p) - k + 1) % (2 * cap) = (p - (k + 1) + 1) % (2 * cap)
  <2>1. /\ k \in 1 .. 2 * cap /\ k + 1 \in 1 .. 2 * cap
        /\ Following(p) = IF p = 0 THEN 2 * cap - 1 ELSE p - 1
        /\ Following(p) \in Pointer
    BY <1>1, PointerFacts
  <2> DEFINE f == Following(p)
  <2>2. (f - k + 1) % (2 * cap) = IF k > f + 1 THEN f - k + 1 + 2 * cap ELSE f - k + 1
    BY <2>1, PlaceFacts
  <2>3. (p - (k + 1) + 1) % (2 * cap)
          = IF k + 1 > p + 1 THEN p - (k + 1) + 1 + 2 * cap ELSE p - (k + 1) + 1
    BY <2>1, PlaceFacts
  <2>4. f = IF p = 0 THEN 2 * cap - 1 ELSE p - 1
    BY <2>1
  <2> HIDE DEF f
  <2>5. (IF k > f + 1 THEN f - k + 1 + 2 * cap ELSE f - k + 1)
          = IF k + 1 > p + 1 THEN p - (k + 1) + 1 + 2 * cap ELSE p - (k + 1) + 1
    BY <1>1, <2>4
  <2> QED BY <2>2, <2>3, <2>5 DEF f
<1>5. ASSUME NEW h \in 0 .. 2 * cap - 1, h = (p - q) % (2 * cap)
      PROVE  (p - (h + 1) + 1) % (2 * cap) = q
  <2>1. h + 1 \in 1 .. 2 * cap
    BY <1>1
  <2>2. (p - (h + 1) + 1) % (2 * cap)
          = IF h + 1 > p + 1 THEN p - (h + 1) + 1 + 2 * cap ELSE p - (h + 1) + 1
    BY <2>1, PlaceFacts
  <2>3. h = IF p >= q THEN p - q ELSE p - q + 2 * cap
    BY <1>5, Distance
  <2>4. (IF h + 1 > p + 1 THEN p - (h + 1) + 1 + 2 * cap ELSE p - (h + 1) + 1) = q
    BY <1>1, <2>3
  <2> QED BY <2>2, <2>4
<1> QED BY <1>3, <1>4, <1>5

QueuedIs ==
  /\ Queued \in Seq(Content) /\ Len(Queued) = Held
  /\ \A k \in 1 .. Held : Queued[k] = queue[Address((read_ptr - k + 1) % (2 * cap))]
  /\ Queued # <<>> <=> Held # 0
  /\ Promised!Shows(Queued, output_buffer_r)

LEMMA QueuedFacts == FifoIInv => QueuedIs
<1> SUFFICES ASSUME FifoIInv PROVE QueuedIs
  OBVIOUS
<1>1. Held \in 0 .. cap /\ Held \in Nat /\ cap \in Nat \ {0}
  BY Flags, FifoAssumption DEF FifoIInv
<1>2. \A k \in 1 .. Held : queue[Address((read_ptr - k + 1) % (2 * cap))] \in Content
  <2> TAKE k \in 1 .. Held
  <2>1. k \in 1 .. 2 * cap
    BY <1>1
  <2>2. (read_ptr - k + 1) % (2 * cap) \in Pointer
    BY <2>1, PlaceFacts DEF FifoIInv
  <2>3. Address((read_ptr - k + 1) % (2 * cap)) \in Slot
    BY <2>2, PointerFacts
  <2> QED BY <2>3 DEF FifoIInv
<1>3. Queued \in [1 .. Held -> Content]
  BY <1>2 DEF Queued
<1>4. Queued \in Seq(Content) /\ Len(Queued) = Held
  BY <1>1, <1>3
<1>5. \A k \in 1 .. Held : Queued[k] = queue[Address((read_ptr - k + 1) % (2 * cap))]
  BY DEF Queued
<1>6. Queued # <<>> <=> Held # 0
  BY <1>4, EmptySeq
<1>7. ASSUME Held # 0 PROVE Queued[1] = queue[Address(read_ptr)]
  <2>1. 1 \in 1 .. Held
    BY <1>1, <1>7
  <2>2. (read_ptr - 1 + 1) % (2 * cap) = read_ptr
    BY Places DEF FifoIInv
  <2> QED BY <1>5, <2>1, <2>2
<1>8. Promised!Shows(Queued, output_buffer_r)
  BY <1>4, <1>6, <1>7 DEF Promised!Shows, FifoIInv
<1> QED BY <1>4, <1>5, <1>6, <1>8 DEF QueuedIs

-----------------------------------------------------------------------------

LEMMA FifoInitIInv == FifoInit => FifoIInv /\ Promised!QueueInit
<1> SUFFICES ASSUME FifoInit PROVE FifoIInv /\ Promised!QueueInit
  OBVIOUS
<1>1. read_ptr \in Pointer /\ write_ptr \in Pointer /\ Held = 0
  BY FifoAssumption, Distance DEF FifoInit, Pointer, Held
<1>2. FifoIInv
  BY <1>1, FifoAssumption DEF FifoInit, FifoIInv, Content
<1>3. Queued = <<>>
  BY <1>1, <1>2, QueuedFacts DEF QueuedIs
<1> QED BY <1>2, <1>3 DEF Promised!QueueInit

LEMMA FifoResetStep ==
  ASSUME FifoIInv, FifoReset
  PROVE  FifoIInv' /\ Promised!Clear
<1>1. read_ptr' \in Pointer /\ write_ptr' \in Pointer /\ Held' = 0
  BY FifoAssumption, Distance DEF FifoReset, Pointer, Held
<1>2. FifoIInv'
  BY <1>1, FifoAssumption DEF FifoReset, FifoIInv, Content
<1>3. QueuedIs'
  BY <1>2, QueuedFacts, PTL
<1> QED BY <1>1, <1>2, <1>3 DEF QueuedIs, Promised!Clear

LEMMA DequeueStep ==
  ASSUME FifoIInv, Dequeue
  PROVE  FifoIInv' /\ Promised!Take
<1>1. /\ cap \in Nat \ {0} /\ read_ptr \in Pointer /\ write_ptr \in Pointer
      /\ Held \in 1 .. cap /\ write_ptr' = write_ptr /\ queue' = queue
      /\ read_ptr' = Following(read_ptr)
  BY Flags, FifoAssumption DEF Dequeue, FifoIInv
<1>2. /\ read_ptr' = IF read_ptr = 0 THEN 2 * cap - 1 ELSE read_ptr - 1
      /\ read_ptr' \in Pointer
  BY <1>1, PointerFacts
<1>3. Held' = Held - 1
  <2>1. Held = IF read_ptr >= write_ptr THEN read_ptr - write_ptr ELSE read_ptr - write_ptr + 2 * cap
    BY <1>1, Distance DEF Held
  <2>2. Held' = IF read_ptr' >= write_ptr THEN read_ptr' - write_ptr ELSE read_ptr' - write_ptr + 2 * cap
    BY <1>1, <1>2, Distance DEF Held
  <2> QED BY <1>1, <1>2, <2>1, <2>2 DEF Pointer
<1>4. FifoIInv'
  BY <1>1, <1>2, <1>3 DEF FifoIInv, Dequeue
<1>5. QueuedIs /\ QueuedIs'
  <2>1. QueuedIs
    BY QueuedFacts
  <2>2. QueuedIs'
    BY <1>4, QueuedFacts, PTL
  <2> QED BY <2>1, <2>2
<1>6. ASSUME NEW k \in 1 .. Held - 1
      PROVE  Queued'[k] = Queued[k + 1]
  <2>1. k \in 1 .. 2 * cap - 1 /\ k + 1 \in 1 .. Held /\ k \in 1 .. Held'
    BY <1>1, <1>3
  <2>2. (read_ptr' - k + 1) % (2 * cap) = (read_ptr - (k + 1) + 1) % (2 * cap)
    BY <1>1, <2>1, Places
  <2>3. Queued'[k] = queue[Address((read_ptr' - k + 1) % (2 * cap))]
    BY <1>1, <1>5, <2>1 DEF QueuedIs, Address
  <2>4. Queued[k + 1] = queue[Address((read_ptr - (k + 1) + 1) % (2 * cap))]
    BY <1>5, <2>1 DEF QueuedIs
  <2> QED BY <2>2, <2>3, <2>4
<1>7. Queued' = Tail(Queued)
  <2>1. Queued \in Seq(Content) /\ Queued # <<>> /\ Len(Queued) = Held
    BY <1>1, <1>5 DEF QueuedIs
  <2>2. /\ Tail(Queued) \in Seq(Content) /\ Len(Tail(Queued)) = Held - 1
        /\ \A k \in 1 .. Held - 1 : Tail(Queued)[k] = Queued[k + 1]
    BY <2>1, HeadTailProperties
  <2>3. Queued' \in Seq(Content) /\ Len(Queued') = Held - 1
    BY <1>3, <1>5 DEF QueuedIs, Content
  <2> QED BY <1>6, <2>2, <2>3, SeqEqual
<1> QED BY <1>1, <1>4, <1>5, <1>7 DEF QueuedIs, Promised!Take

LEMMA EnqueueStep ==
  ASSUME FifoIInv, NEW d \in word_t, Enqueue(d)
  PROVE  FifoIInv' /\ Promised!Put(d)
<1>1. /\ cap \in Nat \ {0} /\ read_ptr \in Pointer /\ write_ptr \in Pointer
      /\ Held \in 0 .. cap - 1 /\ read_ptr' = read_ptr
      /\ queue' = [queue EXCEPT ![Address(write_ptr)] = d]
      /\ write_ptr' = Following(write_ptr)
      /\ output_buffer_r' = IF Held = 0 THEN d ELSE output_buffer_r
      /\ queue \in [Slot -> Content] /\ Address(write_ptr) \in Slot
  BY Flags, FifoAssumption, PointerFacts DEF Enqueue, FifoIInv
<1>2. /\ write_ptr' = IF write_ptr = 0 THEN 2 * cap - 1 ELSE write_ptr - 1
      /\ write_ptr' \in Pointer
  BY <1>1, PointerFacts
<1>3. Held' = Held + 1
  <2>1. Held = IF read_ptr >= write_ptr THEN read_ptr - write_ptr ELSE read_ptr - write_ptr + 2 * cap
    BY <1>1, Distance DEF Held
  <2>2. Held' = IF read_ptr >= write_ptr' THEN read_ptr - write_ptr' ELSE read_ptr - write_ptr' + 2 * cap
    BY <1>1, <1>2, Distance DEF Held
  <2> QED BY <1>1, <1>2, <2>1, <2>2 DEF Pointer
<1>4. \A k \in 1 .. Held :
        queue'[Address((read_ptr - k + 1) % (2 * cap))] = queue[Address((read_ptr - k + 1) % (2 * cap))]
  BY <1>1, WritesBehind
<1>5. queue'[Address(write_ptr)] = d
  BY <1>1
<1>6. (read_ptr - (Held + 1) + 1) % (2 * cap) = write_ptr
  BY <1>1, Places DEF Held
<1>7. output_buffer_r' = queue'[Address(read_ptr)]
  <2>1. (read_ptr - 1 + 1) % (2 * cap) = read_ptr
    BY <1>1, Places
  <2>2. CASE Held = 0
    BY <1>1, <1>5, <1>6, <2>1, <2>2
  <2>3. CASE Held # 0
    <3>1. 1 \in 1 .. Held
      BY <1>1, <2>3
    <3> QED BY <1>1, <1>4, <2>1, <2>3, <3>1 DEF FifoIInv
  <2> QED BY <2>2, <2>3
<1>8. FifoIInv'
  BY <1>1, <1>2, <1>3, <1>7 DEF FifoIInv, Content, Address
<1>9. QueuedIs /\ QueuedIs'
  <2>1. QueuedIs
    BY QueuedFacts
  <2>2. QueuedIs'
    BY <1>8, QueuedFacts, PTL
  <2> QED BY <2>1, <2>2
<1>10. \A k \in 1 .. Held + 1 : Queued'[k] = queue'[Address((read_ptr - k + 1) % (2 * cap))]
  BY <1>1, <1>3, <1>9 DEF QueuedIs, Address
<1>11. Queued' = Append(Queued, d)
  <2>1. Queued \in Seq(Content) /\ Len(Queued) = Held /\ d \in Content
    BY <1>9 DEF QueuedIs, Content
  <2>2. /\ Append(Queued, d) \in Seq(Content) /\ Len(Append(Queued, d)) = Held + 1
        /\ \A k \in 1 .. Held : Append(Queued, d)[k] = Queued[k]
        /\ Append(Queued, d)[Held + 1] = d
    BY <2>1, AppendProperties
  <2>3. Queued' \in Seq(Content) /\ Len(Queued') = Held + 1
    BY <1>3, <1>9 DEF QueuedIs, Content
  <2>4. \A k \in 1 .. Held : Queued'[k] = Queued[k]
    <3> TAKE k \in 1 .. Held
    <3>1. k \in 1 .. Held + 1
      BY <1>1
    <3> QED BY <1>4, <1>9, <1>10, <3>1 DEF QueuedIs
  <2>5. Held + 1 \in 1 .. Held + 1
    BY <1>1
  <2>6. Queued'[Held + 1] = d
    BY <1>5, <1>6, <1>10, <2>5
  <2>7. \A k \in 1 .. Held + 1 : k \in 1 .. Held \/ k = Held + 1
    BY <1>1
  <2>8. \A k \in 1 .. Held + 1 : Queued'[k] = Append(Queued, d)[k]
    BY <2>2, <2>4, <2>6, <2>7
  <2> QED BY <2>2, <2>3, <2>8, SeqEqual
<1> QED BY <1>1, <1>8, <1>9, <1>11 DEF QueuedIs, Promised!Put

LEMMA DequeueAndEnqueueStep ==
  ASSUME FifoIInv, NEW d \in word_t, DequeueAndEnqueue(d)
  PROVE  FifoIInv' /\ Promised!PutAndTake(d)
<1>1. /\ cap \in Nat \ {0} /\ read_ptr \in Pointer /\ write_ptr \in Pointer
      /\ Held \in 1 .. cap - 1
      /\ queue' = [queue EXCEPT ![Address(write_ptr)] = d]
      /\ read_ptr' = Following(read_ptr) /\ write_ptr' = Following(write_ptr)
      /\ queue \in [Slot -> Content] /\ Address(write_ptr) \in Slot
  BY Flags, FifoAssumption, PointerFacts DEF DequeueAndEnqueue, FifoIInv
<1>2. /\ read_ptr' = IF read_ptr = 0 THEN 2 * cap - 1 ELSE read_ptr - 1
      /\ write_ptr' = IF write_ptr = 0 THEN 2 * cap - 1 ELSE write_ptr - 1
      /\ read_ptr' \in Pointer /\ write_ptr' \in Pointer /\ Address(read_ptr') \in Slot
  BY <1>1, PointerFacts
<1>3. Held' = Held
  <2>1. Held = IF read_ptr >= write_ptr THEN read_ptr - write_ptr ELSE read_ptr - write_ptr + 2 * cap
    BY <1>1, Distance DEF Held
  <2>2. Held' = IF read_ptr' >= write_ptr' THEN read_ptr' - write_ptr' ELSE read_ptr' - write_ptr' + 2 * cap
    BY <1>1, <1>2, Distance DEF Held
  <2> QED BY <1>1, <1>2, <2>1, <2>2 DEF Pointer
<1>4. \A k \in 1 .. Held :
        queue'[Address((read_ptr - k + 1) % (2 * cap))] = queue[Address((read_ptr - k + 1) % (2 * cap))]
  BY <1>1, WritesBehind
<1>5. queue'[Address(write_ptr)] = d
  BY <1>1
<1>6. (read_ptr - (Held + 1) + 1) % (2 * cap) = write_ptr
  BY <1>1, Places DEF Held
<1>7. output_buffer_r' = queue'[Address(read_ptr')]
  BY <1>1, <1>2 DEF DequeueAndEnqueue, Bypassed
<1>8. FifoIInv'
  BY <1>1, <1>2, <1>3, <1>7 DEF FifoIInv, Content, Address
<1>9. QueuedIs /\ QueuedIs'
  <2>1. QueuedIs
    BY QueuedFacts
  <2>2. QueuedIs'
    BY <1>8, QueuedFacts, PTL
  <2> QED BY <2>1, <2>2
<1>10. \A k \in 1 .. Held : Queued'[k] = queue'[Address((read_ptr - (k + 1) + 1) % (2 * cap))]
  <2> TAKE k \in 1 .. Held
  <2>1. k \in 1 .. 2 * cap - 1
    BY <1>1
  <2>2. (read_ptr' - k + 1) % (2 * cap) = (read_ptr - (k + 1) + 1) % (2 * cap)
    BY <1>1, <2>1, Places
  <2>3. Queued'[k] = queue'[Address((read_ptr' - k + 1) % (2 * cap))]
    BY <1>3, <1>9 DEF QueuedIs, Address
  <2> QED BY <2>2, <2>3
<1>11. Queued' = Append(Tail(Queued), d)
  <2>1. Queued \in Seq(Content) /\ Queued # <<>> /\ Len(Queued) = Held /\ d \in Content
    BY <1>1, <1>9 DEF QueuedIs, Content
  <2>2. /\ Tail(Queued) \in Seq(Content) /\ Len(Tail(Queued)) = Held - 1
        /\ \A k \in 1 .. Held - 1 : Tail(Queued)[k] = Queued[k + 1]
    BY <2>1, HeadTailProperties
  <2>3. /\ Append(Tail(Queued), d) \in Seq(Content)
        /\ Len(Append(Tail(Queued), d)) = (Held - 1) + 1
        /\ \A k \in 1 .. Held - 1 : Append(Tail(Queued), d)[k] = Tail(Queued)[k]
        /\ Append(Tail(Queued), d)[(Held - 1) + 1] = d
    BY <2>1, <2>2, AppendProperties
  <2>4. (Held - 1) + 1 = Held
    BY <1>1
  <2>5. Queued' \in Seq(Content) /\ Len(Queued') = Held
    BY <1>3, <1>9 DEF QueuedIs, Content
  <2>6. \A k \in 1 .. Held - 1 : Queued'[k] = Queued[k + 1]
    <3> TAKE k \in 1 .. Held - 1
    <3>1. k \in 1 .. Held /\ k + 1 \in 1 .. Held
      BY <1>1
    <3> QED BY <1>4, <1>9, <1>10, <3>1 DEF QueuedIs
  <2>7. Held \in 1 .. Held
    BY <1>1
  <2>8. Queued'[Held] = d
    BY <1>5, <1>6, <1>10, <2>7
  <2>9. \A k \in 1 .. Held : k \in 1 .. Held - 1 \/ k = Held
    BY <1>1
  <2>10. \A k \in 1 .. Held : Queued'[k] = Append(Tail(Queued), d)[k]
    BY <2>2, <2>3, <2>4, <2>6, <2>8, <2>9
  <2> QED BY <2>3, <2>4, <2>5, <2>10, SeqEqual
<1> QED BY <1>1, <1>8, <1>9, <1>11 DEF QueuedIs, Promised!PutAndTake

LEMMA FifoNextIInv ==
  ASSUME FifoIInv, [FifoNext]_fifoVars
  PROVE  FifoIInv' /\ [Promised!QueueNext]_(Promised!boundedQueueVars)
<1>1. CASE UNCHANGED fifoVars
  BY <1>1 DEF fifoVars, FifoIInv, Held, Queued, Address, Promised!boundedQueueVars
<1>2. CASE FifoNext
  <2>1. FifoIInv' /\ Promised!QueueStep
    BY <1>2, FifoResetStep, DequeueStep, EnqueueStep, DequeueAndEnqueueStep
       DEF FifoNext, Promised!QueueStep
  <2>2. QueuedIs'
    BY <2>1, QueuedFacts, PTL
  <2> QED BY <2>1, <2>2 DEF QueuedIs, Promised!QueueNext
<1> QED BY <1>1, <1>2

(* For every number of words the queue is first in, first out, holds        *)
(* what was put until it is taken, and shows the first word that waits      *)
(* (fifo.sv:53-91).                                                         *)
THEOREM FifoQueue == FifoSpec => ImplementsQueue
<1>1. FifoInit => Promised!QueueInit
  BY FifoInitIInv
<1>2. FifoInit => FifoIInv
  BY FifoInitIInv
<1>3. FifoIInv /\ [FifoNext]_fifoVars
        => FifoIInv' /\ [Promised!QueueNext]_(Promised!boundedQueueVars)
  BY FifoNextIInv
<1> QED BY <1>1, <1>2, <1>3, PTL DEF FifoSpec, ImplementsQueue, Promised!QueueSpec

-----------------------------------------------------------------------------
(* The multiplier.                                                          *)

(* A power of two counts the subsets of an interval.                        *)
LEMMA PowerNat ==
  ASSUME NEW n \in Nat
  PROVE  2 ^ n \in Nat \ {0} /\ IsFiniteSet(1 .. n) /\ Cardinality(SUBSET (1 .. n)) = 2 ^ n
<1>1. IsFiniteSet(1 .. n) /\ Cardinality(1 .. n) = n
  BY FS_Interval
<1>2. IsFiniteSet(SUBSET (1 .. n)) /\ Cardinality(SUBSET (1 .. n)) = 2 ^ n
  BY <1>1, FS_SUBSET
<1>3. SUBSET (1 .. n) # {}
  OBVIOUS
<1>4. Cardinality(SUBSET (1 .. n)) \in Nat \ {0}
  BY <1>2, <1>3, FS_EmptySet, FS_CardinalityType
<1> QED BY <1>1, <1>2, <1>4

LEMMA PowerDoubles ==
  ASSUME NEW n \in Nat
  PROVE  2 ^ (n + 1) = 2 * 2 ^ n
<1> DEFINE S == SUBSET (1 .. n)
           T == {s \union {n + 1} : s \in S}
           f == [s \in S |-> s \union {n + 1}]
<1>1. n + 1 \in Nat /\ n + 1 \notin 1 .. n
  OBVIOUS
<1>2. IsFiniteSet(S) /\ Cardinality(S) = 2 ^ n /\ Cardinality(S) \in Nat
  BY PowerNat, FS_SUBSET, FS_CardinalityType
<1>3. f \in Bijection(S, T)
  <2>1. f \in [S -> T]
    OBVIOUS
  <2>2. \A s, t \in S : f[s] = f[t] => s = t
    BY <1>1
  <2>3. \A t \in T : \E s \in S : f[s] = t
    OBVIOUS
  <2> QED BY <2>1, <2>2, <2>3, Fun_IsBij
<1>4. IsFiniteSet(T) /\ Cardinality(T) = 2 ^ n
  BY <1>2, <1>3, FS_Bijection, Fun_ExistsBij
<1>5. SUBSET (1 .. n + 1) = S \union T
  <2>1. ASSUME NEW x \in SUBSET (1 .. n + 1) PROVE x \in S \union T
    <3>1. CASE n + 1 \in x
      <4>1. x \ {n + 1} \in S /\ x = (x \ {n + 1}) \union {n + 1}
        BY <3>1
      <4> QED BY <4>1
    <3>2. CASE n + 1 \notin x
      BY <3>2
    <3> QED BY <3>1, <3>2
  <2>2. ASSUME NEW x \in S \union T PROVE x \in SUBSET (1 .. n + 1)
    OBVIOUS
  <2> QED BY <2>1, <2>2
<1>6. S \intersect T = {}
  BY <1>1
<1>7. Cardinality(S \union T) = Cardinality(S) + Cardinality(T) - Cardinality(S \intersect T)
  BY <1>2, <1>4, FS_Union
<1>8. Cardinality({}) = 0
  BY FS_EmptySet
<1>9. Cardinality(SUBSET (1 .. n + 1)) = 2 ^ (n + 1)
  BY <1>1, PowerNat
<1>10. Cardinality(S \union T) = 2 ^ (n + 1)
  BY <1>5, <1>9
<1>11. Cardinality(S \intersect T) = 0
  BY <1>6, <1>8
<1> DEFINE c == Cardinality(S \union T)
           d == Cardinality(S \intersect T)
           e == Cardinality(S)
           g == Cardinality(T)
<1>12. c = e + g - d /\ d = 0 /\ e = g /\ e \in Nat
  BY <1>2, <1>4, <1>7, <1>11
<1> HIDE DEF c, d, e, g
<1>13. c = 2 * e
  BY <1>12
<1> QED BY <1>2, <1>10, <1>13 DEF c, e

(* Division is the one way to write a number as a multiple and a rest.      *)
LEMMA DivMod ==
  ASSUME NEW x \in Int, NEW n \in Nat \ {0}
  PROVE  x = (x \div n) * n + (x % n) /\ x % n \in 0 .. n - 1 /\ x \div n \in Int
OBVIOUS

LEMMA OneQuotient ==
  ASSUME NEW n \in Nat \ {0}, NEW q \in Int, NEW q2 \in Int, NEW r \in 0 .. n - 1, NEW r2 \in 0 .. n - 1,
         q * n + r = q2 * n + r2
  PROVE  q = q2 /\ r = r2
<1>1. (q - q2) * n = r2 - r
  OBVIOUS
<1>2. q - q2 < 1
  <2> SUFFICES ASSUME q - q2 >= 1 PROVE FALSE
    OBVIOUS
  <2>1. (q - q2) * n >= n
    OBVIOUS
  <2> QED BY <1>1, <2>1
<1>3. q2 - q < 1
  <2> SUFFICES ASSUME q2 - q >= 1 PROVE FALSE
    OBVIOUS
  <2>1. (q2 - q) * n >= n
    OBVIOUS
  <2> QED BY <1>1, <2>1
<1>4. q = q2
  BY <1>2, <1>3
<1> QED BY <1>4

Splits(x, n, q, r) == x = q * n + r /\ r \in 0 .. n - 1

LEMMA DivModUnique ==
  ASSUME NEW n \in Nat \ {0}, NEW q \in Int, NEW r \in Int, NEW x \in Int, Splits(x, n, q, r)
  PROVE  x \div n = q /\ x % n = r
<1>1. x = (x \div n) * n + (x % n) /\ x % n \in 0 .. n - 1 /\ x \div n \in Int
  BY DivMod
<1> DEFINE d == x \div n
           m == x % n
<1>2. d * n + m = q * n + r /\ d \in Int /\ m \in 0 .. n - 1 /\ r \in 0 .. n - 1
  BY <1>1 DEF Splits
<1> HIDE DEF d, m
<1>3. d = q /\ m = r
  BY <1>2, OneQuotient
<1> QED BY <1>3 DEF d, m

LEMMA Halves ==
  ASSUME NEW x \in Int
  PROVE  x = 2 * (x \div 2) + (x % 2) /\ x % 2 \in {0,1} /\ x \div 2 \in Int
OBVIOUS

LEMMA Shorter ==
  ASSUME NEW x \in Int, NEW y \in Int, NEW q \in Int, NEW r \in Int, 2 * x + q = 2 * y + r
  PROVE  q % 2 = r % 2 /\ x + (q \div 2) = y + (r \div 2)
OBVIOUS

ShiftKeeps(whole, l, q, g) ==
  ((whole \div 2) * (2 * g)) + ((l % 2) * g + (q \div 2)) = (whole * g) + (q \div 2)

(* A shift halves the whole.                                                *)
LEMMA RoundShifts ==
  ASSUME NEW c \in Int, NEW l \in Int, NEW q \in Int, NEW g \in Int
  PROVE  ShiftKeeps(c * (2 * g) + l, l, q, g)
<1> DEFINE whole == c * (2 * g) + l
<1>1. whole = 2 * (c * g) + l /\ c * g \in Int
  OBVIOUS
<1>2. whole % 2 = l % 2 /\ whole \in Int
  BY <1>1
<1>3. whole = 2 * (whole \div 2) + (whole % 2) /\ whole \div 2 \in Int /\ whole % 2 \in Int
  BY <1>2, Halves
<1> DEFINE d == whole \div 2
           e == whole % 2
<1>4. whole = 2 * d + e /\ d \in Int /\ e \in Int
  BY <1>3
<1> HIDE DEF d, e, whole
<1>5. d * (2 * g) + e * g = whole * g
  BY <1>4
<1> QED BY <1>2, <1>5 DEF d, e, whole, ShiftKeeps

-----------------------------------------------------------------------------

(* The rounds that are done and those that are left share the width, the    *)
(* multiplicand stays, and done_o is not raised before the last.            *)
Running ==
  /\ ms.iteration < width_p
  /\ 2 ^ ms.iteration * 2 ^ (width_p - ms.iteration) = 2 ^ width_p
  /\ ms.M = accepted[1]

MultiplierIInv ==
  /\ MultiplierInv
  /\ ms.op \in {"ADD", "SHIFT"} => Running
  /\ ms.done => ms.op = "DONE"

LEMMA Widths ==
  ASSUME NEW n \in 0 .. width_p - 1
  PROVE  /\ 2 ^ width_p = 2 * 2 ^ (width_p - 1)
         /\ 2 ^ (width_p - n) = 2 * 2 ^ (width_p - (n + 1))
         /\ 2 ^ (n + 1) = 2 * 2 ^ n
         /\ 2 ^ width_p \in Nat \ {0} /\ 2 ^ (width_p - 1) \in Nat \ {0}
         /\ 2 ^ (width_p - n) \in Nat \ {0} /\ 2 ^ (width_p - (n + 1)) \in Nat \ {0}
         /\ 2 ^ n \in Nat \ {0} /\ 2 ^ (n + 1) \in Nat \ {0}
<1>1. /\ width_p \in Nat /\ width_p - 1 \in Nat /\ n \in Nat /\ n + 1 \in Nat
      /\ width_p - n \in Nat /\ width_p - (n + 1) \in Nat
      /\ width_p = (width_p - 1) + 1 /\ width_p - n = (width_p - (n + 1)) + 1
  BY MultiplierAssumption
<1>2. 2 ^ ((width_p - 1) + 1) = 2 * 2 ^ (width_p - 1)
  BY <1>1, PowerDoubles
<1>3. 2 ^ ((width_p - (n + 1)) + 1) = 2 * 2 ^ (width_p - (n + 1))
  BY <1>1, PowerDoubles
<1>4. 2 ^ (n + 1) = 2 * 2 ^ n
  BY <1>1, PowerDoubles
<1> QED BY <1>1, <1>2, <1>3, <1>4, PowerNat

Balance(n, high, q, a, t, rest) ==
  high * 2 ^ width_p + q = a * t * 2 ^ (width_p - n) + rest

HalfBalance(n, high, q, a, t, rest) ==
  (high * 2 ^ (width_p - 1)) + (q \div 2) = (a * t * 2 ^ (width_p - (n + 1))) + (rest \div 2)

(* The bit that a round looks at is the next bit of the multiplier.         *)
LEMMA NextBit ==
  ASSUME NEW n \in 0 .. width_p - 1, NEW high \in Nat, NEW q \in Nat, NEW a \in Nat,
         NEW t \in Nat, NEW rest \in Nat,
         Balance(n, high, q, a, t, rest)
  PROVE  q % 2 = rest % 2 /\ HalfBalance(n, high, q, a, t, rest)
<1> DEFINE g == 2 ^ (width_p - 1)
           u == 2 ^ (width_p - (n + 1))
<1>1. /\ g \in Nat /\ u \in Nat
      /\ high * (2 * g) + q = a * t * (2 * u) + rest
  BY Widths DEF Balance
<1> HIDE DEF g, u
<1>2. 2 * (high * g) + q = 2 * (a * t * u) + rest
  BY <1>1
<1>3. high * g \in Int /\ a * t * u \in Int
  BY <1>1
<1> DEFINE x == high * g
           y == a * t * u
<1>4. x \in Int /\ y \in Int /\ 2 * x + q = 2 * y + rest
  BY <1>2, <1>3
<1> HIDE DEF x, y
<1>5. q % 2 = rest % 2 /\ x + (q \div 2) = y + (rest \div 2)
  BY <1>4, Shorter
<1> QED BY <1>5 DEF x, y, g, u, HalfBalance

LEMMA AddRound ==
  ASSUME NEW m \in mstate_s, NEW a \in Operand, NEW b \in Operand,
         m.iteration < width_p, m.M = a,
         2 ^ m.iteration * 2 ^ (width_p - m.iteration) = 2 ^ width_p,
         m.A * 2 ^ width_p + m.Q
           = a * (b % 2 ^ m.iteration) * 2 ^ (width_p - m.iteration) + (b \div 2 ^ m.iteration)
  PROVE  LET k    == ms_add(m)
             rest == b \div 2 ^ m.iteration
         IN  /\ k \in mstate_s /\ k.op = "SHIFT"
             /\ k.iteration = m.iteration /\ k.M = m.M /\ k.done = m.done
             /\ (k.C * 2 ^ width_p + k.A) * 2 ^ width_p + k.Q
                  = a * ((b % 2 ^ m.iteration) + (rest % 2) * 2 ^ m.iteration)
                      * 2 ^ (width_p - m.iteration) + rest
<1> DEFINE n == m.iteration
           w == 2 ^ width_p
           p == 2 ^ n
           u == 2 ^ (width_p - n)
           seen == b % p
           rest == b \div p
<1>1. n \in 0 .. width_p - 1 /\ w \in Nat \ {0} /\ p \in Nat \ {0} /\ u \in Nat \ {0}
  <2>1. n \in 0 .. width_p - 1
    BY MultiplierAssumption DEF mstate_s
  <2> QED BY <2>1, Widths
<1>2. /\ a \in Nat /\ b \in Nat /\ m.A \in Nat /\ m.Q \in Nat /\ m.C \in {0, 1}
      /\ a < w /\ m.A < w /\ m.M = a
  BY <1>1 DEF mstate_s, Operand
<1>3. seen \in Nat /\ rest \in Nat
  BY <1>1, <1>2
<1>4. m.A * w + m.Q = a * seen * u + rest /\ w = p * u
  OBVIOUS
<1> HIDE DEF seen, rest, n
<1>5. m.Q % 2 = rest % 2 /\ rest % 2 \in {0, 1}
  <2>1. Balance(n, m.A, m.Q, a, seen, rest)
    BY <1>4 DEF Balance
  <2> DEFINE h == m.A
             q == m.Q
  <2>2. h \in Nat /\ q \in Nat /\ a \in Nat /\ Balance(n, h, q, a, seen, rest)
    BY <1>2, <2>1
  <2> HIDE DEF h, q, w, p, u
  <2>4. q % 2 = rest % 2 /\ HalfBalance(n, h, q, a, seen, rest)
    BY <1>1, <1>3, <2>2, NextBit
  <2>3. rest % 2 \in {0, 1}
    BY <1>3
  <2> QED BY <2>3, <2>4 DEF q
<1> HIDE DEF w, p, u
<1>6. CASE m.Q % 2 = 1
  <2> DEFINE sum == m.A + a
  <2>1. /\ sum = (sum \div w) * w + (sum % w) /\ sum % w \in 0 .. w - 1 /\ sum \div w \in Int
    <3>1. sum \in Int
      BY <1>2
    <3> HIDE DEF sum
    <3> QED BY <1>1, <3>1, DivMod
  <2>2. sum \div w \in {0, 1}
    <3> DEFINE d == sum \div w
               e == sum % w
    <3>1. m.A + a = d * w + e /\ e \in 0 .. w - 1 /\ d \in Int
      BY <2>1
    <3>2. m.A + a >= 0 /\ m.A + a < 2 * w
      BY <1>1, <1>2
    <3> HIDE DEF d, e, sum
    <3>3. d < 2
      <4> SUFFICES ASSUME d >= 2 PROVE FALSE
        BY <3>1
      <4>1. d * w >= 2 * w
        BY <1>1, <3>1
      <4> QED BY <1>1, <3>1, <3>2, <4>1
    <3>4. d >= 0
      <4> SUFFICES ASSUME d <= -1 PROVE FALSE
        BY <3>1
      <4>1. d * w <= -w
        BY <1>1, <3>1
      <4> QED BY <1>1, <3>1, <3>2, <4>1
    <3>5. d \in {0, 1}
      BY <3>1, <3>3, <3>4
    <3> QED BY <3>5 DEF d
  <2>3. ms_add(m) = [m EXCEPT !.op = "SHIFT", !.C = sum \div w, !.A = sum % w]
    BY <1>2, <1>6 DEF ms_add, CarryOut, w
  <2>4. sum * w + m.Q = a * (seen + 1 * p) * u + rest
    <3> DEFINE h == m.A
               q == m.Q
    <3>1. h \in Nat /\ q \in Nat /\ h * w + q = a * seen * u + rest
      BY <1>2, <1>4
    <3>2. sum = h + a
      OBVIOUS
    <3> HIDE DEF h, q, sum
    <3>3. (h + a) * w = h * w + a * w
      BY <1>1, <1>2, <3>1
    <3>4. a * (seen + 1 * p) * u = a * seen * u + a * (p * u)
      BY <1>1, <1>2, <1>3
    <3>5. a * w = a * (p * u)
      BY <1>4
    <3>6. a * w \in Int /\ h * w \in Int /\ a * seen * u \in Int
      BY <1>1, <1>2, <1>3, <3>1
    <3> DEFINE hw == h * w
               aw == a * w
               before == a * seen * u
               after == a * (seen + 1 * p) * u
               sw == (h + a) * w
    <3>7. /\ hw \in Int /\ aw \in Int /\ before \in Int /\ q \in Int /\ rest \in Int
          /\ hw + q = before + rest /\ sw = hw + aw /\ after = before + aw
      BY <1>3, <3>1, <3>3, <3>4, <3>5, <3>6
    <3> HIDE DEF hw, aw, before, after, sw
    <3>8. sw + q = after + rest
      BY <3>7
    <3> QED BY <3>2, <3>8 DEF q, sw, after
  <2>5. ms_add(m) \in mstate_s
    BY <2>1, <2>2, <2>3 DEF mstate_s, Operand, w
  <2>6. (ms_add(m).C * w + ms_add(m).A) * w + ms_add(m).Q = a * (seen + (rest % 2) * p) * u + rest
    <3>1. ms_add(m).C = sum \div w /\ ms_add(m).A = sum % w /\ ms_add(m).Q = m.Q
      BY <2>3 DEF mstate_s
    <3>2. ms_add(m).C * w + ms_add(m).A = sum
      BY <2>1, <3>1
    <3>3. rest % 2 = 1
      BY <1>5, <1>6
    <3> QED BY <2>4, <3>1, <3>2, <3>3
  <2> QED BY <2>3, <2>5, <2>6 DEF mstate_s, w, p, u, seen, rest, n
<1>7. CASE m.Q % 2 # 1
  <2>1. ms_add(m) = [m EXCEPT !.op = "SHIFT", !.C = 0]
    BY <1>7 DEF ms_add
  <2>2. ms_add(m) \in mstate_s
    BY <2>1 DEF mstate_s
  <2>3. rest % 2 = 0
    BY <1>5, <1>7
  <2>4. (0 * w + m.A) * w + m.Q = a * (seen + 0 * p) * u + rest
    BY <1>1, <1>2, <1>3, <1>4
  <2>5. (ms_add(m).C * w + ms_add(m).A) * w + ms_add(m).Q = a * (seen + (rest % 2) * p) * u + rest
    <3>1. ms_add(m).C = 0 /\ ms_add(m).A = m.A /\ ms_add(m).Q = m.Q
      BY <2>1 DEF mstate_s
    <3> QED BY <2>3, <2>4, <3>1
  <2> QED BY <2>1, <2>2, <2>5 DEF mstate_s, w, p, u, seen, rest, n
<1> QED BY <1>6, <1>7

LEMMA ShiftRound ==
  ASSUME NEW m \in mstate_s, NEW a \in Operand, NEW b \in Operand,
         m.iteration < width_p,
         2 ^ m.iteration * 2 ^ (width_p - m.iteration) = 2 ^ width_p,
         (m.C * 2 ^ width_p + m.A) * 2 ^ width_p + m.Q
           = a * ((b % 2 ^ m.iteration) + ((b \div 2 ^ m.iteration) % 2) * 2 ^ m.iteration)
               * 2 ^ (width_p - m.iteration) + (b \div 2 ^ m.iteration)
  PROVE  LET k == ms_shift(m)
             n == m.iteration + 1
         IN  /\ k \in mstate_s /\ k.iteration = n /\ k.M = m.M
             /\ k.op = IF n = width_p THEN "DONE" ELSE "ADD"
             /\ k.done = (n = width_p \/ m.done)
             /\ 2 ^ n * 2 ^ (width_p - n) = 2 ^ width_p
             /\ k.A * 2 ^ width_p + k.Q
                  = a * (b % 2 ^ n) * 2 ^ (width_p - n) + (b \div 2 ^ n)
<1> DEFINE n == m.iteration
           w == 2 ^ width_p
           g == 2 ^ (width_p - 1)
           p == 2 ^ n
           u == 2 ^ (width_p - (n + 1))
           seen == b % p
           rest == b \div p
           t == seen + (rest % 2) * p
           whole == m.C * w + m.A
<1>1. /\ n \in 0 .. width_p - 1
      /\ g \in Nat \ {0} /\ p \in Nat \ {0} /\ u \in Nat \ {0}
      /\ w = 2 * g /\ 2 ^ (n + 1) = 2 * p /\ 2 ^ (width_p - n) = 2 * u
  <2>1. n \in 0 .. width_p - 1
    BY MultiplierAssumption DEF mstate_s
  <2> QED BY <2>1, Widths
<1>2. /\ a \in Nat /\ b \in Nat /\ m.A \in Nat /\ m.Q \in Nat /\ m.C \in {0, 1}
      /\ m.A < w /\ m.Q < w
  BY <1>1 DEF mstate_s, Operand
<1>3. /\ b = rest * p + seen /\ seen \in 0 .. p - 1 /\ rest \in Nat /\ seen \in Nat
      /\ rest = 2 * (rest \div 2) + (rest % 2) /\ rest % 2 \in {0, 1} /\ rest \div 2 \in Nat
  <2> HIDE DEF p
  <2>1. b = rest * p + seen /\ seen \in 0 .. p - 1 /\ rest \in Int
    <3>1. b \in Int /\ p \in Nat \ {0}
      BY <1>1, <1>2
    <3> QED BY <3>1, DivMod, Zenon
  <2>2. rest \in Nat
    BY <1>1, <1>2
  <2> HIDE DEF rest, seen
  <2>3. rest = 2 * (rest \div 2) + (rest % 2) /\ rest % 2 \in {0, 1} /\ rest \div 2 \in Int
    BY <2>2, Halves
  <2> QED BY <1>1, <2>1, <2>2, <2>3
<1>4. t \in Nat /\ whole \in Nat
  <2> HIDE DEF rest, seen, p, w, g
  <2>1. (rest % 2) * p \in Nat
    BY <1>1, <1>3
  <2> QED BY <1>1, <1>2, <1>3, <2>1
<1>5. whole * w + m.Q = a * t * 2 ^ (width_p - n) + rest
  OBVIOUS
<1>6. (whole * g) + (m.Q \div 2) = (a * t * u) + (rest \div 2)
  <2>1. Balance(n, whole, m.Q, a, t, rest)
    BY <1>5 DEF Balance
  <2> HIDE DEF t, whole, rest, seen, p, n
  <2>2. HalfBalance(n, whole, m.Q, a, t, rest)
    BY <1>1, <1>2, <1>3, <1>4, <2>1, NextBit
  <2> QED BY <2>2 DEF HalfBalance
(* The bits that were looked at now include the one of this round.          *)
<1>7. b % 2 ^ (n + 1) = t /\ b \div 2 ^ (n + 1) = rest \div 2
  <2> DEFINE r == rest % 2
             d == rest \div 2
  <2>1. /\ b = (2 * d + r) * p + seen /\ r \in {0, 1} /\ d \in Nat
    BY <1>3
  <2>2. t = seen + r * p
    OBVIOUS
  <2> HIDE DEF r, d, t
  <2> HIDE DEF p, seen
  <2>3. b = d * (2 * p) + t
    BY <1>1, <1>3, <2>1, <2>2
  <2>4. t \in 0 .. (2 * p) - 1
    <3>1. r * p \in {0, p}
      BY <1>1, <2>1
    <3>2. p \in Nat /\ seen \in Nat /\ seen < p
      BY <1>1, <1>3
    <3> DEFINE q == r * p
    <3> HIDE DEF q
    <3>3. q \in {0, p} /\ t = seen + q
      BY <2>2, <3>1 DEF q
    <3> QED BY <3>2, <3>3
  <2>5. 2 * p \in Nat \ {0} /\ d \in Int /\ b \in Int
    BY <1>1, <1>2, <2>1
  <2>6. b \div (2 * p) = d /\ b % (2 * p) = t
    <3> DEFINE double == 2 * p
    <3>1. Splits(b, double, d, t) /\ double \in Nat \ {0} /\ t \in Int
      BY <2>3, <2>4, <2>5 DEF Splits
    <3> HIDE DEF double
    <3>2. b \div double = d /\ b % double = t
      BY <2>5, <3>1, DivModUnique
    <3> QED BY <3>2 DEF double
  <2> QED BY <1>1, <2>6 DEF d
<1>8. /\ whole \div 2 \in Operand
      /\ (m.A % 2) * g + (m.Q \div 2) \in Operand
  BY <1>1, <1>2 DEF Operand
<1>9. ms_shift(m)
        = [m EXCEPT !.A = whole \div 2, !.Q = (m.A % 2) * g + (m.Q \div 2), !.iteration = n + 1,
                    !.op = IF n + 1 = width_p THEN "DONE" ELSE "ADD",
                    !.done = n + 1 = width_p \/ m.done, !.ready = n + 1 = width_p \/ m.ready]
  BY DEF ms_shift
<1> HIDE DEF t, whole, rest, seen, w, g, p, u
<1>10. /\ ms_shift(m).A = whole \div 2
       /\ ms_shift(m).Q = (m.A % 2) * g + (m.Q \div 2)
       /\ ms_shift(m).iteration = n + 1 /\ ms_shift(m).M = m.M
       /\ ms_shift(m).op = IF n + 1 = width_p THEN "DONE" ELSE "ADD"
       /\ ms_shift(m).done = (n + 1 = width_p \/ m.done)
  BY <1>9 DEF mstate_s
<1>11. ms_shift(m) \in mstate_s
  <2>1. n + 1 \in 0 .. width_p /\ (n + 1 = width_p) \in BOOLEAN
    BY <1>1, MultiplierAssumption
  <2>2. /\ (n + 1 = width_p \/ m.done) \in BOOLEAN
        /\ (n + 1 = width_p \/ m.ready) \in BOOLEAN
        /\ (IF n + 1 = width_p THEN "DONE" ELSE "ADD") \in {"NONE", "ADD", "SHIFT", "DONE"}
    BY DEF mstate_s
  <2> DEFINE last == n + 1 = width_p
  <2> HIDE DEF last, n
  <2> QED BY <1>8, <1>9, <2>1, <2>2 DEF mstate_s
<1>12. 2 ^ (n + 1) * 2 ^ (width_p - (n + 1)) = 2 ^ width_p
  <2>1. p * (2 * u) = w
    BY <1>1 DEF w, p
  <2>2. (2 * p) * u = w
    BY <1>1, <2>1
  <2> QED BY <1>1, <2>2 DEF u, w
<1>13. ((whole \div 2) * (2 * g)) + ((m.A % 2) * g + (m.Q \div 2)) = (whole * g) + (m.Q \div 2)
  <2>1. m.C \in Int /\ m.A \in Int /\ m.Q \in Int /\ g \in Int
    BY <1>1, <1>2
  <2>2. whole = m.C * (2 * g) + m.A
    BY <1>1 DEF whole
  <2>3. ShiftKeeps(m.C * (2 * g) + m.A, m.A, m.Q, g)
    BY <2>1, RoundShifts
  <2>4. ShiftKeeps(whole, m.A, m.Q, g)
    BY <2>2, <2>3
  <2> QED BY <2>4 DEF ShiftKeeps
<1>14. ms_shift(m).A * w + ms_shift(m).Q = (a * t * u) + (rest \div 2)
  BY <1>1, <1>6, <1>10, <1>13
<1> QED BY <1>7, <1>10, <1>11, <1>12, <1>14 DEF w, u

-----------------------------------------------------------------------------

LEMMA ResetFacts == 0 \in Operand /\ ms_reset \in mstate_s
<1>1. 2 ^ width_p \in Nat \ {0}
  BY MultiplierAssumption, PowerNat
<1>2. 0 \in Operand
  BY <1>1 DEF Operand
<1> QED BY <1>2, MultiplierAssumption DEF ms_reset, mstate_s

LEMMA MultiplierInitIInv == MultiplierInit => MultiplierIInv
<1> SUFFICES ASSUME MultiplierInit PROVE MultiplierIInv
  OBVIOUS
<1>1. MultiplierTypeOK
  BY ResetFacts DEF MultiplierInit, MultiplierTypeOK
<1>2. ms.op = "NONE" /\ ~ms.done
  BY DEF MultiplierInit, ms_reset
<1> QED BY <1>1, <1>2 DEF MultiplierIInv, MultiplierInv, PartialProduct

LEMMA MultiplierResetStep ==
  ASSUME MultiplierIInv, MultiplierReset
  PROVE  MultiplierIInv'
<1>1. MultiplierTypeOK'
  BY ResetFacts DEF MultiplierReset, MultiplierTypeOK, MultiplierIInv, MultiplierInv
<1>2. ms'.op = "NONE" /\ ~ms'.done
  BY DEF MultiplierReset, ms_reset
<1> QED BY <1>1, <1>2 DEF MultiplierIInv, MultiplierInv, PartialProduct

LEMMA StartStep ==
  ASSUME MultiplierIInv, NEW a \in Operand, NEW b \in Operand, Start(a, b)
  PROVE  MultiplierIInv'
<1>1. ms' = ms_init(a, b) /\ accepted' = <<a, b>>
  BY DEF Start
<1>2. ms_init(a, b) \in mstate_s
  BY ResetFacts, MultiplierAssumption DEF ms_init, mstate_s
<1>3. /\ ms'.op = "ADD" /\ ~ms'.done /\ ms'.iteration = 0 /\ ms'.M = a /\ ms'.A = 0 /\ ms'.Q = b
      /\ accepted'[1] = a /\ accepted'[2] = b
  BY <1>1 DEF ms_init
<1>4. MultiplierTypeOK'
  BY <1>1, <1>2 DEF MultiplierTypeOK
<1> DEFINE w == 2 ^ width_p
<1>5. w \in Nat \ {0} /\ a \in Nat /\ b \in Nat
  BY MultiplierAssumption, PowerNat DEF Operand
<1>6. 2 ^ 0 = 1
  OBVIOUS
<1>7. width_p - 0 = width_p /\ 0 < width_p
  BY MultiplierAssumption
<1>8. 2 ^ 0 * 2 ^ (width_p - 0) = 2 ^ width_p
  <2>1. 1 * w = w
    BY <1>5
  <2> QED BY <1>6, <1>7, <2>1
<1>9. 0 * 2 ^ width_p + b = a * (b % 2 ^ 0) * 2 ^ (width_p - 0) + (b \div 2 ^ 0)
  <2>1. 0 * w + b = a * 0 * w + b
    BY <1>5
  <2>2. b % 1 = 0 /\ b \div 1 = b
    BY <1>5
  <2> QED BY <1>6, <1>7, <2>1, <2>2
<1>10. PartialProduct'
  BY <1>3, <1>9 DEF PartialProduct
<1>11. Running'
  BY <1>3, <1>7, <1>8 DEF Running
<1> QED BY <1>3, <1>4, <1>10, <1>11 DEF MultiplierIInv, MultiplierInv

LEMMA AddStep ==
  ASSUME MultiplierIInv, ms.op = "ADD", ms' = ms_add(ms), UNCHANGED accepted
  PROVE  MultiplierIInv'
<1> DEFINE a == accepted[1]
           b == accepted[2]
<1>1. ms \in mstate_s /\ a \in Operand /\ b \in Operand /\ accepted \in Operand \X Operand
  BY DEF MultiplierIInv, MultiplierInv, MultiplierTypeOK
<1>2. Running /\ ~ms.done
  BY DEF MultiplierIInv
<1>3. ms.A * 2 ^ width_p + ms.Q
        = a * (b % 2 ^ ms.iteration) * 2 ^ (width_p - ms.iteration) + (b \div 2 ^ ms.iteration)
  BY DEF MultiplierIInv, MultiplierInv, PartialProduct
<1>4. LET k    == ms_add(ms)
          rest == b \div 2 ^ ms.iteration
      IN  /\ k \in mstate_s /\ k.op = "SHIFT"
          /\ k.iteration = ms.iteration /\ k.M = ms.M /\ k.done = ms.done
          /\ (k.C * 2 ^ width_p + k.A) * 2 ^ width_p + k.Q
               = a * ((b % 2 ^ ms.iteration) + (rest % 2) * 2 ^ ms.iteration)
                   * 2 ^ (width_p - ms.iteration) + rest
  <2> HIDE DEF a, b
  <2>1. /\ ms.iteration < width_p /\ ms.M = a
        /\ 2 ^ ms.iteration * 2 ^ (width_p - ms.iteration) = 2 ^ width_p
    BY <1>2 DEF Running, a
  <2> QED BY <1>1, <1>3, <2>1, AddRound
<1>5. MultiplierTypeOK'
  BY <1>1, <1>4 DEF MultiplierTypeOK
<1>6. PartialProduct'
  BY <1>2, <1>4 DEF PartialProduct, Partial
<1>7. Running'
  BY <1>2, <1>4 DEF Running
<1> QED BY <1>2, <1>4, <1>5, <1>6, <1>7 DEF MultiplierIInv, MultiplierInv

LEMMA ShiftStep ==
  ASSUME MultiplierIInv, ms.op = "SHIFT", ms' = ms_shift(ms), UNCHANGED accepted
  PROVE  MultiplierIInv'
<1> DEFINE a == accepted[1]
           b == accepted[2]
           n == ms.iteration + 1
<1>1. ms \in mstate_s /\ a \in Operand /\ b \in Operand /\ accepted \in Operand \X Operand
  BY DEF MultiplierIInv, MultiplierInv, MultiplierTypeOK
<1>2. Running /\ ~ms.done
  BY DEF MultiplierIInv
<1>3. (ms.C * 2 ^ width_p + ms.A) * 2 ^ width_p + ms.Q
        = a * ((b % 2 ^ ms.iteration) + ((b \div 2 ^ ms.iteration) % 2) * 2 ^ ms.iteration)
            * 2 ^ (width_p - ms.iteration) + (b \div 2 ^ ms.iteration)
  BY DEF MultiplierIInv, MultiplierInv, PartialProduct, Partial
<1>4. /\ ms' \in mstate_s /\ ms'.iteration = n /\ ms'.M = ms.M
      /\ ms'.op = IF n = width_p THEN "DONE" ELSE "ADD"
      /\ ms'.done = (n = width_p \/ ms.done)
      /\ 2 ^ n * 2 ^ (width_p - n) = 2 ^ width_p
      /\ ms'.A * 2 ^ width_p + ms'.Q
           = a * (b % 2 ^ n) * 2 ^ (width_p - n) + (b \div 2 ^ n)
  <2> HIDE DEF a, b
  <2>1. /\ ms.iteration < width_p
        /\ 2 ^ ms.iteration * 2 ^ (width_p - ms.iteration) = 2 ^ width_p
    BY <1>2 DEF Running
  <2> QED BY <1>1, <1>3, <2>1, ShiftRound
<1>5. MultiplierTypeOK'
  BY <1>1, <1>4 DEF MultiplierTypeOK
<1>6. n # width_p => n < width_p
  <2>1. ms.iteration \in Int /\ width_p \in Int /\ ms.iteration < width_p
    BY <1>1, <1>2, MultiplierAssumption DEF Running, mstate_s
  <2> QED BY <2>1
(* After the last round every bit was looked at.                            *)
<1>7. ms'.done => ms'.A * 2 ^ width_p + ms'.Q = a * b
  <2> SUFFICES ASSUME n = width_p
               PROVE  ms'.A * 2 ^ width_p + ms'.Q = a * b
    BY <1>2, <1>4
  <2>1. width_p - n = 0 /\ 2 ^ 0 = 1
    BY MultiplierAssumption
  <2> DEFINE w == 2 ^ width_p
  <2>2. a \in Nat /\ b \in 0 .. w - 1 /\ w \in Nat \ {0}
    BY <1>1, MultiplierAssumption, PowerNat DEF Operand
  <2>3. ms'.A * w + ms'.Q = a * (b % w) * 1 + (b \div w)
    BY <1>4, <2>1
  <2> HIDE DEF w, a, b
  <2>4. b % w = b /\ b \div w = 0
    BY <2>2, OneTurn
  <2>5. a * b * 1 + 0 = a * b
    BY <2>2
  <2> QED BY <2>3, <2>4, <2>5 DEF w
<1>8. PartialProduct'
  BY <1>4, <1>7 DEF PartialProduct, product_o
<1>9. ms'.op = "ADD" => Running'
  BY <1>2, <1>4, <1>6 DEF Running
<1> QED BY <1>2, <1>4, <1>5, <1>8, <1>9 DEF MultiplierIInv, MultiplierInv

(* For every width and every pair of operands: what is in the registers     *)
(* after each round is the product so far, and the product is right when    *)
(* done_o is raised, whatever was interrupted (add_shift_multiplier.sv).    *)
THEOREM ProductRight == MultiplierSpec => []MultiplierInv
<1>1. MultiplierIInv /\ [MultiplierNext]_multiplierVars => MultiplierIInv'
  <2> SUFFICES ASSUME MultiplierIInv, [MultiplierNext]_multiplierVars PROVE MultiplierIInv'
    OBVIOUS
  <2>1. CASE Round
    BY <2>1, AddStep, ShiftStep DEF Round
  <2>2. CASE UNCHANGED multiplierVars
    BY <2>2 DEF multiplierVars, MultiplierIInv, MultiplierInv, MultiplierTypeOK, PartialProduct,
                Partial, product_o, Running
  <2> QED BY <2>1, <2>2, MultiplierResetStep, StartStep DEF MultiplierNext
<1>2. MultiplierIInv => MultiplierInv
  BY DEF MultiplierIInv
<1> QED BY MultiplierInitIInv, <1>1, <1>2, PTL DEF MultiplierSpec

-----------------------------------------------------------------------------
(* The two-way cache.                                                       *)

Port_request ==
  [op : {"none", "read", "write"}, tag : Tag, index : Index, word : Offset, value : Val]

(* What hold is for: once it is low, the arrays show the set of the request *)
(* at the port.                                                             *)
TwoWayIInv ==
  /\ TwoWayInv
  /\ rindex \in Index /\ cpu \in Port_request
  /\ ~hold => rindex = cpu.index

LEMMA TwoWayInitIInv == TwoWayInit => TwoWayIInv
<1> SUFFICES ASSUME TwoWayInit PROVE TwoWayIInv
  OBVIOUS
<1>1. (CHOOSE t \in Tag : TRUE) \in Tag /\ (CHOOSE w \in Offset : TRUE) \in Offset
  BY TwoWayAssumption
<1>2. cpu \in Port_request /\ rindex \in Index
  BY <1>1, TwoWayAssumption DEF TwoWayInit, Port_request
<1>3. TwoWayTypeOK
  BY DEF TwoWayInit, TwoWayTypeOK, Everywhere, ResetMemory
<1>4. \A x \in Index : tagof[0][x] = Unset
  BY DEF TwoWayInit, Everywhere, Ways
<1> QED BY <1>2, <1>3, <1>4 DEF TwoWayIInv, TwoWayInv, TwoWayInit

(* An edge on which no array is written and the request stays: the outputs  *)
(* of the arrays stay, if they were of its set.                             *)
LEMMA SameOutputs ==
  ASSUME TwoWayIInv, UNCHANGED <<tagof, cpu>>, rindex' = cpu.index, rindex = cpu.index
  PROVE  way_read_hit' = way_read_hit
BY DEF way_read_hit, way_hit

LEMMA LookupStep ==
  ASSUME TwoWayIInv, Lookup
  PROVE  TwoWayIInv'
<1>1. /\ UNCHANGED <<arrays, cpu, pmem, expected>> /\ rindex' = cpu.index
      /\ lru_value' = lru[rindex] /\ cpu.op # "none" /\ hold' = ~hold
  BY DEF Lookup, Clocked
<1>2. /\ cstate' \in {"Idle", "HitR", "HitW", "Miss", "Miss_Evict"}
      /\ cstate' # "Idle" => ~hold
      /\ cstate' \in {"HitR", "HitW"} => way_read_hit
      /\ cstate' \in {"Miss", "Miss_Evict"} => ~way_read_hit
  <2>1. CASE hold
    <3>1. cstate' = "Idle"
      BY <2>1 DEF Lookup, Read, evict
    <3> QED BY <3>1
  <2>2. CASE ~hold /\ way_read_hit
    <3>1. cstate' = IF cpu.op = "read" THEN "HitR" ELSE "HitW"
      BY <2>2 DEF Lookup, Read, evict
    <3> QED BY <2>2, <3>1
  <2>3. CASE ~hold /\ ~way_read_hit
    <3>1. cstate' = IF evict THEN "Miss_Evict" ELSE "Miss"
      BY <2>3, Zenon DEF Lookup, Read
    <3> QED BY <2>3, <3>1
  <2> QED BY <2>1, <2>2, <2>3 DEF TwoWayIInv, TwoWayInv, TwoWayTypeOK
<1>3. cstate' # "Idle" => way_read_hit' = way_read_hit
  BY <1>1, <1>2, SameOutputs DEF TwoWayIInv, arrays
<1>4. TwoWayTypeOK'
  BY <1>1, <1>2 DEF TwoWayIInv, TwoWayInv, TwoWayTypeOK, arrays
<1> QED BY <1>1, <1>2, <1>3, <1>4 DEF TwoWayIInv, TwoWayInv, arrays, Port_request

LEMMA HitStep ==
  ASSUME TwoWayIInv, Hit
  PROVE  TwoWayIInv'
<1>1. /\ rindex' = cpu.index /\ lru_value' = lru[rindex] /\ hold' = TRUE
      /\ cpu' = [cpu EXCEPT !.op = "none"] /\ cstate' = "Idle"
      /\ UNCHANGED <<tagof, valid, pmem, expected>>
  BY DEF Hit, Clocked
<1>2. cpu' \in Port_request /\ rindex' \in Index
  BY <1>1 DEF TwoWayIInv, Port_request
<1>3. lru' \in [Index -> {0, 1, Unset}]
  <2>1. (IF way_read_hit THEN 1 - hit_way ELSE IF lru_value = 1 THEN 0 ELSE 1) \in {0, 1}
    BY DEF hit_way
  <2> QED BY <2>1 DEF Hit, TwoWayIInv, TwoWayInv, TwoWayTypeOK
<1>4. dirty' \in [Ways -> [Index -> {0, 1, Unset}]]
  <2>1. dirty \in [Ways -> [Index -> {0, 1, Unset}]]
    BY DEF TwoWayIInv, TwoWayInv, TwoWayTypeOK
  <2>2. CASE cstate = "HitW"
    <3>1. dirty' = [dirty EXCEPT ![decoder] = [dirty[decoder] EXCEPT ![cpu.index] = 1]]
      BY <2>2, Zenon DEF Hit
    <3>2. decoder \in Ways /\ dirty[decoder] \in [Index -> {0, 1, Unset}]
      BY <2>1 DEF decoder, Ways
    <3>3. [dirty[decoder] EXCEPT ![cpu.index] = 1] \in [Index -> {0, 1, Unset}]
      BY <3>2
    <3> QED BY <2>1, <3>1, <3>2, <3>3
  <2>3. CASE cstate # "HitW"
    BY <2>1, <2>3 DEF Hit
  <2> QED BY <2>2, <2>3
<1>5. TwoWayTypeOK'
  BY <1>1, <1>3, <1>4 DEF TwoWayIInv, TwoWayInv, TwoWayTypeOK
<1> QED BY <1>1, <1>2, <1>5 DEF TwoWayIInv, TwoWayInv

(* The line that is filled is in neither way before, and in one after.      *)
LEMMA FillStep ==
  ASSUME TwoWayIInv, Fill
  PROVE  TwoWayIInv'
<1>1. /\ rindex' = cpu.index /\ lru_value' = lru[rindex] /\ hold' = TRUE
      /\ cstate' = "Idle" /\ UNCHANGED <<lru, cpu, pmem, expected>>
      /\ tagof' = [tagof EXCEPT ![decoder][cpu.index] = cpu.tag]
      /\ valid' = [valid EXCEPT ![decoder][cpu.index] = 1]
      /\ dirty' = [dirty EXCEPT ![decoder][cpu.index] = 0]
      /\ rindex = cpu.index /\ ~way_read_hit
  BY DEF Fill, Clocked, TwoWayIInv, TwoWayInv
<1>2. cpu.tag \in Tag /\ cpu.index \in Index /\ decoder \in Ways /\ Ways = {0, 1}
  BY DEF TwoWayIInv, Port_request, decoder, Ways
<1>3. TwoWayTypeOK'
  BY <1>1, <1>2 DEF TwoWayIInv, TwoWayInv, TwoWayTypeOK
<1>4. tagof[0][cpu.index] # cpu.tag /\ tagof[1][cpu.index] # cpu.tag
  BY <1>1 DEF way_read_hit, way_hit
<1>5. \A x \in Index : tagof'[0][x] = tagof'[1][x] => tagof'[0][x] = Unset
  BY <1>1, <1>2, <1>4 DEF TwoWayIInv, TwoWayInv, TwoWayTypeOK
<1> QED BY <1>1, <1>2, <1>3, <1>5 DEF TwoWayIInv, TwoWayInv

LEMMA WriteBackStep ==
  ASSUME TwoWayIInv, WriteBack
  PROVE  TwoWayIInv'
<1>1. /\ rindex' = cpu.index /\ lru_value' = lru[rindex] /\ hold' = TRUE
      /\ cstate' = "Miss" /\ UNCHANGED <<tagof, dirty, lru, cpu>>
      /\ valid' = [valid EXCEPT ![decoder][cpu.index] = 0]
      /\ DOMAIN pmem' = DOMAIN pmem
      /\ rindex = cpu.index /\ ~way_read_hit /\ cpu.op # "none"
  BY DEF WriteBack, Clocked, TwoWayIInv, TwoWayInv
<1>2. TwoWayTypeOK'
  BY <1>1 DEF TwoWayIInv, TwoWayInv, TwoWayTypeOK
<1>3. ~way_read_hit'
  BY <1>1, SameOutputs
<1> QED BY <1>1, <1>2, <1>3 DEF TwoWayIInv, TwoWayInv

LEMMA TwoWayNextIInv ==
  ASSUME TwoWayIInv, [TwoWayNext]_twoWayVars
  PROVE  TwoWayIInv'
<1>1. CASE Ask
  <2>1. cpu' \in Port_request
    <3>1. PICK a \in Tag \X Index, w \in Offset, op \in {"read", "write"}, v \in Val :
            cpu' = [op |-> op, tag |-> a[1], index |-> a[2], word |-> w, value |-> v]
      BY <1>1 DEF Ask
    <3> QED BY <3>1 DEF Port_request
  <2>2. cstate' = "Idle" /\ hold' = TRUE /\ UNCHANGED <<arrays, pmem>>
    BY <1>1 DEF Ask, TwoWayIInv, TwoWayInv, TwoWayTypeOK
  <2>3. rindex' \in Index /\ lru_value' \in {0, 1, Unset}
    BY <1>1 DEF Ask, Clocked, TwoWayIInv, TwoWayInv, TwoWayTypeOK, Port_request
  <2> QED BY <2>1, <2>2, <2>3 DEF TwoWayIInv, TwoWayInv, TwoWayTypeOK, arrays
<1>2. CASE NotAsked \/ MissWait
  <2>1. /\ UNCHANGED <<cstate, arrays, cpu, pmem, expected>> /\ hold' = TRUE
        /\ rindex' = cpu.index /\ lru_value' = lru[rindex]
        /\ cstate = "Idle" \/ rindex = cpu.index
    BY <1>2 DEF NotAsked, MissWait, Clocked, TwoWayIInv, TwoWayInv, TwoWayTypeOK
  <2>2. cstate = "Idle" \/ way_read_hit' = way_read_hit
    BY <2>1, SameOutputs DEF arrays
  <2> QED BY <2>1, <2>2 DEF TwoWayIInv, TwoWayInv, TwoWayTypeOK, arrays, Port_request
<1>3. CASE UNCHANGED twoWayVars
  BY <1>3 DEF twoWayVars, arrays, TwoWayIInv, TwoWayInv, TwoWayTypeOK, way_read_hit, way_hit
<1> QED
  BY <1>1, <1>2, <1>3, LookupStep, HitStep, FillStep, WriteBackStep DEF TwoWayNext, Served

(* No line is ever in both ways, and every request is looked up in the set  *)
(* it names (cache_control.sv, the hold register), for every geometry.      *)
THEOREM TwoWaySafe == TwoWaySpec => []TwoWayInv
<1>1. TwoWayIInv => TwoWayInv
  BY DEF TwoWayIInv
<1> QED BY TwoWayInitIInv, TwoWayNextIInv, <1>1, PTL DEF TwoWaySpec

-----------------------------------------------------------------------------
(* The burst memory.                                                        *)

(* Beats of a line are beats, and a line with a beat written is a line.     *)

LEMMA BeatOfALine ==
  ASSUME NEW line \in Line, NEW c \in Counts
  PROVE  BeatOf(line, c) \in Beat
<1> SUFFICES ASSUME NEW k \in 0 .. WordsPerBeat - 1
             PROVE  WordsPerBeat * c + k \in Words
  BY DEF BeatOf, Beat, Line
<1>1. WordsPerBeat \in Nat /\ MaxCount \in Nat /\ c \in Nat /\ c <= MaxCount
  BY BurstAssumption DEF Counts
<1>2. (MaxCount - c) * WordsPerBeat >= 0
  BY <1>1
<1> QED BY <1>1, <1>2, BurstAssumption

LEMMA LineWithABeat ==
  ASSUME NEW line \in Line, NEW c, NEW b \in Beat
  PROVE  WithBeat(line, c, b) \in Line
<1>1. ASSUME NEW w \in Words PROVE w % WordsPerBeat \in 0 .. WordsPerBeat - 1
  <2>1. WordsPerBeat \in Nat /\ WordsPerBeat > 0 /\ w \in Int
    BY BurstAssumption
  <2> QED BY <2>1
<1> QED BY <1>1 DEF WithBeat, Beat, Line

-----------------------------------------------------------------------------

(* Until the first beat, the beat counter of a task is where it was set.    *)
NotBegun == task # "none" /\ delay > 0 => i = 0

MemoryIInv == MemoryAnswers /\ NotBegun

(* At reset nothing is driven.                                              *)
LEMMA MemoryInitAnswers == MemoryInit => MemoryIInv
<1> SUFFICES ASSUME MemoryInit PROVE MemoryIInv
  OBVIOUS
<1> USE DEF MemoryInit
<1>1. ZeroWord \in Word
  BY TypesAssumption DEF ZeroWord, Word
<1>2. rdata \in Beat
  BY <1>1 DEF Beat
<1>3. addr \in LineAddr /\ i \in Counts /\ delay \in Nat /\ pageno = -1
  BY TypesAssumption, BurstAssumption DEF LineAddr, Counts
<1>4. MemoryTypeOK
  BY <1>2, <1>3, MemoryAssumption DEF MemoryTypeOK
<1>5. AnswerShape /\ DrivenBeat /\ NotBegun
  BY DEF AnswerShape, DrivenBeat, NotBegun
<1> QED BY <1>4, <1>5 DEF MemoryIInv, MemoryAnswers

(* The page of an address is a number.                                      *)
LEMMA NatQuotient ==
  ASSUME NEW m \in Nat, NEW n \in Nat \ {0}
  PROVE  m \div n \in Nat
<1>1. m \div n \in Int /\ m % n \in 0 .. n - 1 /\ m = n * (m \div n) + (m % n)
  OBVIOUS
<1> QED BY <1>1

LEMMA PageNumber == ASSUME NEW a \in LineAddr PROVE PageOf(a) \in Nat
BY NatQuotient, MemoryAssumption DEF PageOf, LineAddr

(* A check that the inputs pass changes nothing, one they fail is reported. *)
LEMMA CheckedOrReported ==
  ASSUME NEW b, task \in {"none", "memread", "memwrite"}, error \in BOOLEAN, Checked(b)
  PROVE  /\ task' \in {"none", "memread", "memwrite"}
         /\ error' \in BOOLEAN
         /\ ~error' => ~error /\ task' = task
<1>1. CASE Steady(b)
  BY <1>1 DEF Checked
<1>2. CASE ~Steady(b)
  BY <1>2 DEF Checked
<1> QED BY <1>1, <1>2

(* The answers survive every edge: what is driven after it is the beat of   *)
(* the line that the memory then holds.                                     *)
LEMMA MemoryStepAnswers ==
  ASSUME MemoryIInv, [MemoryNext]_memoryVars
  PROVE  MemoryIInv'
<1> USE DEF MemoryIInv, MemoryAnswers
<1>1. ASSUME NEW b \in Inputs, NoTask(b) PROVE MemoryIInv'
  <2>1. error' = (error \/ b.read) /\ UNCHANGED <<mem, task, addr, delay, i, pageno, resp, rdata>>
    BY <1>1 DEF NoTask
  <2>2. error' \in BOOLEAN /\ (~error' => ~error)
    BY <2>1, Zenon DEF MemoryTypeOK, Inputs
  <2>3. MemoryTypeOK'
    BY <2>1, <2>2 DEF MemoryTypeOK
  <2>4. AnswerShape' /\ DrivenBeat' /\ NotBegun'
    BY <2>1, <2>2 DEF AnswerShape, DrivenBeat, NotBegun
  <2> QED BY <2>3, <2>4
<1>2. ASSUME NEW b \in Inputs, StartTask(b) PROVE MemoryIInv'
  <2>1. b.addr \in LineAddr /\ 0 \in Counts
    BY BurstAssumption DEF Inputs, Counts
  <2>2. delay' \in Nat /\ delay' > 0
    BY <1>2, MemoryAssumption DEF StartTask
  <2>3. MemoryTypeOK'
    BY <1>2, <2>1, <2>2, PageNumber DEF StartTask, MemoryTypeOK
  <2>4. ~error => resp = FALSE
    BY <1>2 DEF StartTask, AnswerShape, MemoryTypeOK
  <2>5. AnswerShape' /\ DrivenBeat' /\ NotBegun'
    BY <1>2, <2>2, <2>4 DEF StartTask, AnswerShape, DrivenBeat, NotBegun, MemoryTypeOK
  <2> QED BY <2>3, <2>5
<1>3. ASSUME NEW b \in Inputs, Delay(b) PROVE MemoryIInv'
  <2>1. task' \in {"none", "memread", "memwrite"} /\ error' \in BOOLEAN /\ (~error' => ~error /\ task' = task)
    BY <1>3, CheckedOrReported DEF Delay, MemoryTypeOK
  <2>2. delay' \in Nat /\ delay' # 0 /\ delay # 0
    BY <1>3 DEF Delay, MemoryTypeOK
  <2>3. MemoryTypeOK'
    BY <1>3, <2>1, <2>2 DEF Delay, MemoryTypeOK
  <2>4. AnswerShape' /\ DrivenBeat' /\ NotBegun'
    BY <1>3, <2>1, <2>2 DEF Delay, AnswerShape, DrivenBeat, NotBegun, MemoryTypeOK
  <2> QED BY <2>3, <2>4
<1>4. ASSUME NEW b \in Inputs, FirstBeat(b) PROVE MemoryIInv'
  <2>1. task' \in {"none", "memread", "memwrite"} /\ error' \in BOOLEAN /\ (~error' => ~error /\ task' = task)
    BY <1>4, CheckedOrReported DEF FirstBeat, MemoryTypeOK
  <2>2. mem[addr] \in Line /\ 0 \in Counts
    BY BurstAssumption DEF MemoryTypeOK, Counts
  <2>3. rdata' \in Beat
    BY <1>4, <2>2, BeatOfALine DEF FirstBeat, MemoryTypeOK
  <2>4. MemoryTypeOK'
    BY <1>4, <2>1, <2>3 DEF FirstBeat, MemoryTypeOK
  <2>5. AnswerShape' /\ DrivenBeat' /\ NotBegun'
    BY <1>4, <2>1 DEF FirstBeat, AnswerShape, DrivenBeat, NotBegun, MemoryTypeOK
  <2> QED BY <2>4, <2>5
<1>5. ASSUME NEW b \in Inputs, EndBeat(b) PROVE MemoryIInv'
  <2>1. mem[addr] \in Line /\ b.wdata \in Beat
    BY DEF MemoryTypeOK, Inputs
  <2>2. WithBeat(mem[addr], i, b.wdata) \in Line
    BY <2>1, LineWithABeat
  <2>3. mem' \in [LineAddr -> Line]
    BY <1>5, <2>2 DEF EndBeat, MemoryTypeOK
  <2>4. CASE i < MaxCount /\ i' = i + 1 /\ Checked(b) /\ resp' = resp
             /\ rdata' = IF task = "memread" THEN BeatOf(mem[addr], i + 1) ELSE rdata
    <3>1. task' \in {"none", "memread", "memwrite"} /\ error' \in BOOLEAN /\ (~error' => ~error /\ task' = task)
      BY <2>4, CheckedOrReported DEF MemoryTypeOK
    <3>2. i + 1 \in Counts
      BY <2>4, BurstAssumption DEF MemoryTypeOK, Counts
    <3>3. rdata' \in Beat
      BY <2>1, <2>4, <3>2, BeatOfALine DEF MemoryTypeOK
    <3>4. MemoryTypeOK'
      BY <1>5, <2>3, <2>4, <3>1, <3>2, <3>3 DEF EndBeat, MemoryTypeOK
    <3>5. AnswerShape'
      BY <1>5, <2>4, <3>1 DEF EndBeat, AnswerShape, MemoryTypeOK
    <3>6. DrivenBeat' /\ NotBegun'
      BY <1>5, <2>4, <3>1 DEF EndBeat, DrivenBeat, NotBegun, MemoryTypeOK
    <3> QED BY <3>4, <3>5, <3>6
  <2>5. CASE i = MaxCount /\ task' = "none" /\ resp' = FALSE /\ UNCHANGED <<i, rdata, error>>
    <3>1. MemoryTypeOK'
      BY <1>5, <2>3, <2>5 DEF EndBeat, MemoryTypeOK
    <3>2. AnswerShape' /\ DrivenBeat' /\ NotBegun'
      BY <2>5 DEF AnswerShape, DrivenBeat, NotBegun
    <3> QED BY <3>1, <3>2
  <2> QED BY <1>5, <2>4, <2>5 DEF EndBeat
<1>6. ASSUME NEW b \in Inputs, Abort(b) PROVE MemoryIInv'
  BY <1>6 DEF Abort, MemoryTypeOK, AnswerShape, DrivenBeat, NotBegun
<1>7. CASE UNCHANGED memoryVars
  BY <1>7 DEF memoryVars, MemoryTypeOK, AnswerShape, DrivenBeat, NotBegun
<1> QED BY <1>1, <1>2, <1>3, <1>4, <1>5, <1>6, <1>7 DEF MemoryNext, MemoryClock

(* Whatever the user does, a memory none of whose assertions has failed     *)
(* answers during the beats of a task and at no other time, and a read sees *)
(* the beats of the addressed line in order (param_memory.sv:48-161).      *)
THEOREM MemoryAlwaysAnswers == MemorySpec => []MemoryAnswers
<1>1. MemoryIInv => MemoryAnswers
  BY DEF MemoryIInv
<1> QED BY <1>1, MemoryInitAnswers, MemoryStepAnswers, PTL DEF MemorySpec
=============================================================================
