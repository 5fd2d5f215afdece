----------------------------- MODULE RingBuffer -----------------------------
(***************************************************************************)
(* The ring buffers of the Gantt chart, the scheduler's log and the UI's   *)
(* log: an array, a head that counts the entries ever written, and a count *)
(* that stops at the size of the array.  The three are written alike.      *)
(***************************************************************************)
EXTENDS Integers, Sequences

NoEntry == "none"

emptyRing(size) ==
  [buf |-> [i \in 0 .. size - 1 |-> NoEntry], head |-> 0, count |-> 0]

(* Mutant: the last entry of the array is never used.                      *)
putShort(r, size, e) ==
  [buf |-> [r.buf EXCEPT ![r.head % (size - 1)] = e],
   head |-> r.head + 1,
   count |-> IF r.count < size - 1 THEN r.count + 1 ELSE r.count]

(* An entry goes in, over the oldest one when the ring is full.            *)
put(r, size, e) ==
  [buf |-> [r.buf EXCEPT ![r.head % size] = e],
   head |-> r.head + 1,
   count |-> IF r.count < size THEN r.count + 1 ELSE r.count]

(* Mutant: a full ring is read from the start of the array.                *)
latestFromZero(r, size, max) ==
  LET count == IF r.count < max THEN r.count ELSE max
  IN [i \in 1 .. count |-> r.buf[(i - 1) % size]]

(* What a snapshot for at most max entries copies out.                     *)
latest(r, size, max) ==
  LET count == IF r.count < max THEN r.count ELSE max
      start == (r.head - count + size) % size
  IN [i \in 1 .. count |-> r.buf[(start + i - 1) % size]]

=============================================================================
