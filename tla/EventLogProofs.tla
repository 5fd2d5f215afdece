--------------------------- MODULE EventLogProofs ---------------------------
(***************************************************************************)
(* Theorems about module EventLog, for any threads, any sizes of the rings *)
(* and any number of lines, ticks and entries.                             *)
(***************************************************************************)
EXTENDS EventLog, SequenceTheorems, FiniteSetTheorems, TLAPS

-----------------------------------------------------------------------------
(* Remainders.                                                             *)

LEMMA Division ==
  ASSUME NEW a \in Int, NEW n \in Nat \ {0}
  PROVE  /\ (a % n) \in 0 .. n - 1
         /\ a \div n \in Int
         /\ n * (a \div n) + (a % n) = a
OBVIOUS

(* Remainder and quotient are unique.                                      *)
LEMMA RemainderUnique ==
  ASSUME NEW n \in Nat \ {0}, NEW q \in Int, NEW r \in 0 .. n - 1
  PROVE  (n * q + r) % n = r
<1>1. PICK a \in Int : a = n * q + r
  OBVIOUS
<1>2. PICK d \in Int, m \in 0 .. n - 1 : a = n * d + m /\ m = a % n
  BY Division
<1>3. n * (q - d) = m - r
  BY <1>1, <1>2
<1>4. q - d < 1
  <2> SUFFICES ASSUME q - d >= 1 PROVE FALSE
    OBVIOUS
  <2>1. n * (q - d) >= n
    BY SMTT(20)
  <2> QED
    BY <1>3, <2>1
<1>5. q - d > -1
  <2> SUFFICES ASSUME q - d <= -1 PROVE FALSE
    OBVIOUS
  <2>1. n * (q - d) <= -n
    BY SMTT(20)
  <2> QED
    BY <1>3, <2>1
<1>6. q = d
  BY <1>4, <1>5
<1> QED
  BY <1>1, <1>2, <1>3, <1>6

(* A remainder may be taken early, ...                                     *)
LEMMA RemainderEarly ==
  ASSUME NEW n \in Nat \ {0}, NEW a \in Int, NEW b \in Int
  PROVE  (((a + n) % n) + b) % n = (a + b) % n
<1>1. PICK d \in Int, m \in 0 .. n - 1 : n * d + m = a + n /\ m = (a + n) % n
  <2>1. a + n \in Int
    OBVIOUS
  <2> QED
    BY <2>1, Division
<1>2. PICK e \in Int, k \in 0 .. n - 1 : n * e + k = m + b /\ k = (m + b) % n
  <2>1. m + b \in Int
    OBVIOUS
  <2> QED
    BY <2>1, Division
<1>3. a + b = n * (d + e - 1) + k
  BY <1>1, <1>2
<1>4. (a + b) % n = k
  <2>1. PICK q \in Int : q = d + e - 1
    OBVIOUS
  <2>2. (n * q + k) % n = k
    BY RemainderUnique
  <2> QED
    BY <1>3, <2>1, <2>2
<1> QED
  BY <1>1, <1>2, <1>4

(* ... and less than n steps on it is another one.                         *)
LEMMA RemainderOther ==
  ASSUME NEW n \in Nat \ {0}, NEW a \in Int, NEW b \in Int,
         a < b, b < a + n
  PROVE  a % n # b % n
<1> SUFFICES ASSUME a % n = b % n PROVE FALSE
  OBVIOUS
<1>1. PICK d \in Int, m \in 0 .. n - 1 : n * d + m = a /\ m = a % n
  BY Division
<1>2. PICK e \in Int : n * e + m = b
  BY Division, <1>1
<1>3. n * (e - d) = b - a
  BY <1>1, <1>2
<1>4. e - d < 1
  <2> SUFFICES ASSUME e - d >= 1 PROVE FALSE
    OBVIOUS
  <2>1. n * (e - d) >= n
    BY SMTT(20)
  <2> QED
    BY <1>3, <2>1
<1>5. e - d > 0
  <2> SUFFICES ASSUME e - d <= 0 PROVE FALSE
    OBVIOUS
  <2>1. n * (e - d) <= 0
    BY SMTT(20)
  <2> QED
    BY <1>3, <2>1
<1> QED
  BY <1>4, <1>5

-----------------------------------------------------------------------------
(* The rings.                                                              *)

(* A ring of entries from S, written head times.                           *)
IsRing(r, size, S) ==
  /\ r.buf \in [0 .. size - 1 -> S]
  /\ r.head \in Nat
  /\ r.count = IF r.head < size THEN r.head ELSE size

LEMMA EmptyIsRing ==
  ASSUME NEW size \in Nat \ {0}, NEW S, NoEntry \in S
  PROVE  /\ IsRing(emptyRing(size), size, S)
         /\ \A max \in Nat : latest(emptyRing(size), size, max) = <<>>
<1>1. IsRing(emptyRing(size), size, S)
  BY DEF IsRing, emptyRing
<1>2. ASSUME NEW max \in Nat
      PROVE  latest(emptyRing(size), size, max) = <<>>
  <2>1. emptyRing(size).count = 0
    BY DEF emptyRing
  <2> QED
    BY <2>1 DEF latest
<1> QED
  BY <1>1, <1>2

LEMMA PutIsRing ==
  ASSUME NEW size \in Nat \ {0}, NEW S, NEW r, IsRing(r, size, S), NEW e \in S
  PROVE  IsRing(put(r, size, e), size, S)
<1>1. r.head \in Int
  BY DEF IsRing
<1>2. (r.head % size) \in 0 .. size - 1
  BY <1>1, Division
<1>3. put(r, size, e).buf \in [0 .. size - 1 -> S]
  BY <1>2 DEF IsRing, put
<1>4. /\ put(r, size, e).head = r.head + 1
      /\ put(r, size, e).count = IF r.count < size THEN r.count + 1 ELSE r.count
  BY DEF put
<1> QED
  BY <1>3, <1>4 DEF IsRing

(* A snapshot is the sequence of the newest entries, the oldest first.     *)
LEMMA LatestIs ==
  ASSUME NEW size \in Nat \ {0}, NEW S, NEW r, IsRing(r, size, S),
         NEW max \in Nat, NEW n \in Nat,
         n = IF r.count < max THEN r.count ELSE max,
         NEW s, s = latest(r, size, max)
  PROVE  /\ s \in Seq(S) /\ Len(s) = n /\ DOMAIN s = 1 .. n
         /\ \A i \in 1 .. n : s[i] = r.buf[(r.head - n + i - 1) % size]
<1> DEFINE start == (r.head - n + size) % size
<1>1. s = [i \in 1 .. n |-> r.buf[(start + i - 1) % size]]
  BY DEF latest
<1>2. ASSUME NEW i \in 1 .. n
      PROVE  (start + i - 1) % size = (r.head - n + i - 1) % size
  <2>1. PICK a \in Int, b \in Int : a = r.head - n /\ b = i - 1
    BY DEF IsRing
  <2>2. (((a + size) % size) + b) % size = (a + b) % size
    BY RemainderEarly
  <2>3. PICK m \in Int : m = (a + size) % size
    BY <2>1, Division
  <2>4. start + i - 1 = m + b
    BY <2>1, <2>3
  <2>5. r.head - n + i - 1 = a + b
    BY <2>1 DEF IsRing
  <2> QED
    BY <2>2, <2>3, <2>4, <2>5
<1>3. \A i \in 1 .. n : (r.head - n + i - 1) % size \in 0 .. size - 1
  <2> TAKE i \in 1 .. n
  <2>1. r.head - n + i - 1 \in Int
    BY DEF IsRing
  <2> QED
    BY <2>1, Division
<1> HIDE DEF start
<1>4. s \in [1 .. n -> S] /\ \A i \in 1 .. n : s[i] = r.buf[(r.head - n + i - 1) % size]
  BY <1>1, <1>2, <1>3 DEF IsRing
<1>5. s \in Seq(S)
  BY <1>4
<1>6. Len(s) = n /\ DOMAIN s = 1 .. n
  BY <1>4, <1>5
<1> QED
  BY <1>4, <1>5, <1>6

(* A shorter snapshot is the end of a longer one.                          *)
LEMMA ShorterIsEnd ==
  ASSUME NEW size \in Nat \ {0}, NEW S, NEW r, IsRing(r, size, S),
         NEW n \in 0 .. r.count
  PROVE  latest(r, size, n) = lastOf(latest(r, size, size), n)
<1>0. PICK s, t : s = latest(r, size, size) /\ t = latest(r, size, n)
  OBVIOUS
<1>1. PICK c \in Nat : c = r.count /\ c <= size /\ n \in 0 .. c /\ r.head \in Nat
  BY DEF IsRing
<1>2. /\ s \in Seq(S) /\ Len(s) = c /\ DOMAIN s = 1 .. c
      /\ \A i \in 1 .. c : s[i] = r.buf[(r.head - c + i - 1) % size]
  <2>1. c = IF r.count < size THEN r.count ELSE size
    BY <1>1
  <2>2. size \in Nat
    OBVIOUS
  <2> QED
    BY <1>0, <2>1, <2>2, LatestIs
<1>3. /\ t \in Seq(S) /\ Len(t) = n
      /\ \A i \in 1 .. n : t[i] = r.buf[(r.head - n + i - 1) % size]
  <2>1. n = (IF r.count < n THEN r.count ELSE n) /\ n \in Nat
    BY <1>1
  <2> QED
    BY <1>0, <2>1, LatestIs
<1> DEFINE u == SubSeq(s, c - n + 1, c)
<1>4. /\ u \in Seq(S) /\ Len(u) = n
      /\ \A i \in 1 .. n : u[i] = s[c - n + i]
  <2>1. \A i \in c - n + 1 .. c : s[i] \in S
    BY <1>1, <1>2
  <2>2. /\ u \in Seq(S)
        /\ Len(u) = IF c - n + 1 <= c THEN c - (c - n + 1) + 1 ELSE 0
        /\ \A i \in 1 .. c - (c - n + 1) + 1 : u[i] = s[c - n + 1 + i - 1]
    <3>1. c - n + 1 \in Int /\ c \in Int
      BY <1>1
    <3> QED
      BY <2>1, <3>1, SubSeqProperties
  <2>3. c - (c - n + 1) + 1 = n /\ \A i \in 1 .. n : c - n + 1 + i - 1 = c - n + i
    BY <1>1
  <2> QED
    BY <1>1, <2>2, <2>3
<1> HIDE DEF u
<1>5. \A i \in 1 .. n : t[i] = u[i]
  <2> TAKE i \in 1 .. n
  <2>1. PICK k \in Nat : k = c - n + i /\ k \in 1 .. c
    BY <1>1
  <2>2. r.head - c + k - 1 = r.head - n + i - 1
    BY <1>1, <2>1
  <2>3. s[k] = r.buf[(r.head - n + i - 1) % size]
    BY <1>2, <2>1, <2>2
  <2>4. u[i] = s[k]
    BY <1>4, <2>1
  <2> QED
    BY <1>3, <2>3, <2>4
<1>6. t = u
  BY <1>3, <1>4, <1>5, SeqEqual
<1> QED
  BY <1>0, <1>2, <1>6 DEF lastOf, u

(* An entry comes to the end, and the oldest leaves a full ring.           *)
LEMMA PutLatest ==
  ASSUME NEW size \in Nat \ {0}, NEW S, NEW r, IsRing(r, size, S), NEW e \in S
  PROVE  \E c \in 0 .. size, d \in 0 .. 1 :
           \E s, t \in Seq(S) :
             /\ c = r.count /\ d = (IF c < size THEN 0 ELSE 1)
             /\ s = latest(r, size, size) /\ t = latest(put(r, size, e), size, size)
             /\ Len(s) = c /\ DOMAIN s = 1 .. c
             /\ Len(t) = c + 1 - d /\ DOMAIN t = 1 .. c + 1 - d
             /\ \A i \in 1 .. c - d : t[i] = s[i + d]
             /\ t[c + 1 - d] = e
<1>0. PICK c, d, s, t :
        /\ c = r.count /\ d = IF c < size THEN 0 ELSE 1
        /\ s = latest(r, size, size) /\ t = latest(put(r, size, e), size, size)
  OBVIOUS
<1> DEFINE q == put(r, size, e)
<1>1. /\ c \in 0 .. size /\ c \in Nat /\ r.head \in Nat /\ d \in 0 .. 1
      /\ c <= r.head /\ (d = 1 => c = size) /\ (d = 0 => c < size)
  BY <1>0 DEF IsRing
<1>2. /\ s \in Seq(S) /\ Len(s) = c /\ DOMAIN s = 1 .. c
      /\ \A i \in 1 .. c : s[i] = r.buf[(r.head - c + i - 1) % size]
  <2>1. c = (IF r.count < size THEN r.count ELSE size) /\ size \in Nat /\ c \in Nat
    BY <1>0, <1>1
  <2> QED
    BY <1>0, <2>1, LatestIs
<1>3. /\ IsRing(q, size, S)
      /\ q.head = r.head + 1 /\ q.count = c + 1 - d
      /\ q.buf = [r.buf EXCEPT ![r.head % size] = e]
      /\ t = latest(q, size, size)
  <2>1. IsRing(q, size, S)
    BY PutIsRing
  <2> QED
    BY <1>0, <1>1, <2>1 DEF put
<1> HIDE DEF q
<1>4. /\ t \in Seq(S) /\ Len(t) = c + 1 - d /\ DOMAIN t = 1 .. c + 1 - d
      /\ \A i \in 1 .. c + 1 - d : t[i] = q.buf[(r.head - c + d + i - 1) % size]
  <2>1. PICK n \in Nat : n = c + 1 - d
    BY <1>1
  <2>2. n = (IF q.count < size THEN q.count ELSE size) /\ size \in Nat
    BY <1>1, <1>3, <2>1
  <2>3. /\ t \in Seq(S) /\ Len(t) = n /\ DOMAIN t = 1 .. n
        /\ \A i \in 1 .. n : t[i] = q.buf[(q.head - n + i - 1) % size]
    <3>1. IsRing(q, size, S) /\ t = latest(q, size, size)
      BY <1>3
    <3> QED
      BY <2>2, <3>1, LatestIs
  <2>4. \A i \in 1 .. n : q.head - n + i - 1 = r.head - c + d + i - 1
    BY <1>1, <1>3, <2>1
  <2> QED
    BY <2>1, <2>3, <2>4
<1>5. (r.head % size) \in 0 .. size - 1
  <2>1. r.head \in Int
    BY <1>1
  <2> QED
    BY <2>1, Division
<1>6. t[c + 1 - d] = e
  <2>1. c + 1 - d \in 1 .. c + 1 - d /\ r.head - c + d + (c + 1 - d) - 1 = r.head
    BY <1>1
  <2>2. t[c + 1 - d] = q.buf[r.head % size]
    BY <1>4, <2>1
  <2> QED
    BY <1>3, <1>5, <2>2 DEF IsRing
<1>7. \A i \in 1 .. c - d : t[i] = s[i + d]
  <2> TAKE i \in 1 .. c - d
  <2>1. PICK k \in Int : k = r.head - c + d + i - 1
    BY <1>1
  <2>2. k < r.head /\ r.head < k + size
    BY <1>1, <2>1
  <2>3. r.head % size # k % size
    <3>1. r.head \in Int
      BY <1>1
    <3>2. k % size # r.head % size
      BY <2>2, <3>1, RemainderOther
    <3> QED
      BY <3>2
  <2>4. (k % size) \in 0 .. size - 1
    BY Division
  <2>5. q.buf[k % size] = r.buf[k % size]
    BY <1>3, <1>5, <2>3, <2>4 DEF IsRing
  <2>6. i \in 1 .. c + 1 - d /\ i + d \in 1 .. c /\ r.head - c + (i + d) - 1 = k
    BY <1>1, <2>1
  <2>7. t[i] = q.buf[k % size]
    BY <1>4, <2>1, <2>6
  <2>8. s[i + d] = r.buf[k % size]
    BY <1>2, <2>6
  <2> QED
    BY <2>5, <2>7, <2>8
<1> QED
  BY <1>0, <1>1, <1>2, <1>4, <1>6, <1>7

(* So it is what LogSpec says.                                             *)
LEMMA PutIsNewest ==
  ASSUME NEW size \in Nat \ {0}, NEW S, NEW r, IsRing(r, size, S), NEW e \in S
  PROVE  latest(put(r, size, e), size, size) =
           Abstract!newest(Append(latest(r, size, size), e), size)
<1>1. PICK c \in 0 .. size, d \in 0 .. 1 :
        \E s, t \in Seq(S) :
          /\ c = r.count /\ d = (IF c < size THEN 0 ELSE 1)
          /\ s = latest(r, size, size) /\ t = latest(put(r, size, e), size, size)
          /\ Len(s) = c /\ DOMAIN s = 1 .. c
          /\ Len(t) = c + 1 - d /\ DOMAIN t = 1 .. c + 1 - d
          /\ \A i \in 1 .. c - d : t[i] = s[i + d]
          /\ t[c + 1 - d] = e
  BY PutLatest
<1>2. d \in 0 .. 1 /\ d = (IF c < size THEN 0 ELSE 1) /\ c \in Nat
  BY <1>1
<1>3. PICK s, t \in Seq(S) :
        /\ s = latest(r, size, size) /\ t = latest(put(r, size, e), size, size)
        /\ Len(s) = c /\ Len(t) = c + 1 - d
        /\ \A i \in 1 .. c - d : t[i] = s[i + d]
        /\ t[c + 1 - d] = e
  BY <1>1
<1> DEFINE a == Append(s, e)
<1>4. /\ a \in Seq(S) /\ Len(a) = c + 1
      /\ \A i \in 1 .. c : a[i] = s[i]
      /\ a[c + 1] = e
  <2>1. s \in Seq(S) /\ Len(s) = c
    BY <1>3
  <2> QED
    BY <2>1, AppendProperties
<1> HIDE DEF a
<1> DEFINE u == SubSeq(a, 1 + d, c + 1)
<1>5. /\ u \in Seq(S) /\ Len(u) = c + 1 - d
      /\ \A i \in 1 .. c + 1 - d : u[i] = a[i + d]
  <2>1. \A i \in 1 + d .. c + 1 : a[i] \in S
    BY <1>2, <1>4, ElementOfSeq
  <2>2. 1 + d \in Int /\ c + 1 \in Int
    BY <1>2
  <2>3. /\ u \in Seq(S)
        /\ Len(u) = IF 1 + d <= c + 1 THEN c + 1 - (1 + d) + 1 ELSE 0
        /\ \A i \in 1 .. c + 1 - (1 + d) + 1 : u[i] = a[1 + d + i - 1]
    BY <2>1, <2>2, SubSeqProperties
  <2>4. /\ c + 1 - (1 + d) + 1 = c + 1 - d
        /\ \A i \in 1 .. c + 1 - d : 1 + d + i - 1 = i + d
        /\ 1 + d <= c + 1
    BY <1>2, <1>3
  <2> QED
    BY <2>3, <2>4
<1>6. Abstract!newest(a, size) = u
  <2>1. Len(a) = c + 1 /\ (c + 1 > size <=> d = 1)
    BY <1>2, <1>3, <1>4
  <2>2. (IF Len(a) > size THEN Len(a) - size + 1 ELSE 1) = 1 + d
    BY <1>2, <1>3, <2>1
  <2> QED
    BY <2>1, <2>2 DEF Abstract!newest
<1> HIDE DEF u
<1>7. \A i \in 1 .. c + 1 - d : t[i] = u[i]
  <2> TAKE i \in 1 .. c + 1 - d
  <2>1. CASE i \in 1 .. c - d
    <3>1. i + d \in 1 .. c
      BY <1>2, <2>1
    <3> QED
      BY <1>3, <1>4, <1>5, <2>1, <3>1
  <2>2. CASE i = c + 1 - d
    BY <1>2, <1>3, <1>4, <1>5, <2>2
  <2> QED
    BY <1>2, <2>1, <2>2
<1>8. t = u
  BY <1>2, <1>3, <1>5, <1>7, SeqEqual
<1> QED
  BY <1>3, <1>6, <1>8 DEF a

(* What a put does to a snapshot: the d oldest of its n entries leave, and *)
(* e comes in.                                                             *)
Grown(s, t, e, n, d) ==
  /\ DOMAIN s = 1 .. n /\ DOMAIN t = 1 .. n + 1 - d
  /\ \A i \in 1 .. n - d : t[i] = s[i + d]
  /\ t[n + 1 - d] = e
  /\ d <= n

LEMMA PutGrows ==
  ASSUME NEW size \in Nat \ {0}, NEW S, NEW r, IsRing(r, size, S), NEW e \in S
  PROVE  \E n \in 0 .. size, d \in 0 .. 1 :
           /\ n < size => d = 0
           /\ Grown(latest(r, size, size), latest(put(r, size, e), size, size), e, n, d)
<1>1. PICK c \in 0 .. size, d \in 0 .. 1 :
        \E s, t \in Seq(S) :
          /\ c = r.count /\ d = (IF c < size THEN 0 ELSE 1)
          /\ s = latest(r, size, size) /\ t = latest(put(r, size, e), size, size)
          /\ Len(s) = c /\ DOMAIN s = 1 .. c
          /\ Len(t) = c + 1 - d /\ DOMAIN t = 1 .. c + 1 - d
          /\ \A i \in 1 .. c - d : t[i] = s[i + d]
          /\ t[c + 1 - d] = e
  BY PutLatest
<1>2. d <= c /\ (c < size => d = 0)
  BY <1>1
<1> QED
  BY <1>1, <1>2 DEF Grown

-----------------------------------------------------------------------------
(* Types.                                                                  *)

Line == Writer \X Nat
Slot == Line \cup {NoEntry}

LogLines == logSnapshot(MAX_LOG)
UiLines == uiLogSnapshot(UI_LOG_MAX)
ChartEntries == ganttSnapshot(MAX_GANTT)

Types ==
  /\ IsRing(log_buf, MAX_LOG, Slot)
  /\ IsRing(log_entries, UI_LOG_MAX, Slot)
  /\ IsRing(gantt_buf, MAX_GANTT, Slot)
  /\ global_tick \in Nat
  /\ sent \in [Writer -> Nat]
  /\ showing \in [Writer -> Nat]

LEMMA TypeInit == Init => Types
<1> SUFFICES ASSUME Init PROVE Types
  OBVIOUS
<1>1. NoEntry \in Slot
  BY DEF Slot
<1> QED
  BY <1>1, EmptyIsRing, EventLogAssumption DEF Init, Types

LEMMA TypeNext == ASSUME Types, [Next]_vars PROVE Types'
<1>1. \A t \in Writer : \A k \in Nat : <<t, k>> \in Slot
  BY DEF Slot, Line
<1>2. CASE \E t \in Writer : addLog(t)
  <2>1. PICK t \in Writer : addLog(t)
    BY <1>2
  <2>2. sent[t] + 1 \in Nat
    BY DEF Types
  <2>3. IsRing(log_buf', MAX_LOG, Slot)
    BY <1>1, <2>1, <2>2, PutIsRing, EventLogAssumption DEF Types, addLog
  <2> QED
    BY <2>1, <2>2, <2>3 DEF Types, addLog
<1>3. CASE \E t \in Writer : pushLog(t)
  <2>1. PICK t \in Writer : pushLog(t)
    BY <1>3
  <2>2. showing[t] \in Nat
    BY DEF Types
  <2>3. IsRing(log_entries', UI_LOG_MAX, Slot)
    BY <1>1, <2>1, <2>2, PutIsRing, EventLogAssumption DEF Types, pushLog
  <2> QED
    BY <2>1, <2>2, <2>3 DEF Types, pushLog
<1>4. CASE \E t \in Writer : pushNotice(t)
  <2>1. PICK t \in Writer : pushNotice(t)
    BY <1>4
  <2>2. sent[t] + 1 \in Nat
    BY DEF Types
  <2>3. IsRing(log_entries', UI_LOG_MAX, Slot)
    BY <1>1, <2>1, <2>2, PutIsRing, EventLogAssumption DEF Types, pushNotice
  <2> QED
    BY <2>1, <2>2, <2>3 DEF Types, pushNotice
<1>5. CASE \E t \in Writer : addGantt(t)
  <2>1. PICK t \in Writer : addGantt(t)
    BY <1>5
  <2>2. IsRing(gantt_buf', MAX_GANTT, Slot)
    BY <1>1, <2>1, PutIsRing, EventLogAssumption DEF Types, addGantt
  <2> QED
    BY <2>1, <2>2 DEF Types, addGantt
<1>6. CASE countTick \/ UNCHANGED vars
  BY <1>6 DEF Types, countTick, vars
<1> QED
  BY <1>2, <1>3, <1>4, <1>5, <1>6 DEF Next

(* SnapshotIsNewest: a snapshot of any length is the newest end of what    *)
(* the ring holds, however often the head has gone round it.               *)
THEOREM SnapshotsAreEnds == Spec => []SnapshotIsNewest
<1>1. Types => SnapshotIsNewest
  BY ShorterIsEnd, EventLogAssumption
     DEF Types, SnapshotIsNewest, logSnapshot, uiLogSnapshot, ganttSnapshot
<1> QED
  BY <1>1, TypeInit, TypeNext, PTL DEF Spec

(* What each step does to the three sequences.                             *)
LEMMA Steps ==
  ASSUME Types, [Next]_vars
  PROVE  \/ \E t \in Writer, n \in 0 .. MAX_LOG, d \in 0 .. 1 :
              /\ addLog(t)
              /\ n < MAX_LOG => d = 0
              /\ Grown(LogLines, LogLines', <<t, sent[t] + 1>>, n, d)
              /\ UiLines' = UiLines /\ ChartEntries' = ChartEntries
         \/ \E t \in Writer, n \in 0 .. UI_LOG_MAX, d \in 0 .. 1 :
              /\ n < UI_LOG_MAX => d = 0
              /\ \/ /\ pushLog(t)
                    /\ Grown(UiLines, UiLines', <<t, showing[t]>>, n, d)
                 \/ /\ pushNotice(t)
                    /\ Grown(UiLines, UiLines', <<t, sent[t] + 1>>, n, d)
              /\ LogLines' = LogLines /\ ChartEntries' = ChartEntries
         \/ \E t \in Writer, n \in 0 .. MAX_GANTT, d \in 0 .. 1 :
              /\ addGantt(t)
              /\ Grown(ChartEntries, ChartEntries', <<t, global_tick>>, n, d)
              /\ UiLines' = UiLines /\ LogLines' = LogLines
         \/ /\ countTick \/ UNCHANGED vars
            /\ UiLines' = UiLines /\ LogLines' = LogLines
            /\ ChartEntries' = ChartEntries
<1> USE DEF LogLines, UiLines, ChartEntries, logSnapshot, uiLogSnapshot, ganttSnapshot
<1>1. \A t \in Writer : \A k \in Nat : <<t, k>> \in Slot
  BY DEF Slot, Line
<1>2. ASSUME NEW t \in Writer, addLog(t)
      PROVE  \E n \in 0 .. MAX_LOG, d \in 0 .. 1 :
              /\ n < MAX_LOG => d = 0
              /\ Grown(LogLines, LogLines', <<t, sent[t] + 1>>, n, d)
  <2>1. <<t, sent[t] + 1>> \in Slot
    BY <1>1 DEF Types
  <2>2. log_buf' = put(log_buf, MAX_LOG, <<t, sent[t] + 1>>)
    BY <1>2 DEF addLog
  <2> QED
    BY <2>1, <2>2, PutGrows, EventLogAssumption DEF Types
<1>3. ASSUME NEW t \in Writer, NEW k \in Nat,
             log_entries' = put(log_entries, UI_LOG_MAX, <<t, k>>)
      PROVE  \E n \in 0 .. UI_LOG_MAX, d \in 0 .. 1 :
              /\ n < UI_LOG_MAX => d = 0
              /\ Grown(UiLines, UiLines', <<t, k>>, n, d)
  <2>1. <<t, k>> \in Slot
    BY <1>1
  <2> QED
    BY <2>1, <1>3, PutGrows, EventLogAssumption DEF Types
<1>4. ASSUME NEW t \in Writer, addGantt(t)
      PROVE  \E n \in 0 .. MAX_GANTT, d \in 0 .. 1 :
              Grown(ChartEntries, ChartEntries', <<t, global_tick>>, n, d)
  <2>1. <<t, global_tick>> \in Slot
    BY <1>1 DEF Types
  <2>2. gantt_buf' = put(gantt_buf, MAX_GANTT, <<t, global_tick>>)
    BY <1>4 DEF addGantt
  <2> QED
    BY <2>1, <2>2, PutGrows, EventLogAssumption DEF Types
<1>5. CASE \E t \in Writer : addLog(t)
  BY <1>2, <1>5 DEF addLog
<1>6. CASE \E t \in Writer : pushLog(t)
  <2>1. PICK t \in Writer : pushLog(t)
    BY <1>6
  <2>2. showing[t] \in Nat
    BY DEF Types
  <2> QED
    BY <1>3, <2>1, <2>2 DEF pushLog
<1>7. CASE \E t \in Writer : pushNotice(t)
  <2>1. PICK t \in Writer : pushNotice(t)
    BY <1>7
  <2>2. sent[t] + 1 \in Nat
    BY DEF Types
  <2>3. \E n \in 0 .. UI_LOG_MAX, d \in 0 .. 1 :
           /\ n < UI_LOG_MAX => d = 0
           /\ Grown(UiLines, UiLines', <<t, sent[t] + 1>>, n, d)
    BY <1>3, <2>1, <2>2 DEF pushNotice
  <2> QED
    BY <2>1, <2>3 DEF pushNotice
<1>8. CASE \E t \in Writer : addGantt(t)
  BY <1>4, <1>8 DEF addGantt
<1>9. CASE countTick \/ UNCHANGED vars
  BY <1>9 DEF countTick, vars
<1> QED
  BY <1>5, <1>6, <1>7, <1>8, <1>9 DEF Next

(* The entries after a put: the new one, and ones from before.             *)
LEMMA GrownEntries ==
  ASSUME NEW s, NEW t, NEW e, NEW n \in Nat, NEW d \in 0 .. 1, Grown(s, t, e, n, d)
  PROVE  /\ n + 1 - d \in DOMAIN t
         /\ \A i \in DOMAIN t :
               \/ i = n + 1 - d /\ t[i] = e
               \/ i \in 1 .. n - d /\ i + d \in DOMAIN s /\ t[i] = s[i + d]
         /\ \A i \in 1 .. n - d : i \in DOMAIN t
BY DEF Grown

-----------------------------------------------------------------------------
(* Order.                                                                  *)

ChartKnown ==
  \A i \in DOMAIN ChartEntries :
     ChartEntries[i][2] \in Nat /\ ChartEntries[i][2] <= global_tick

LEMMA EmptyViews ==
  Init => LogLines = <<>> /\ UiLines = <<>> /\ ChartEntries = <<>>
<1>1. NoEntry \in Slot /\ MAX_LOG \in Nat /\ UI_LOG_MAX \in Nat /\ MAX_GANTT \in Nat
  BY EventLogAssumption DEF Slot
<1> QED
  BY <1>1, EmptyIsRing, EventLogAssumption
     DEF Init, LogLines, UiLines, ChartEntries, logSnapshot, uiLogSnapshot,
         ganttSnapshot

LEMMA ChartNext ==
  ASSUME Types, ChartKnown, ChartInTickOrder, [Next]_vars
  PROVE  ChartKnown' /\ ChartInTickOrder'
<1> USE DEF ChartEntries
<1>0. global_tick \in Nat
  BY DEF Types
<1>1. CASE ChartEntries' = ChartEntries /\ global_tick' \in {global_tick, global_tick + 1}
  BY <1>0, <1>1 DEF ChartKnown, ChartInTickOrder
<1>2. ASSUME NEW t \in Writer, NEW n \in Nat, NEW d \in 0 .. 1,
             Grown(ChartEntries, ChartEntries', <<t, global_tick>>, n, d),
             global_tick' = global_tick
      PROVE  ChartKnown' /\ ChartInTickOrder'
  <2> PICK s, u : s = ChartEntries /\ u = ChartEntries'
    OBVIOUS
  <2>1. /\ \A i \in DOMAIN u :
             \/ i = n + 1 - d /\ u[i] = <<t, global_tick>>
             \/ i \in 1 .. n - d /\ i + d \in DOMAIN s /\ u[i] = s[i + d]
    BY <1>2, GrownEntries
  <2>2. \A i \in DOMAIN u : u[i][2] \in Nat /\ u[i][2] <= global_tick
    BY <1>0, <2>1 DEF ChartKnown
  <2>3. ASSUME NEW i \in DOMAIN u, NEW k \in DOMAIN u, i < k
        PROVE  u[i][2] <= u[k][2]
    <3>1. CASE k = n + 1 - d /\ u[k] = <<t, global_tick>>
      BY <2>2, <3>1
    <3>2. CASE k \in 1 .. n - d /\ k + d \in DOMAIN s /\ u[k] = s[k + d]
      <4>1. i \in 1 .. n - d /\ i + d \in DOMAIN s /\ u[i] = s[i + d]
        BY <2>1, <2>3, <3>2
      <4>2. i + d < k + d
        BY <2>3, <3>2, <4>1
      <4> QED
        BY <3>2, <4>1, <4>2 DEF ChartInTickOrder
    <3> QED
      BY <2>1, <3>1, <3>2
  <2> QED
    BY <1>2, <2>2, <2>3 DEF ChartKnown, ChartInTickOrder
<1>3. CASE \E t \in Writer, n \in 0 .. MAX_GANTT, d \in 0 .. 1 :
              /\ addGantt(t)
              /\ Grown(ChartEntries, ChartEntries', <<t, global_tick>>, n, d)
  BY <1>2, <1>3, EventLogAssumption DEF addGantt
<1>4. CASE \E t \in Writer : addLog(t) \/ pushLog(t) \/ pushNotice(t)
  BY <1>4, <1>1 DEF addLog, pushLog, pushNotice, ganttSnapshot
<1>5. CASE countTick \/ UNCHANGED vars
  BY <1>5, <1>1 DEF countTick, vars, ganttSnapshot
<1> QED
  BY <1>3, <1>4, <1>5, Steps DEF Next

(* ChartInTickOrder: global_tick_ is read inside the section that enters   *)
(* the tick, so no worker enters an older one after a newer one.           *)
THEOREM ChartIsOrdered == Spec => []ChartInTickOrder
<1>1. Init => ChartKnown /\ ChartInTickOrder
  BY EmptyViews DEF ChartKnown, ChartInTickOrder, ChartEntries
<1> QED
  BY <1>1, ChartNext, TypeInit, TypeNext, PTL DEF Spec

InThreadOrder(s) ==
  \A i, k \in DOMAIN s : i < k /\ s[i][1] = s[k][1] => s[i][2] < s[k][2]

(* A line in a log has been written; the one a thread is about to show is  *)
(* its last, and all of its lines that are shown are older.                *)
LinesKnown ==
  /\ \A t \in Writer : showing[t] # 0 => showing[t] = sent[t]
  /\ \A i \in DOMAIN LogLines :
        LogLines[i] \in Line /\ LogLines[i][2] <= sent[LogLines[i][1]]
  /\ \A i \in DOMAIN UiLines :
        /\ UiLines[i] \in Line
        /\ UiLines[i][2] <= sent[UiLines[i][1]]
        /\ showing[UiLines[i][1]] # 0 => UiLines[i][2] < showing[UiLines[i][1]]

OrderInv == LinesKnown /\ InThreadOrder(LogLines) /\ InThreadOrder(UiLines)

LEMMA GrownInOrder ==
  ASSUME NEW s, NEW u, NEW e \in Line, NEW n \in Nat, NEW d \in 0 .. 1,
         Grown(s, u, e, n, d), InThreadOrder(s),
         \A i \in DOMAIN s : s[i] \in Line /\ (s[i][1] = e[1] => s[i][2] < e[2])
  PROVE  InThreadOrder(u)
<1>1. \A i \in DOMAIN u :
         \/ i = n + 1 - d /\ u[i] = e
         \/ i \in 1 .. n - d /\ i + d \in DOMAIN s /\ u[i] = s[i + d]
  BY GrownEntries
<1>2. ASSUME NEW i \in DOMAIN u, NEW k \in DOMAIN u, i < k, u[i][1] = u[k][1]
      PROVE  u[i][2] < u[k][2]
  <2>1. i \in 1 .. n - d /\ i + d \in DOMAIN s /\ u[i] = s[i + d]
    BY <1>1, <1>2
  <2>2. CASE k = n + 1 - d /\ u[k] = e
    BY <1>2, <2>1, <2>2
  <2>3. CASE k \in 1 .. n - d /\ k + d \in DOMAIN s /\ u[k] = s[k + d]
    <3>1. i + d < k + d
      BY <1>2, <2>1, <2>3
    <3> QED
      BY <1>2, <2>1, <2>3, <3>1 DEF InThreadOrder
  <2> QED
    BY <1>1, <2>2, <2>3
<1> QED
  BY <1>2 DEF InThreadOrder

LEMMA OrderNext ==
  ASSUME Types, OrderInv, [Next]_vars
  PROVE  OrderInv'
<1>0. sent \in [Writer -> Nat] /\ showing \in [Writer -> Nat]
  BY DEF Types
<1>1. ASSUME NEW t \in Writer, addLog(t), NEW n \in Nat, NEW d \in 0 .. 1,
             Grown(LogLines, LogLines', <<t, sent[t] + 1>>, n, d),
             UiLines' = UiLines
      PROVE  OrderInv'
  <2> PICK s, u : s = LogLines /\ u = LogLines'
    OBVIOUS
  <2>1. /\ sent' = [sent EXCEPT ![t] = @ + 1]
        /\ showing' = [showing EXCEPT ![t] = sent[t] + 1]
    BY <1>1 DEF addLog
  <2>2. <<t, sent[t] + 1>> \in Line
    BY <1>0 DEF Line
  <2>3. \A i \in DOMAIN s : s[i] \in Line /\ s[i][2] <= sent[s[i][1]]
    BY DEF OrderInv, LinesKnown
  <2>4. \A i \in DOMAIN s : s[i][1] = t => s[i][2] < sent[t] + 1
    BY <1>0, <2>3 DEF Line
  <2>5. InThreadOrder(u)
    BY <1>1, <2>2, <2>3, <2>4, GrownInOrder DEF OrderInv
  <2>6. \A i \in DOMAIN u : u[i] \in Line /\ u[i][2] <= sent'[u[i][1]]
    <3> TAKE i \in DOMAIN u
    <3>1. \A m \in Line : m[2] <= sent[m[1]] => m[2] <= sent'[m[1]]
      BY <1>0, <2>1 DEF Line
    <3>2. sent'[t] = sent[t] + 1
      BY <1>0, <2>1
    <3>3. \/ u[i] = <<t, sent[t] + 1>>
          \/ \E k \in DOMAIN s : u[i] = s[k]
      BY <1>1, GrownEntries
    <3> QED
      BY <1>0, <2>2, <2>3, <3>1, <3>2, <3>3
  <2>7. ASSUME NEW i \in DOMAIN UiLines
        PROVE  LET m == UiLines[i]
               IN /\ m \in Line /\ m[2] <= sent'[m[1]]
                  /\ showing'[m[1]] # 0 => m[2] < showing'[m[1]]
    <3>1. \A m \in Line :
             m[2] <= sent[m[1]] /\ (showing[m[1]] # 0 => m[2] < showing[m[1]])
               => /\ m[2] <= sent'[m[1]]
                  /\ showing'[m[1]] # 0 => m[2] < showing'[m[1]]
      BY <1>0, <2>1 DEF Line
    <3> QED
      BY <3>1 DEF OrderInv, LinesKnown
  <2>8. \A v \in Writer : showing'[v] # 0 => showing'[v] = sent'[v]
    BY <1>0, <2>1 DEF OrderInv, LinesKnown
  <2> QED
    BY <1>1, <2>5, <2>6, <2>7, <2>8 DEF OrderInv, LinesKnown
<1>2. ASSUME NEW t \in Writer, NEW k \in Nat, NEW n \in Nat, NEW d \in 0 .. 1,
             Grown(UiLines, UiLines', <<t, k>>, n, d),
             LogLines' = LogLines,
             \/ pushLog(t) /\ k = showing[t]
             \/ pushNotice(t) /\ k = sent[t] + 1
      PROVE  OrderInv'
  <2> PICK s, u : s = UiLines /\ u = UiLines'
    OBVIOUS
  <2>1. \/ /\ showing[t] # 0 /\ k = showing[t] /\ k = sent[t]
           /\ showing' = [showing EXCEPT ![t] = 0] /\ sent' = sent
        \/ /\ showing[t] = 0 /\ k = sent[t] + 1
           /\ sent' = [sent EXCEPT ![t] = @ + 1] /\ showing' = showing
    BY <1>2 DEF pushLog, pushNotice, OrderInv, LinesKnown
  <2>2. <<t, k>> \in Line
    BY DEF Line
  <2>3. /\ sent'[t] = k /\ showing'[t] = 0
        /\ \A v \in Writer : /\ sent'[v] >= sent[v] /\ sent'[v] \in Nat
                             /\ v # t => showing'[v] = showing[v]
    BY <1>0, <2>1
  <2>4. \A i \in DOMAIN s :
           /\ s[i] \in Line /\ s[i][2] <= sent[s[i][1]]
           /\ showing[s[i][1]] # 0 => s[i][2] < showing[s[i][1]]
    BY DEF OrderInv, LinesKnown
  <2>5. \A i \in DOMAIN s : s[i][1] = t => s[i][2] < k
    <3> TAKE i \in DOMAIN s
    <3>1. s[i][2] \in Nat
      BY <2>4 DEF Line
    <3> QED
      BY <1>0, <2>1, <2>4, <3>1
  <2>6. InThreadOrder(u)
    BY <1>2, <2>2, <2>4, <2>5, GrownInOrder DEF OrderInv
  <2>7. ASSUME NEW i \in DOMAIN u
        PROVE  /\ u[i] \in Line /\ u[i][2] <= sent'[u[i][1]]
               /\ showing'[u[i][1]] # 0 => u[i][2] < showing'[u[i][1]]
    <3>1. \A m \in Line :
             m[2] <= sent[m[1]] /\ (showing[m[1]] # 0 => m[2] < showing[m[1]])
               => /\ m[2] <= sent'[m[1]]
                  /\ showing'[m[1]] # 0 => m[2] < showing'[m[1]]
      BY <1>0, <2>3 DEF Line
    <3>2. \/ u[i] = <<t, k>>
          \/ \E j \in DOMAIN s : u[i] = s[j]
      BY <1>2, GrownEntries
    <3> QED
      BY <2>2, <2>3, <2>4, <3>1, <3>2
  <2>8. \A i \in DOMAIN LogLines :
           LogLines[i] \in Line /\ LogLines[i][2] <= sent'[LogLines[i][1]]
    <3>1. \A m \in Line : m[2] <= sent[m[1]] => m[2] <= sent'[m[1]]
      BY <1>0, <2>3 DEF Line
    <3> QED
      BY <3>1 DEF OrderInv, LinesKnown
  <2>9. \A v \in Writer : showing'[v] # 0 => showing'[v] = sent'[v]
    BY <1>0, <2>1 DEF OrderInv, LinesKnown
  <2> QED
    BY <1>2, <2>6, <2>7, <2>8, <2>9 DEF OrderInv, LinesKnown
<1>3. ASSUME UNCHANGED <<sent, showing>>, LogLines' = LogLines, UiLines' = UiLines
      PROVE  OrderInv'
  BY <1>3 DEF OrderInv, LinesKnown
<1>4. CASE \E t \in Writer, n \in 0 .. MAX_LOG, d \in 0 .. 1 :
              /\ addLog(t)
              /\ Grown(LogLines, LogLines', <<t, sent[t] + 1>>, n, d)
              /\ UiLines' = UiLines
  BY <1>1, <1>4, EventLogAssumption
<1>5. CASE \E t \in Writer, n \in 0 .. UI_LOG_MAX, d \in 0 .. 1 :
              /\ \/ /\ pushLog(t)
                    /\ Grown(UiLines, UiLines', <<t, showing[t]>>, n, d)
                 \/ /\ pushNotice(t)
                    /\ Grown(UiLines, UiLines', <<t, sent[t] + 1>>, n, d)
              /\ LogLines' = LogLines
  <2>1. \A t \in Writer : showing[t] \in Nat /\ sent[t] + 1 \in Nat
    BY <1>0
  <2>2. UI_LOG_MAX \in Nat
    BY EventLogAssumption
  <2> QED
    BY <1>2, <1>5, <2>1, <2>2
<1>6. CASE \E t \in Writer : addGantt(t)
  BY <1>3, <1>6 DEF addGantt, LogLines, UiLines, logSnapshot, uiLogSnapshot
<1>7. CASE countTick \/ UNCHANGED vars
  BY <1>3, <1>7 DEF countTick, vars, LogLines, UiLines, logSnapshot, uiLogSnapshot
<1> QED
  BY <1>4, <1>5, <1>6, <1>7, Steps

LEMMA OrderInit == Init => OrderInv
<1> SUFFICES ASSUME Init PROVE OrderInv
  OBVIOUS
<1>1. DOMAIN LogLines = {} /\ DOMAIN UiLines = {}
  BY EmptyViews
<1>2. \A t \in Writer : showing[t] = 0
  BY DEF Init
<1> QED
  BY <1>1, <1>2 DEF OrderInv, LinesKnown, InThreadOrder

(* ThreadOrder: in both logs the lines of one thread keep their order,     *)
(* although a line reaches the UI's log only after the mutex is given up.  *)
THEOREM LinesAreOrdered == Spec => []ThreadOrder
<1>1. OrderInv => ThreadOrder
  BY DEF OrderInv, ThreadOrder, InThreadOrder, LogLines, UiLines
<1> QED
  BY <1>1, OrderInit, OrderNext, TypeInit, TypeNext, PTL DEF Spec

-----------------------------------------------------------------------------
(* The rings implement LogSpec.                                            *)

LEMMA RefineInit == Init => Abstract!SpecInit
BY EmptyViews
   DEF Init, Abstract!SpecInit, LogLines, UiLines, ChartEntries

LEMMA RefineNext ==
  ASSUME Types, [Next]_vars
  PROVE  [Abstract!SpecNext]_Abstract!specVars
<1> USE DEF logSnapshot, uiLogSnapshot, ganttSnapshot
<1>0. \A t \in Writer : \A k \in Nat : <<t, k>> \in Slot
  BY DEF Slot, Line
<1>1. ASSUME NEW t \in Writer, addLog(t)
      PROVE  Abstract!Log(t)
  <2>1. sent[t] + 1 \in Nat
    BY DEF Types
  <2>2. latest(log_buf', MAX_LOG, MAX_LOG) =
          Abstract!newest(Append(latest(log_buf, MAX_LOG, MAX_LOG), <<t, sent[t] + 1>>), MAX_LOG)
    BY <1>0, <1>1, <2>1, PutIsNewest, EventLogAssumption DEF addLog, Types
  <2> QED
    BY <1>1, <2>2 DEF addLog, Abstract!Log
<1>2. ASSUME NEW t \in Writer, pushLog(t)
      PROVE  Abstract!Show(t)
  <2>1. showing[t] \in Nat
    BY DEF Types
  <2>2. latest(log_entries', UI_LOG_MAX, UI_LOG_MAX) =
          Abstract!newest(Append(latest(log_entries, UI_LOG_MAX, UI_LOG_MAX), <<t, showing[t]>>), UI_LOG_MAX)
    BY <1>0, <1>2, <2>1, PutIsNewest, EventLogAssumption DEF pushLog, Types
  <2> QED
    BY <1>2, <2>2 DEF pushLog, Abstract!Show
<1>3. ASSUME NEW t \in Writer, pushNotice(t)
      PROVE  Abstract!Notice
  <2>1. t = Gui /\ sent[t] + 1 \in Nat
    BY <1>3 DEF Types, pushNotice, inNotices
  <2>2. latest(log_entries', UI_LOG_MAX, UI_LOG_MAX) =
          Abstract!newest(Append(latest(log_entries, UI_LOG_MAX, UI_LOG_MAX), <<t, sent[t] + 1>>), UI_LOG_MAX)
    BY <1>0, <1>3, <2>1, PutIsNewest, EventLogAssumption DEF pushNotice, Types
  <2> QED
    BY <1>3, <2>1, <2>2 DEF pushNotice, Abstract!Notice
<1>4. ASSUME NEW t \in Writer, addGantt(t)
      PROVE  Abstract!Record(t)
  <2>1. t # Gui /\ global_tick \in Nat
    BY <1>4, EventLogAssumption DEF Types, addGantt
  <2>2. latest(gantt_buf', MAX_GANTT, MAX_GANTT) =
          Abstract!newest(Append(latest(gantt_buf, MAX_GANTT, MAX_GANTT), <<t, global_tick>>), MAX_GANTT)
    BY <1>0, <1>4, <2>1, PutIsNewest, EventLogAssumption DEF addGantt, Types
  <2> QED
    BY <1>4, <2>1, <2>2 DEF addGantt, Abstract!Record
<1>5. countTick => Abstract!Advance
  BY DEF countTick, Abstract!Advance
<1>6. UNCHANGED vars => UNCHANGED Abstract!specVars
  BY DEF vars, Abstract!specVars
<1> QED
  BY <1>1, <1>2, <1>3, <1>4, <1>5, <1>6 DEF Next, Abstract!SpecNext

(* ImplementsLogSpec: for any size of the rings and any number of lines,   *)
(* the log, the UI's log and the chart each hold the newest entries in the *)
(* order in which they entered.                                            *)
THEOREM RingsImplementLogs == Spec => ImplementsLogSpec
BY RefineInit, RefineNext, TypeInit, TypeNext, PTL
   DEF Spec, ImplementsLogSpec, Abstract!Spec

-----------------------------------------------------------------------------
(* What is logged is shown.                                                *)

isNotice(m) ==
  m[1] = Gui /\ m[2] \in START_LINES + 1 .. START_LINES + NOTICES

(* The threads between the log and the callback.                           *)
Held == {t \in Writer : showing[t] # 0}

(* The lines that were logged after the i-th one, as far as the log has    *)
(* them: all of them, since it has the i-th.                               *)
later(i) == {LogLines[j] : j \in {x \in DOMAIN LogLines : x > i}}

(* The threads that hold back a line logged before that one.               *)
oldHeld(i) == {t \in Held : <<t, showing[t]>> \notin later(i)}

(* Where v has, behind place k, a line logged earlier than those of new.   *)
oldAt(new, v, k) ==
  {x \in DOMAIN v : x > k /\ v[x] \notin new /\ ~ isNotice(v[x])}

threadsAt(v, X) == {v[x][1] : x \in X}

(* Line m is shown at place k of v, and what came in behind it are lines   *)
(* of the set new, notices, and lines of fewer than h other threads, at    *)
(* most one of each, that had been logged before m.  The threads of held   *)
(* still hold back such a line.                                            *)
Follows(m, new, held, v, k, h) ==
  LET old == oldAt(new, v, k)
  IN /\ k \in DOMAIN v /\ v[k] = m
     /\ m[1] \notin held
     /\ \A x \in old :
           /\ v[x][1] \notin held \cup {m[1]}
           /\ \A y \in old : v[x][1] = v[y][1] => x = y
     /\ Cardinality(held \cup threadsAt(v, old)) < h

LinesShown(h) ==
  \A i \in DOMAIN LogLines :
     LET m == LogLines[i]
     IN /\ m[2] # 0
        /\ \/ showing[m[1]] = m[2]
           \/ \E k \in DOMAIN UiLines :
                 Follows(m, later(i), oldHeld(i), UiLines, k, h)

LEMMA UnionAtMost ==
  ASSUME NEW S, NEW T, IsFiniteSet(S), IsFiniteSet(T)
  PROVE  /\ IsFiniteSet(S \cup T)
         /\ Cardinality(S) \in Nat /\ Cardinality(T) \in Nat
         /\ Cardinality(S \cup T) \in Nat
         /\ Cardinality(S \cup T) <= Cardinality(S) + Cardinality(T)
<1>1. IsFiniteSet(S \cup T) /\
      Cardinality(S \cup T) = Cardinality(S) + Cardinality(T) - Cardinality(S \cap T)
  BY FS_Union
<1>2. IsFiniteSet(S \cap T)
  <2>1. S \cap T \in SUBSET S
    OBVIOUS
  <2> QED
    BY <2>1, FS_Subset
<1>3. /\ Cardinality(S) \in Nat /\ Cardinality(T) \in Nat
      /\ Cardinality(S \cap T) \in Nat
      /\ Cardinality(S \cup T) \in Nat
  BY <1>1, <1>2, FS_CardinalityType
<1>4. PICK a, b, c \in Nat : /\ a = Cardinality(S) /\ b = Cardinality(T)
                            /\ c = Cardinality(S \cap T)
  BY <1>3
<1>5. a + b - c <= a + b
  OBVIOUS
<1> QED
  BY <1>1, <1>3, <1>4, <1>5

(* A one-to-one map into a set of at most c elements.                      *)
LEMMA AtMostByMap ==
  ASSUME NEW S, NEW T, IsFiniteSet(T), NEW f \in [S -> T],
         \A x, y \in S : f[x] = f[y] => x = y
  PROVE  /\ IsFiniteSet(S) /\ Cardinality(S) \in Nat /\ Cardinality(T) \in Nat
         /\ Cardinality(S) <= Cardinality(T)
<1>1. f \in Injection(S, T)
  BY DEF Injection, IsInjective
<1>2. IsFiniteSet(S) /\ Cardinality(S) <= Cardinality(T)
  BY <1>1, FS_Injection
<1> QED
  BY <1>2, FS_CardinalityType

LEMMA IntervalSize ==
  ASSUME NEW a \in Int, NEW b \in Int, a <= b + 1
  PROVE  IsFiniteSet(a .. b) /\ Cardinality(a .. b) = b - a + 1
<1>1. IsFiniteSet(a .. b) /\ Cardinality(a .. b) = IF a > b THEN 0 ELSE b - a + 1
  BY FS_Interval
<1> QED
  BY <1>1

(* How far a shown line can be from the end of the UI's log.               *)
LEMMA Room ==
  ASSUME NEW h \in Nat \ {0}, NEW c \in Nat, NEW n \in Nat, NEW v,
         DOMAIN v = 1 .. n, \A x \in 1 .. n : v[x] \in Line, InThreadOrder(v),
         NEW new, IsFiniteSet(new), Cardinality(new) <= c,
         NEW held \in SUBSET Writer,
         NEW k \in Nat, NEW m, Follows(m, new, held, v, k, h)
  PROVE  n - k <= c + NOTICES + h - 1
<1> DEFINE A == {x \in k + 1 .. n : v[x] \in new}
           B == {x \in k + 1 .. n : isNotice(v[x])}
           C == oldAt(new, v, k)
           T == held \cup threadsAt(v, C)
<1>1. \A x \in k + 1 .. n : x \in 1 .. n /\ v[x] \in Line
  OBVIOUS
<1>2. \A x, y \in 1 .. n : v[x] = v[y] => x = y
  <2>1. \A x \in 1 .. n : v[x][2] \in Nat
    BY DEF Line
  <2> QED
    BY <2>1 DEF InThreadOrder
<1>3. IsFiniteSet(A) /\ Cardinality(A) \in Nat /\ Cardinality(A) <= c
  <2> DEFINE f == [x \in A |-> v[x]]
  <2>1. f \in [A -> new] /\ \A x, y \in A : f[x] = f[y] => x = y
    BY <1>1, <1>2
  <2> HIDE DEF f, A
  <2>2. /\ IsFiniteSet(A) /\ Cardinality(A) \in Nat /\ Cardinality(new) \in Nat
        /\ Cardinality(A) <= Cardinality(new)
    BY <2>1, AtMostByMap
  <2> QED
    BY <2>2
<1>4. IsFiniteSet(B) /\ Cardinality(B) \in Nat /\ Cardinality(B) <= NOTICES
  <2> DEFINE f == [x \in B |-> v[x][2]]
             N == START_LINES + 1 .. START_LINES + NOTICES
  <2>1. f \in [B -> N]
    BY DEF isNotice
  <2>2. \A x, y \in B : f[x] = f[y] => x = y
    <3>1. \A x, y \in B : v[x][1] = v[y][1]
      BY DEF isNotice
    <3>2. \A x \in B : x \in 1 .. n /\ v[x][2] \in Nat
      BY <1>1 DEF Line
    <3> QED
      BY <3>1, <3>2 DEF InThreadOrder
  <2>3. IsFiniteSet(N) /\ Cardinality(N) = NOTICES
    <3>1. START_LINES \in Nat /\ NOTICES \in Nat
      BY EventLogAssumption
    <3>2. START_LINES + 1 \in Int /\ START_LINES + NOTICES \in Int
          /\ START_LINES + 1 <= START_LINES + NOTICES + 1
          /\ START_LINES + NOTICES - (START_LINES + 1) + 1 = NOTICES
      BY <3>1
    <3> PICK a, b \in Int : a = START_LINES + 1 /\ b = START_LINES + NOTICES
      BY <3>2
    <3>3. IsFiniteSet(a .. b) /\ Cardinality(a .. b) = b - a + 1
      BY <3>2, IntervalSize
    <3>4. b - a + 1 = NOTICES
      BY <3>1
    <3> QED
      BY <3>3, <3>4
  <2> HIDE DEF f, B, N
  <2>4. IsFiniteSet(B) /\ Cardinality(B) \in Nat /\ Cardinality(B) <= Cardinality(N)
    BY <2>1, <2>2, <2>3, AtMostByMap
  <2> QED
    BY <2>3, <2>4
<1>5. IsFiniteSet(C) /\ Cardinality(C) \in Nat /\ Cardinality(C) <= h - 1
  <2> DEFINE f == [x \in C |-> v[x][1]]
  <2>1. f \in [C -> T]
    BY DEF threadsAt
  <2>2. \A x, y \in C : f[x] = f[y] => x = y
    BY DEF Follows
  <2>3. IsFiniteSet(T)
    <3>1. \A x \in C : v[x][1] \in Writer
      BY <1>1 DEF oldAt, Line
    <3>2. T \in SUBSET Writer
      BY <3>1 DEF threadsAt
    <3> QED
      BY <3>2, FS_Subset, EventLogAssumption
  <2>4. Cardinality(T) < h
    BY DEF Follows
  <2> HIDE DEF f, C, T
  <2>5. /\ IsFiniteSet(C) /\ Cardinality(C) \in Nat /\ Cardinality(T) \in Nat
        /\ Cardinality(C) <= Cardinality(T)
    BY <2>1, <2>2, <2>3, AtMostByMap
  <2> QED
    BY <2>4, <2>5
<1>6. k + 1 .. n = A \cup (B \cup C)
  BY DEF oldAt
<1>7. k \in 1 .. n
  BY DEF Follows
<1> HIDE DEF A, B, C
<1>8. /\ Cardinality(B \cup C) \in Nat
      /\ IsFiniteSet(B \cup C)
      /\ Cardinality(B \cup C) <= Cardinality(B) + Cardinality(C)
  BY <1>4, <1>5, UnionAtMost
<1>9. Cardinality(A \cup (B \cup C)) <= Cardinality(A) + Cardinality(B \cup C)
  BY <1>3, <1>8, UnionAtMost
<1>10. Cardinality(k + 1 .. n) = n - k
  <2>1. k + 1 \in Int /\ n \in Int /\ k + 1 <= n + 1 /\ n - (k + 1) + 1 = n - k
    BY <1>7
  <2> QED
    BY <2>1, IntervalSize
<1>11. NOTICES \in Nat
  BY EventLogAssumption
<1>12. n - k <= Cardinality(A) + Cardinality(B \cup C)
  BY <1>6, <1>9, <1>10
<1> QED
  BY <1>3, <1>4, <1>5, <1>8, <1>11, <1>12

LEMMA FollowsLess ==
  ASSUME NEW m, NEW new, NEW held \in SUBSET Writer, NEW v, NEW k,
         NEW h \in Nat, Follows(m, new, held, v, k, h),
         \A x \in DOMAIN v : v[x] \in Line,
         NEW new2, new \subseteq new2, NEW held2, held2 \subseteq held
  PROVE  Follows(m, new2, held2, v, k, h)
<1> DEFINE T == held \cup threadsAt(v, oldAt(new, v, k))
           T2 == held2 \cup threadsAt(v, oldAt(new2, v, k))
<1>1. oldAt(new2, v, k) \subseteq oldAt(new, v, k)
  BY DEF oldAt
<1>2. T2 \subseteq T
  BY <1>1 DEF threadsAt
<1>3. IsFiniteSet(T)
  <2>1. \A x \in oldAt(new, v, k) : v[x][1] \in Writer
    BY DEF oldAt, Line
  <2>2. T \in SUBSET Writer
    BY <2>1 DEF threadsAt
  <2> QED
    BY <2>2, FS_Subset, EventLogAssumption
<1>4. Cardinality(T) < h
  BY DEF Follows
<1> HIDE DEF T, T2
<1>5. Cardinality(T2) < h
  <2>1. Cardinality(T2) <= Cardinality(T) /\ IsFiniteSet(T2)
    BY <1>2, <1>3, FS_Subset
  <2>2. Cardinality(T2) \in Nat /\ Cardinality(T) \in Nat
    BY <1>3, <2>1, FS_CardinalityType
  <2> QED
    BY <1>4, <2>1, <2>2
<1> QED
  BY <1>1, <1>5 DEF Follows, T2

(* s with e at its end, and nothing dropped yet.                           *)
longer(s, e, n) == [x \in 1 .. n + 1 |-> IF x = n + 1 THEN e ELSE s[x]]

(* Another line comes in.  If it is an old one, its thread held it back.   *)
LEMMA FollowsShow ==
  ASSUME NEW m, NEW new, NEW held \in SUBSET Writer, NEW s, NEW k,
         NEW h \in Nat, Follows(m, new, held, s, k, h),
         NEW n \in Nat, DOMAIN s = 1 .. n, \A x \in DOMAIN s : s[x] \in Line,
         NEW e \in Line, isNotice(e) \/ e \in new \/ e[1] \in held
  PROVE  Follows(m, new, held \ {e[1]}, longer(s, e, n), k, h)
<1> DEFINE v == longer(s, e, n)
           S == oldAt(new, s, k)
           V == oldAt(new, v, k)
           T == held \cup threadsAt(s, S)
           T2 == (held \ {e[1]}) \cup threadsAt(v, V)
<1>1. /\ DOMAIN v = 1 .. n + 1 /\ v[n + 1] = e
      /\ \A x \in 1 .. n : x \in DOMAIN v /\ v[x] = s[x]
      /\ \A x \in 1 .. n + 1 : x \in 1 .. n \/ x = n + 1
  BY DEF longer
<1> HIDE DEF v
<1>2. k \in 1 .. n /\ v[k] = m
  BY <1>1 DEF Follows
<1>3. \A x \in V : \/ x \in S /\ v[x] = s[x]
                   \/ x = n + 1 /\ v[x] = e /\ e[1] \in held
  BY <1>1 DEF oldAt
<1>4. \A x \in S : /\ s[x][1] \notin held \cup {m[1]}
                  /\ \A y \in S : s[x][1] = s[y][1] => x = y
  BY DEF Follows
<1>5. m[1] \notin held
  BY DEF Follows
<1> HIDE DEF S, V
<1>6. ASSUME NEW x \in V
      PROVE  /\ v[x][1] \notin (held \ {e[1]}) \cup {m[1]}
             /\ \A y \in V : v[x][1] = v[y][1] => x = y
  <2>1. CASE x = n + 1 /\ v[x] = e /\ e[1] \in held
    BY <1>3, <1>4, <1>5, <2>1
  <2>2. CASE x \in S /\ v[x] = s[x]
    BY <1>3, <1>4, <1>5, <2>2
  <2> QED
    BY <1>3, <2>1, <2>2
<1>7. T2 \subseteq T
  BY <1>3 DEF threadsAt
<1>8. IsFiniteSet(T)
  <2>1. \A x \in S : s[x][1] \in Writer
    BY DEF S, oldAt, Line
  <2>2. T \in SUBSET Writer
    BY <2>1 DEF threadsAt
  <2> QED
    BY <2>2, FS_Subset, EventLogAssumption
<1>9. Cardinality(T) < h
  BY DEF Follows, S
<1> HIDE DEF T, T2
<1>10. Cardinality(T2) < h
  <2>1. Cardinality(T2) <= Cardinality(T) /\ IsFiniteSet(T2)
    BY <1>7, <1>8, FS_Subset
  <2>2. Cardinality(T2) \in Nat /\ Cardinality(T) \in Nat
    BY <1>8, <2>1, FS_CardinalityType
  <2> QED
    BY <1>9, <2>1, <2>2
<1>11. Follows(m, new, held \ {e[1]}, v, k, h)
  BY <1>1, <1>2, <1>5, <1>6, <1>10 DEF Follows, V, T2
<1> QED
  BY <1>11 DEF v

(* The line itself comes in, while fewer than h threads hold older ones.   *)
LEMMA FollowsItself ==
  ASSUME NEW new, NEW held, NEW s, NEW h \in Nat, NEW n \in Nat,
         NEW e, e[1] \notin held, Cardinality(held) < h
  PROVE  Follows(e, new, held, longer(s, e, n), n + 1, h)
<1> DEFINE v == longer(s, e, n)
<1>1. DOMAIN v = 1 .. n + 1 /\ v[n + 1] = e
  BY DEF longer
<1> HIDE DEF v
<1>2. oldAt(new, v, n + 1) = {}
  BY <1>1 DEF oldAt
<1>3. held \cup threadsAt(v, oldAt(new, v, n + 1)) = held
  BY <1>2 DEF threadsAt
<1>4. Cardinality(held \cup threadsAt(v, oldAt(new, v, n + 1))) < h
  BY <1>3
<1>5. n + 1 \in DOMAIN v
  BY <1>1
<1>6. Follows(e, new, held, v, n + 1, h)
  BY <1>1, <1>2, <1>4, <1>5 DEF Follows
<1> QED
  BY <1>6 DEF v

(* When the ring then drops its oldest line, that is not the shown one:    *)
(* here the UI's log has to be larger than the scheduler's.                *)
LEMMA FollowsDrop ==
  ASSUME NEW h \in Nat \ {0}, UI_LOG_MAX >= MAX_LOG + NOTICES + h - 1,
         NEW s, NEW u, NEW e \in Line, NEW n \in 0 .. UI_LOG_MAX, NEW d \in 0 .. 1,
         n < UI_LOG_MAX => d = 0, Grown(s, u, e, n, d), InThreadOrder(s),
         \A i \in DOMAIN s : s[i] \in Line /\ (s[i][1] = e[1] => s[i][2] < e[2]),
         NEW new, IsFiniteSet(new), Cardinality(new) <= MAX_LOG - 1,
         NEW held \in SUBSET Writer,
         NEW m, NEW k, Follows(m, new, held, longer(s, e, n), k, h)
  PROVE  \E k2 \in DOMAIN u : Follows(m, new, held, u, k2, h)
<1> DEFINE v == longer(s, e, n)
<1>0. /\ n \in Nat /\ MAX_LOG \in Nat \ {0} /\ UI_LOG_MAX \in Nat /\ NOTICES \in Nat
      /\ d <= n /\ DOMAIN s = 1 .. n /\ DOMAIN u = 1 .. n + 1 - d
  BY EventLogAssumption DEF Grown
<1>1. /\ DOMAIN v = 1 .. n + 1 /\ v[n + 1] = e
      /\ \A x \in 1 .. n : x \in DOMAIN v /\ v[x] = s[x]
      /\ \A x \in 1 .. n + 1 : x \in 1 .. n \/ x = n + 1
  BY <1>0 DEF longer
<1>2. Follows(m, new, held, v, k, h)
  OBVIOUS
<1> HIDE DEF v
<1>3. Grown(s, v, e, n, 0)
  BY <1>0, <1>1 DEF Grown
<1>4. InThreadOrder(v)
  <2>1. 0 \in 0 .. 1
    OBVIOUS
  <2> QED
    BY <1>0, <1>3, <2>1, GrownInOrder
<1>5. \A x \in 1 .. n + 1 : v[x] \in Line
  BY <1>0, <1>1
<1>6. k \in 1 .. n + 1
  BY <1>1, <1>2 DEF Follows
<1>7. n + 1 - k <= MAX_LOG - 1 + NOTICES + h - 1
  <2>1. MAX_LOG - 1 \in Nat /\ n + 1 \in Nat /\ k \in Nat
    BY <1>0, <1>6
  <2>2. \A c \in Nat, nn \in Nat :
           /\ DOMAIN v = 1 .. nn /\ (\A x \in 1 .. nn : v[x] \in Line)
           /\ Cardinality(new) <= c
           => nn - k <= c + NOTICES + h - 1
    BY <1>2, <1>4, <2>1, Room
  <2> PICK c \in Nat, nn \in Nat : c = MAX_LOG - 1 /\ nn = n + 1
    BY <2>1
  <2>3. nn - k <= c + NOTICES + h - 1
    BY <1>1, <1>5, <2>2
  <2> QED
    BY <1>0, <1>6, <2>3
<1>8. k - d \in 1 .. n + 1 - d
  <2>1. CASE d = 0
    BY <1>0, <1>6, <2>1
  <2>2. CASE d = 1
    <3>1. n = UI_LOG_MAX
      BY <1>0, <2>2
    <3> QED
      BY <1>0, <1>6, <1>7, <2>2, <3>1
  <2> QED
    BY <2>1, <2>2
<1>9. \A x \in 1 .. n + 1 - d : x + d \in 1 .. n + 1 /\ u[x] = v[x + d]
  <2> TAKE x \in 1 .. n + 1 - d
  <2>1. x + d \in 1 .. n + 1
    BY <1>0
  <2>2. CASE x = n + 1 - d
    BY <1>0, <1>1, <2>2 DEF Grown
  <2>3. CASE x # n + 1 - d
    <3>1. x \in 1 .. n - d /\ x + d \in 1 .. n
      BY <1>0, <2>3
    <3> QED
      BY <1>1, <2>1, <3>1 DEF Grown
  <2> QED
    BY <2>1, <2>2, <2>3
<1> DEFINE V == oldAt(new, v, k)
           U == oldAt(new, u, k - d)
<1>10. \A x \in U : x \in 1 .. n + 1 - d /\ x + d \in V /\ u[x] = v[x + d]
  <2> TAKE x \in U
  <2>1. x \in 1 .. n + 1 - d /\ x > k - d
    BY <1>0 DEF oldAt
  <2>2. x + d \in 1 .. n + 1 /\ u[x] = v[x + d] /\ x + d > k
    BY <1>6, <1>9, <2>1
  <2> QED
    BY <1>1, <2>1, <2>2 DEF oldAt
<1>11. \A x \in V : /\ v[x][1] \notin held \cup {m[1]}
                   /\ \A y \in V : v[x][1] = v[y][1] => x = y
  BY <1>2 DEF Follows
<1>12. m[1] \notin held /\ v[k] = m
  BY <1>2 DEF Follows
<1>13. u[k - d] = m
  <2>1. k - d + d = k
    BY <1>6
  <2> QED
    BY <1>8, <1>9, <1>12, <2>1
<1> DEFINE T == held \cup threadsAt(v, V)
           T2 == held \cup threadsAt(u, U)
<1>14. Cardinality(T) < h
  BY <1>2 DEF Follows
<1>15. IsFiniteSet(T)
  <2>1. \A x \in V : v[x][1] \in Writer
    BY <1>1, <1>5 DEF oldAt, Line
  <2>2. T \in SUBSET Writer
    BY <2>1 DEF threadsAt
  <2> QED
    BY <2>2, FS_Subset, EventLogAssumption
<1> HIDE DEF U, V
<1>16. T2 \subseteq T
  BY <1>10 DEF threadsAt
<1>17. ASSUME NEW x \in U
       PROVE  /\ u[x][1] \notin held \cup {m[1]}
              /\ \A y \in U : u[x][1] = u[y][1] => x = y
  <2>1. u[x][1] \notin held \cup {m[1]}
    BY <1>10, <1>11
  <2>2. ASSUME NEW y \in U, u[x][1] = u[y][1] PROVE x = y
    <3>1. x + d = y + d
      BY <1>10, <1>11, <2>2
    <3>2. x \in Int /\ y \in Int
      BY <1>10
    <3> QED
      BY <3>1, <3>2
  <2> QED
    BY <2>1, <2>2
<1> HIDE DEF T, T2
<1>18. Cardinality(T2) < h
  <2>1. Cardinality(T2) <= Cardinality(T) /\ IsFiniteSet(T2)
    BY <1>15, <1>16, FS_Subset
  <2>2. Cardinality(T2) \in Nat /\ Cardinality(T) \in Nat
    BY <1>15, <2>1, FS_CardinalityType
  <2> QED
    BY <1>14, <2>1, <2>2
<1>19. k - d \in DOMAIN u
  BY <1>0, <1>8
<1>20. Follows(m, new, held, u, k - d, h)
  BY <1>12, <1>13, <1>17, <1>18, <1>19 DEF Follows, U, T2
<1> QED
  BY <1>19, <1>20

LEMMA LaterSize ==
  ASSUME Types, NEW i \in DOMAIN LogLines
  PROVE  IsFiniteSet(later(i)) /\ Cardinality(later(i)) <= MAX_LOG - 1
<1>1. PICK n \in Nat : n = log_buf.count /\ n <= MAX_LOG
  BY EventLogAssumption DEF Types, IsRing
<1>2. DOMAIN LogLines = 1 .. n
  <2>1. n = (IF log_buf.count < MAX_LOG THEN log_buf.count ELSE MAX_LOG)
    BY <1>1, EventLogAssumption
  <2>2. MAX_LOG \in Nat \ {0} /\ MAX_LOG \in Nat
    BY EventLogAssumption
  <2>3. IsRing(log_buf, MAX_LOG, Slot)
    BY DEF Types
  <2>4. PICK s : s = latest(log_buf, MAX_LOG, MAX_LOG)
    OBVIOUS
  <2>5. DOMAIN s = 1 .. n
    BY <2>1, <2>2, <2>3, <2>4, LatestIs
  <2> QED
    BY <2>4, <2>5 DEF LogLines, logSnapshot
<1> DEFINE f == [x \in later(i) |-> CHOOSE j \in i + 1 .. n : LogLines[j] = x]
<1>3. \A x \in later(i) : f[x] \in i + 1 .. n /\ LogLines[f[x]] = x
  <2> TAKE x \in later(i)
  <2>1. \E j \in i + 1 .. n : LogLines[j] = x
    BY <1>2 DEF later
  <2> QED
    BY <2>1
<1>4. f \in [later(i) -> i + 1 .. n] /\ \A x, y \in later(i) : f[x] = f[y] => x = y
  BY <1>3
<1> HIDE DEF f
<1>5. IsFiniteSet(i + 1 .. n) /\ Cardinality(i + 1 .. n) = n - i
  <2>1. /\ i + 1 \in Int /\ n \in Int /\ i + 1 <= n + 1 /\ n - (i + 1) + 1 = n - i
    BY <1>2
  <2> QED
    BY <2>1, IntervalSize
<1>6. /\ IsFiniteSet(later(i)) /\ Cardinality(later(i)) \in Nat
      /\ Cardinality(later(i)) <= Cardinality(i + 1 .. n)
  BY <1>4, <1>5, AtMostByMap
<1>7. i \in 1 .. n /\ MAX_LOG \in Nat
  BY <1>2, EventLogAssumption
<1> QED
  BY <1>1, <1>5, <1>6, <1>7

LEMMA HeldFinite == IsFiniteSet(Held) /\ \A t : IsFiniteSet(Held \ {t})
<1>1. Held \in SUBSET Writer /\ \A t : Held \ {t} \in SUBSET Writer
  BY DEF Held
<1> QED
  BY <1>1, FS_Subset, EventLogAssumption

(* A line is written.                                                      *)
LEMMA ShownAfterLog ==
  ASSUME NEW h \in Nat \ {0}, Types, OrderInv, LinesShown(h),
         NEW t \in Writer, addLog(t), NEW n \in Nat, NEW d \in 0 .. 1,
         Grown(LogLines, LogLines', <<t, sent[t] + 1>>, n, d),
         UiLines' = UiLines
  PROVE  LinesShown(h)'
<1> PICK s, u : s = LogLines /\ u = LogLines'
  OBVIOUS
<1> DEFINE e == <<t, sent[t] + 1>>
<1>1. sent[t] + 1 # 0 /\ showing \in [Writer -> Nat]
  BY DEF Types
<1>2. showing[t] = 0 /\ showing' = [showing EXCEPT ![t] = sent[t] + 1]
  BY DEF addLog
<1>3. /\ n + 1 - d \in DOMAIN u /\ u[n + 1 - d] = e
      /\ DOMAIN s = 1 .. n /\ DOMAIN u = 1 .. n + 1 - d /\ d <= n
      /\ \A i \in 1 .. n - d : u[i] = s[i + d]
  BY GrownEntries DEF Grown
<1> HIDE DEF e
<1>4. ASSUME NEW i \in 1 .. n - d
      PROVE  /\ i + d \in DOMAIN s /\ u[i] = s[i + d]
             /\ later(i + d) \subseteq later(i)' /\ e \in later(i)'
             /\ oldHeld(i)' \subseteq oldHeld(i + d)
  <2>1. i + d \in DOMAIN s /\ u[i] = s[i + d]
    BY <1>3
  <2>2. \A j \in 1 .. n : j > i + d => j - d \in 1 .. n - d /\ j - d > i /\ j - d + d = j
    OBVIOUS
  <2>3. later(i)' = {u[j] : j \in {x \in DOMAIN u : x > i}}
    BY DEF later
  <2>4. later(i + d) = {s[j] : j \in {x \in DOMAIN s : x > i + d}}
    BY DEF later
  <2>5. e \in later(i)'
    <3>1. n + 1 - d > i
      OBVIOUS
    <3> QED
      BY <1>3, <2>3, <3>1
  <2>6. ASSUME NEW y \in later(i + d)
        PROVE  y \in later(i)'
    <3>1. PICK j \in 1 .. n : j > i + d /\ y = s[j]
      BY <1>3, <2>4
    <3>2. PICK l : l = j - d /\ l \in 1 .. n - d /\ l > i /\ l + d = j
      BY <2>2, <3>1
    <3>3. u[l] = y /\ l \in DOMAIN u
      BY <1>3, <3>1, <3>2
    <3> QED
      BY <2>3, <3>2, <3>3
  <2>7. ASSUME NEW x \in oldHeld(i)'
        PROVE  x \in oldHeld(i + d)
    <3>1. x \in Writer /\ showing'[x] # 0 /\ <<x, showing'[x]>> \notin later(i)'
      BY DEF oldHeld, Held
    <3>2. x # t
      BY <1>1, <1>2, <2>5, <3>1 DEF e
    <3>3. showing'[x] = showing[x]
      BY <1>1, <1>2, <3>1, <3>2
    <3> QED
      BY <2>6, <3>1, <3>3 DEF oldHeld, Held
  <2> QED
    BY <2>1, <2>5, <2>6, <2>7
<1>5. ASSUME NEW i \in DOMAIN u
      PROVE  /\ u[i][2] # 0
             /\ \/ showing'[u[i][1]] = u[i][2]
                \/ \E k \in DOMAIN UiLines :
                      Follows(u[i], later(i)', oldHeld(i)', UiLines, k, h)
  <2>1. CASE i = n + 1 - d
    <3>1. u[i] = e
      BY <1>3, <2>1
    <3> QED
      BY <1>1, <1>2, <3>1 DEF e
  <2>2. CASE i \in 1 .. n - d
    <3>1. PICK j, m : j = i + d /\ m = s[j] /\ j \in DOMAIN s /\ u[i] = m
      BY <1>4, <2>2
    <3>2. /\ m[2] # 0
          /\ \/ showing[m[1]] = m[2]
             \/ \E k \in DOMAIN UiLines :
                   Follows(m, later(j), oldHeld(j), UiLines, k, h)
      BY <3>1 DEF LinesShown
    <3>3. CASE showing[m[1]] = m[2]
      <4>1. m[1] # t
        BY <1>2, <3>2, <3>3
      <4>2. m[1] \in Writer
        BY <3>1 DEF OrderInv, LinesKnown, Line
      <4> QED
        BY <1>1, <1>2, <3>1, <3>2, <3>3, <4>1, <4>2
    <3>4. ASSUME NEW k \in DOMAIN UiLines,
                 Follows(m, later(j), oldHeld(j), UiLines, k, h)
          PROVE  Follows(m, later(i)', oldHeld(i)', UiLines, k, h)
      <4>1. oldHeld(j) \in SUBSET Writer
        BY DEF oldHeld, Held
      <4>2. later(j) \subseteq later(i)' /\ oldHeld(i)' \subseteq oldHeld(j)
        BY <1>4, <2>2, <3>1
      <4>3. \A x \in DOMAIN UiLines : UiLines[x] \in Line
        BY DEF OrderInv, LinesKnown
      <4>4. h \in Nat
        OBVIOUS
      <4> QED
        BY <3>4, <4>1, <4>2, <4>3, <4>4, FollowsLess
    <3> QED
      BY <3>1, <3>2, <3>3, <3>4
  <2> QED
    BY <1>3, <2>1, <2>2
<1> QED
  BY <1>5 DEF LinesShown

(* A line is shown.                                                        *)
LEMMA ShownAfterPush ==
  ASSUME NEW h \in Nat \ {0}, UI_LOG_MAX >= MAX_LOG + NOTICES + h - 1,
         Types, OrderInv, LinesShown(h), Cardinality(Held) <= h,
         NEW t \in Writer, NEW c \in Nat,
         \/ pushLog(t) /\ c = showing[t]
         \/ pushNotice(t) /\ c = sent[t] + 1,
         NEW n \in 0 .. UI_LOG_MAX, NEW d \in 0 .. 1,
         n < UI_LOG_MAX => d = 0,
         Grown(UiLines, UiLines', <<t, c>>, n, d),
         LogLines' = LogLines
  PROVE  LinesShown(h)'
<1> PICK s, u, e : s = UiLines /\ u = UiLines' /\ e = <<t, c>>
  OBVIOUS
<1>0. /\ sent \in [Writer -> Nat] /\ showing \in [Writer -> Nat]
      /\ n \in Nat /\ h \in Nat /\ e[1] = t /\ e[2] = c /\ e \in Line
  BY EventLogAssumption DEF Types, Line
<1>1. \/ /\ showing[t] # 0 /\ c = showing[t]
         /\ showing' = [showing EXCEPT ![t] = 0]
      \/ /\ showing[t] = 0 /\ c = sent[t] + 1 /\ isNotice(e)
         /\ showing' = showing
  <2>1. CASE pushLog(t) /\ c = showing[t]
    BY <2>1 DEF pushLog
  <2>2. CASE pushNotice(t) /\ c = sent[t] + 1
    <3>1. START_LINES \in Nat /\ NOTICES \in Nat /\ sent[t] \in Nat
      BY <1>0, EventLogAssumption
    <3>2. t = Gui /\ sent[t] \in START_LINES .. START_LINES + NOTICES - 1
      BY <2>2 DEF pushNotice, inNotices
    <3>3. isNotice(e)
      BY <1>0, <2>2, <3>1, <3>2 DEF isNotice
    <3> QED
      BY <2>2, <3>3 DEF pushNotice
  <2> QED
    BY <2>1, <2>2
<1>2. \A x \in DOMAIN s :
         /\ s[x] \in Line
         /\ s[x][2] <= sent[s[x][1]]
         /\ showing[s[x][1]] # 0 => s[x][2] < showing[s[x][1]]
  BY DEF OrderInv, LinesKnown
<1>3. \A x \in DOMAIN s : s[x] \in Line /\ (s[x][1] = e[1] => s[x][2] < e[2])
  <2> TAKE x \in DOMAIN s
  <2>1. s[x] \in Line /\ s[x][2] \in Nat
    BY <1>2 DEF Line
  <2> QED
    BY <1>0, <1>1, <1>2, <2>1
<1>4. DOMAIN s = 1 .. n /\ InThreadOrder(s) /\ Grown(s, u, e, n, d)
  BY DEF Grown, OrderInv
<1>5. Held' = Held \ {t}
  BY <1>0, <1>1 DEF Held
<1>6. ASSUME NEW i \in DOMAIN LogLines
      PROVE  /\ later(i)' = later(i)
             /\ oldHeld(i)' = oldHeld(i) \ {t}
             /\ oldHeld(i) \in SUBSET Writer /\ oldHeld(i)' \in SUBSET Writer
             /\ isNotice(e) \/ e \in later(i) \/ t \in oldHeld(i)
             /\ showing[t] # 0 => Cardinality(oldHeld(i)') < h
  <2>1. later(i)' = later(i)
    BY DEF later
  <2>2. \A x \in Writer \ {t} : showing'[x] = showing[x]
    BY <1>0, <1>1
  <2>3. oldHeld(i)' = oldHeld(i) \ {t}
    BY <1>5, <2>1, <2>2 DEF oldHeld, Held
  <2>4. isNotice(e) \/ e \in later(i) \/ t \in oldHeld(i)
    BY <1>1 DEF oldHeld, Held
  <2>5. ASSUME showing[t] # 0 PROVE Cardinality(oldHeld(i)') < h
    <3>1. IsFiniteSet(Held) /\ IsFiniteSet(Held \ {t}) /\ t \in Held
      BY <2>5, HeldFinite DEF Held
    <3>2. Cardinality(Held \ {t}) = Cardinality(Held) - 1
      BY <3>1, FS_RemoveElement
    <3>3. oldHeld(i)' \in SUBSET (Held \ {t})
      BY <2>3 DEF oldHeld
    <3>4. IsFiniteSet(oldHeld(i)') /\ Cardinality(oldHeld(i)') <= Cardinality(Held \ {t})
      BY <3>1, <3>3, FS_Subset
    <3>5. Cardinality(oldHeld(i)') \in Nat /\ Cardinality(Held) \in Nat
      BY <3>1, <3>4, FS_CardinalityType
    <3> QED
      BY <1>0, <3>2, <3>4, <3>5
  <2> QED
    BY <2>1, <2>3, <2>4, <2>5 DEF oldHeld, Held
<1>7. ASSUME NEW i \in DOMAIN LogLines, NEW k,
             Follows(LogLines[i], later(i), oldHeld(i)', longer(s, e, n), k, h)
      PROVE  \E k2 \in DOMAIN u : Follows(LogLines[i], later(i)', oldHeld(i)', u, k2, h)
  <2> PICK m, new, held : m = LogLines[i] /\ new = later(i) /\ held = oldHeld(i)'
    OBVIOUS
  <2>1. IsFiniteSet(new) /\ Cardinality(new) <= MAX_LOG - 1
    BY LaterSize
  <2>2. held \in SUBSET Writer /\ later(i)' = new
    BY <1>6
  <2>3. Follows(m, new, held, longer(s, e, n), k, h)
    BY <1>7
  <2>4. \E k2 \in DOMAIN u : Follows(m, new, held, u, k2, h)
    BY <1>0, <1>3, <1>4, <2>1, <2>2, <2>3, FollowsDrop
  <2> QED
    BY <2>2, <2>4
<1>8. ASSUME NEW i \in DOMAIN LogLines
      PROVE  LET m == LogLines[i]
             IN /\ m[2] # 0
                /\ \/ showing'[m[1]] = m[2]
                   \/ \E k \in DOMAIN u : Follows(m, later(i)', oldHeld(i)', u, k, h)
  <2> PICK m : m = LogLines[i]
    OBVIOUS
  <2>1. /\ m[2] # 0 /\ m \in Line
        /\ \/ showing[m[1]] = m[2]
           \/ \E k \in DOMAIN s : Follows(m, later(i), oldHeld(i), s, k, h)
    BY DEF LinesShown, OrderInv, LinesKnown
  <2>2. CASE showing[m[1]] = m[2] /\ m[1] # t
    <3>1. showing'[m[1]] = m[2]
      BY <1>0, <1>1, <2>1, <2>2 DEF Line
    <3> QED
      BY <2>1, <3>1
  <2>3. CASE showing[m[1]] = m[2] /\ m[1] = t
    <3>1. m = e /\ showing[t] # 0
      BY <1>1, <2>1, <2>3 DEF Line
    <3>2. e[1] \notin oldHeld(i)' /\ Cardinality(oldHeld(i)') < h
      BY <1>0, <1>6, <3>1
    <3>3. Follows(e, later(i), oldHeld(i)', longer(s, e, n), n + 1, h)
      BY <1>0, <3>2, FollowsItself
    <3> QED
      BY <1>7, <2>1, <3>1, <3>3
  <2>4. ASSUME NEW k \in DOMAIN s, Follows(m, later(i), oldHeld(i), s, k, h)
        PROVE  \E k2 \in DOMAIN u : Follows(m, later(i)', oldHeld(i)', u, k2, h)
    <3> PICK new, held : new = later(i) /\ held = oldHeld(i)
      OBVIOUS
    <3>1. held \in SUBSET Writer /\ (isNotice(e) \/ e \in new \/ e[1] \in held)
      BY <1>0, <1>6
    <3>2. \A x \in DOMAIN s : s[x] \in Line
      BY <1>2
    <3>3. Follows(m, new, held \ {e[1]}, longer(s, e, n), k, h)
      BY <1>0, <1>4, <2>4, <3>1, <3>2, FollowsShow
    <3>4. Follows(m, later(i), oldHeld(i)', longer(s, e, n), k, h)
      BY <1>0, <1>6, <3>3
    <3> QED
      BY <1>7, <3>4
  <2> QED
    BY <2>1, <2>2, <2>3, <2>4
<1> QED
  BY <1>8 DEF LinesShown

LEMMA ShownNext ==
  ASSUME NEW h \in Nat \ {0}, UI_LOG_MAX >= MAX_LOG + NOTICES + h - 1,
         Types, OrderInv, LinesShown(h), Cardinality(Held) <= h, [Next]_vars
  PROVE  LinesShown(h)'
<1>0. /\ UI_LOG_MAX \in Nat /\ MAX_LOG \in Nat
      /\ \A t \in Writer : showing[t] \in Nat /\ sent[t] + 1 \in Nat
  BY EventLogAssumption DEF Types
<1>1. CASE \E t \in Writer, n \in 0 .. MAX_LOG, d \in 0 .. 1 :
              /\ addLog(t)
              /\ Grown(LogLines, LogLines', <<t, sent[t] + 1>>, n, d)
              /\ UiLines' = UiLines
  BY <1>0, <1>1, ShownAfterLog
<1>2. CASE \E t \in Writer, n \in 0 .. UI_LOG_MAX, d \in 0 .. 1 :
              /\ n < UI_LOG_MAX => d = 0
              /\ \/ /\ pushLog(t)
                    /\ Grown(UiLines, UiLines', <<t, showing[t]>>, n, d)
                 \/ /\ pushNotice(t)
                    /\ Grown(UiLines, UiLines', <<t, sent[t] + 1>>, n, d)
              /\ LogLines' = LogLines
  BY <1>0, <1>2, ShownAfterPush
<1>3. CASE UNCHANGED showing /\ LogLines' = LogLines /\ UiLines' = UiLines
  BY <1>3 DEF LinesShown, later, oldHeld, Held
<1>4. CASE \E t \in Writer : addGantt(t)
  BY <1>3, <1>4 DEF addGantt, LogLines, UiLines, logSnapshot, uiLogSnapshot
<1>5. CASE countTick \/ UNCHANGED vars
  BY <1>3, <1>5 DEF countTick, vars, LogLines, UiLines, logSnapshot, uiLogSnapshot
<1> QED
  BY <1>1, <1>2, <1>4, <1>5, Steps

LEMMA ViewDomains ==
  Types => /\ DOMAIN LogLines = 1 .. log_buf.count
           /\ DOMAIN UiLines = 1 .. log_entries.count
<1> SUFFICES ASSUME Types
             PROVE  /\ DOMAIN LogLines = 1 .. log_buf.count
                    /\ DOMAIN UiLines = 1 .. log_entries.count
  OBVIOUS
<1>1. ASSUME NEW size \in Nat \ {0}, NEW r, IsRing(r, size, Slot)
      PROVE  DOMAIN latest(r, size, size) = 1 .. r.count
  <2>1. /\ r.count \in Nat /\ size \in Nat
        /\ r.count = IF r.count < size THEN r.count ELSE size
    BY <1>1 DEF IsRing
  <2> QED
    BY <1>1, <2>1, LatestIs
<1> QED
  BY <1>1, EventLogAssumption DEF Types, LogLines, UiLines, logSnapshot, uiLogSnapshot

LEMMA ShownIsShown ==
  ASSUME NEW h, Types, LinesShown(h)
  PROVE  LoggedIsShown
<1> SUFFICES ASSUME NEW i \in 1 .. log_buf.count
             PROVE  LET m == logSnapshot(MAX_LOG)[i]
                    IN \/ showing[m[1]] = m[2]
                       \/ \E k \in 1 .. log_entries.count :
                             uiLogSnapshot(UI_LOG_MAX)[k] = m
  BY DEF LoggedIsShown
<1> QED
  BY ViewDomains DEF LinesShown, Follows, LogLines, UiLines

(* LoggedIsShown: as long as at most h threads at a time are between the   *)
(* log and the callback, a UI log that has room for h - 1 lines and main's *)
(* notices more than the scheduler's log keeps every line as long as that. *)
THEOREM LoggedStaysShown ==
  ASSUME NEW h \in Nat \ {0}, UI_LOG_MAX >= MAX_LOG + NOTICES + h - 1
  PROVE  Spec /\ [](Cardinality(Held) <= h) => []LoggedIsShown
<1>1. Init => LinesShown(h)
  BY EmptyViews DEF LinesShown
<1>2. Types /\ OrderInv /\ LinesShown(h) /\ Cardinality(Held) <= h /\ [Next]_vars
        => LinesShown(h)'
  BY ShownNext
<1>3. Types /\ LinesShown(h) => LoggedIsShown
  BY ShownIsShown
<1> QED
  BY <1>1, <1>2, <1>3, OrderInit, OrderNext, TypeInit, TypeNext, PTL DEF Spec

(* With no more than that many threads in all, nothing else is needed.     *)
COROLLARY FewWritersStayShown ==
  ASSUME UI_LOG_MAX >= MAX_LOG + NOTICES + Cardinality(Writer) - 1
  PROVE  Spec => []LoggedIsShown
<1>1. Cardinality(Writer) \in Nat \ {0}
  BY FS_CardinalityType, FS_EmptySet, EventLogAssumption
<1>2. Cardinality(Held) <= Cardinality(Writer)
  <2>1. Held \in SUBSET Writer
    BY DEF Held
  <2> QED
    BY <2>1, FS_Subset, EventLogAssumption
<1> DEFINE h == Cardinality(Writer)
<1>3. Init => LinesShown(h)
  BY EmptyViews DEF LinesShown
<1>4. Types /\ OrderInv /\ LinesShown(h) /\ [Next]_vars => LinesShown(h)'
  BY <1>1, <1>2, ShownNext
<1>5. Types /\ LinesShown(h) => LoggedIsShown
  BY ShownIsShown
<1> QED
  BY <1>3, <1>4, <1>5, OrderInit, OrderNext, TypeInit, TypeNext, PTL DEF Spec

=============================================================================
