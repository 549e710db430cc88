---------------------------- MODULE DriversProofs ----------------------------
(***************************************************************************)
(* Theorems about Drivers and Exec, for any size of archive, OS pipe and   *)
(* ring buffer, any polling timeout and any bounds on the environment.     *)
(*                                                                         *)
(* The contract of pipeline.Driver rests on a conservation law: what a     *)
(* tool has left to do, what is in its pipe and what has reached the       *)
(* pipeline are together the whole archive, and exec.Cmd's nil means that  *)
(* nothing is left and nothing is in the pipe.                             *)
(***************************************************************************)
EXTENDS Drivers, TLAPS

-----------------------------------------------------------------------------
(***************************************************************************)
(* The inductive invariant.                                                *)
(***************************************************************************)
\* Which program has been started where.
Phase ==
  /\ res = "none" <=> pc # "done"
  /\ pc \in {"validate", "hook"} => cmd = "none"
  /\ pc = "hooking" => cmd = "hook"
  /\ pc = "dump" => cmd \in {"none", "hook"}
  /\ pc = "streaming" => cmd \in {"tool", "backup"}
  /\ cmd = "tool" => kind \in Tools
  /\ cmd = "backup" => kind = "sqlite"
  /\ pc \in {"bgsave", "poll", "late", "locate"} => kind = "redis"
  /\ pc = "copy" => kind \in {"sqlite", "redis"}
  /\ pc = "copy" /\ kind = "sqlite" => cmd = "backup" /\ run = "nil"

\* What os/exec's states exclude: no output after eof, no work undone by a
\* program that exits with 0 and was not signalled, nil only after both.
Reaping ==
  /\ cmd = "none" => proc = "none"
  /\ proc = "none" => copier = "eof" /\ run # "nil"
  /\ copier = "eof" => pipe = 0 /\ proc # "running"
  /\ proc \in {"zombie", "reaped"} /\ status = 0 /\ ~signalled => todo = 0
  /\ run = "nil" => /\ proc = "reaped" /\ status = 0 /\ ~signalled
                    /\ copier = "eof"

\* The archive: nothing of it is lost or made up on its way.
Archive ==
  /\ cmd = "tool" /\ proc # "none" => dumped + pipe + todo = Work
  /\ cmd = "backup" /\ proc # "none" => filled + todo = Work
  /\ cmd # "backup" \/ proc = "none" => filled = 0
  /\ pc \in {"validate", "hook", "hooking", "dump", "bgsave", "poll", "late",
             "locate"} => dumped = 0
  /\ pc = "streaming" /\ cmd = "backup" => dumped = 0
  /\ cmd = "tool" /\ proc = "none" => dumped = 0
  /\ pc = "version" \/ res = "ok" => dumped = Work

\* Since Dump asked for LASTSAVE every save is of data at least as new, if
\* none was under way then.
Saved ==
  /\ kind = "redis" /\ ~busy0 /\ pc \in {"bgsave", "poll", "late", "locate"} =>
       /\ saving # NoSave => saving >= data0
       /\ lastsave > prev => rdb >= data0
  /\ pc = "locate" => lastsave > prev
  /\ kind = "redis" /\ ~busy0 /\ (pc \in {"copy", "version"} \/ res = "ok") =>
       src >= data0

\* s holds the n numbers after x, in their order.
Count(s, x, n) ==
  s \in Seq(Nat) /\ Len(s) = n /\ \A i \in 1 .. n : s[i] = x + i

Rings == [buf : Seq(Nat), pos : Nat, full : BOOLEAN]

\* A full hookRingBuffer after t bytes, which are numbered from 1: the oldest
\* is after pos.
FullHolds(buf, pos, t) ==
  /\ t >= Cap /\ pos \in 0 .. Cap - 1
  /\ buf \in Seq(Nat) /\ Len(buf) = Cap
  /\ \A i \in 1 .. pos : buf[i] = t - pos + i
  /\ \A i \in pos + 1 .. Cap : buf[i] = t - Cap - pos + i

\* A hookRingBuffer after t bytes.
RingHolds(r, t) ==
  /\ r \in Rings
  /\ ~r.full => t < Cap /\ r.pos = t /\ Count(r.buf, 0, t)
  /\ r.full => FullHolds(r.buf, r.pos, t)

\* A ringBuffer after t bytes.
TailHolds(r, t) ==
  /\ r \in Rings /\ r.pos = 0 /\ ~r.full
  /\ Count(r.buf, t - Lesser(Cap, t), Lesser(Cap, t))

Tails ==
  /\ cmd = "hook" => RingHolds(ring, taken)
  /\ cmd = "backup" => TailHolds(ring, taken)
  /\ cmd \in {"none", "tool"} => ring = EmptyRing

IInv == TypeOK /\ Phase /\ Reaping /\ Archive /\ Saved /\ Tails

-----------------------------------------------------------------------------
(***************************************************************************)
(* The two buffers that keep the end of an output.                         *)
(***************************************************************************)
\* The buffers have room.
LEMMA CapNat == Cap \in Nat \ {0}
BY ExecAssumption

\* The remainder of a position that went around at most once.
LEMMA ModSmall ==
  ASSUME NEW a \in Nat, a < 2 * Cap
  PROVE  a % Cap = IF a < Cap THEN a ELSE a - Cap
BY ExecAssumption

\* A run of consecutive bytes, as the function the copier writes.
LEMMA CountFcn ==
  ASSUME NEW x \in Nat, NEW n \in Nat
  PROVE  Count([i \in 1 .. n |-> x + i], x, n)
BY DEF Count

\* Such a run is determined by its start and its length.
LEMMA CountIs ==
  ASSUME NEW s, NEW x \in Nat, NEW n \in Nat, Count(s, x, n)
  PROVE  s = [i \in 1 .. n |-> x + i]
BY DEF Count

\* Concatenation of two sequences, its type and its length.
LEMMA ConcatType ==
  ASSUME NEW S, NEW s \in Seq(S), NEW p \in Seq(S)
  PROVE  s \o p \in Seq(S) /\ Len(s \o p) = Len(s) + Len(p)
OBVIOUS

\* Two runs, one after the other, are one.
LEMMA CountConcat ==
  ASSUME NEW s, NEW p, NEW x \in Nat, NEW m \in Nat, NEW n \in Nat,
         Count(s, x, m), Count(p, x + m, n)
  PROVE  Count(s \o p, x, m + n)
<1> USE DEF Count
<1>1. s \o p \in Seq(Nat) /\ Len(s \o p) = m + n
  BY ConcatType
<1>2. \A i \in 1 .. m : (s \o p)[i] = x + i
  OBVIOUS
<1>3. \A i \in m + 1 .. m + n : (s \o p)[i] = p[i - m]
  BY SMTT(30)
<1>4. \A i \in m + 1 .. m + n : i - m \in 1 .. n
  OBVIOUS
<1>5. \A i \in m + 1 .. m + n : (s \o p)[i] = x + i
  BY <1>3, <1>4
<1> QED
  BY <1>1, <1>2, <1>5

\* A part of a run is a run.
LEMMA CountSubSeq ==
  ASSUME NEW s, NEW x \in Nat, NEW n \in Nat, Count(s, x, n),
         NEW a \in 1 .. n + 1, NEW b \in 0 .. n, a <= b + 1
  PROVE  Count(SubSeq(s, a, b), x + a - 1, b - a + 1)
<1> USE DEF Count
<1>1. SubSeq(s, a, b) \in Seq(Nat) /\ Len(SubSeq(s, a, b)) = b - a + 1
  OBVIOUS
<1>2. \A i \in 1 .. b - a + 1 : SubSeq(s, a, b)[i] = s[a + i - 1]
  OBVIOUS
<1>3. \A i \in 1 .. b - a + 1 : a + i - 1 \in 1 .. n
  OBVIOUS
<1> QED
  BY <1>1, <1>2, <1>3

\* ringBuffer.Write keeps the last Cap bytes.
LEMMA TailWriteCounts ==
  ASSUME NEW b, NEW p, NEW t \in Nat, NEW n \in Nat,
         Count(b, t - Lesser(Cap, t), Lesser(Cap, t)), Count(p, t, n)
  PROVE  Count(TailWrite(b, p), (t + n) - Lesser(Cap, t + n), Lesser(Cap, t + n))
<1> DEFINE m == Lesser(Cap, t)
           x == t - m
           s == b \o p
<1>1. m \in Nat /\ m <= t /\ m <= Cap /\ x \in Nat /\ x + m = t
  BY CapNat DEF Lesser
<1>2. Count(b, x, m) /\ Count(p, x + m, n)
  BY <1>1
<1> HIDE DEF m, x
<1>3. Count(s, x, m + n)
  BY <1>1, <1>2, CountConcat
<1>4. Len(s) = m + n
  BY <1>3 DEF Count
<1>5. CASE m + n > Cap
  <2> DEFINE a == m + n - Cap + 1
             e == m + n
  <2>1. Lesser(Cap, t + n) = Cap
    BY <1>1, <1>5, CapNat DEF Lesser
  <2>2. e \in Nat /\ a \in 1 .. e + 1 /\ e \in 0 .. e /\ a <= e + 1
    BY <1>1, <1>5, CapNat
  <2>3. x + a - 1 = (t + n) - Cap /\ e - a + 1 = Cap
    BY <1>1, CapNat
  <2>4. TailWrite(b, p) = SubSeq(s, a, e)
    <3>1. Len(s) > Cap
      BY <1>4, <1>5
    <3>2. TailWrite(b, p) = SubSeq(s, Len(s) - Cap + 1, Len(s))
      BY <3>1, Zenon DEF TailWrite, Last
    <3> HIDE DEF s
    <3>3. a = Len(s) - Cap + 1 /\ e = Len(s)
      BY <1>1, <1>4, CapNat
    <3> HIDE DEF a, e
    <3> QED
      BY <3>2, <3>3
  <2> HIDE DEF a, e, s
  <2>5. Count(SubSeq(s, a, e), x + a - 1, e - a + 1)
    BY <1>1, <1>3, <2>2, CountSubSeq DEF e
  <2> QED
    BY <2>1, <2>3, <2>4, <2>5
<1>6. CASE ~(m + n > Cap)
  <2>1. Lesser(Cap, t + n) = m + n /\ (t + n) - (m + n) = x
    BY <1>1, <1>6, CapNat DEF Lesser, m
  <2>2. TailWrite(b, p) = s
    BY <1>4, <1>6 DEF TailWrite
  <2> QED
    BY <1>3, <2>1, <2>2
<1> QED
  BY <1>5, <1>6

\* A buffer that has just become full, or was written over as a whole.
LEMMA FullFromStart ==
  ASSUME NEW b, NEW t \in Nat, t >= Cap, Count(b, t - Cap, Cap)
  PROVE  FullHolds(b, 0, t)
<1>1. b \in Seq(Nat) /\ Len(b) = Cap /\ \A i \in 1 .. Cap : b[i] = t - Cap + i
  BY DEF Count
<1>2. \A i \in 0 + 1 .. Cap : b[i] = t - Cap - 0 + i
  BY <1>1, CapNat
<1>3. \A i \in 1 .. 0 : b[i] = t - 0 + i
  OBVIOUS
<1> QED
  BY <1>1, <1>2, <1>3, CapNat DEF FullHolds

\* hookRingBuffer.Write into a buffer with room enough.
LEMMA RingGrowHolds ==
  ASSUME NEW r, NEW p, NEW t \in Nat, NEW n \in Nat, RingHolds(r, t), ~r.full,
         Count(p, t, n), t + n <= Cap
  PROVE  RingHolds(RingGrow(r, p), t + n)
<1> DEFINE b == r.buf \o p
           pos == (t + n) % Cap
           full == (t + n = Cap)
<1>1. t < Cap /\ r.pos = t /\ Count(r.buf, 0, t) /\ Count(p, 0 + t, n)
  BY DEF RingHolds
<1>2. Len(r.buf) = t /\ Len(p) = n
  BY <1>1 DEF Count
<1>3. RingGrow(r, p) = [buf |-> b, pos |-> pos, full |-> full]
  BY <1>1, <1>2 DEF RingGrow
<1>4. Count(b, 0, t + n)
  BY <1>1, CountConcat
<1>5. pos = IF t + n < Cap THEN t + n ELSE 0
  BY CapNat, <1>1, ModSmall
<1>6. b \in Seq(Nat) /\ Len(b) = t + n /\ pos \in Nat /\ full \in BOOLEAN
  BY <1>4, <1>5, CapNat DEF Count
<1> HIDE DEF b, pos, full
<1>7. [buf |-> b, pos |-> pos, full |-> full] \in Rings
  BY <1>6 DEF Rings
<1>8. CASE t + n = Cap
  <2>1. full /\ pos = 0
    BY <1>5, <1>8, CapNat DEF full
  <2>2. FullHolds(b, pos, t + n)
    BY <1>4, <1>8, <2>1, FullFromStart
  <2> QED
    BY <1>3, <1>7, <2>1, <2>2 DEF RingHolds
<1>9. CASE t + n # Cap
  <2>1. ~full /\ pos = t + n /\ t + n < Cap
    BY <1>5, <1>9, CapNat DEF full
  <2> QED
    BY <1>3, <1>4, <1>7, <2>1 DEF RingHolds
<1> QED
  BY <1>8, <1>9

\* hookRingBuffer.Write over the oldest bytes of a full buffer.
LEMMA RingOverwriteHolds ==
  ASSUME NEW r, NEW p, NEW t \in Nat, NEW n \in Nat, RingHolds(r, t), r.full,
         Count(p, t, n)
  PROVE  RingHolds(RingOverwrite(r, p), t + n)
<1>1. r \in Rings /\ FullHolds(r.buf, r.pos, t) /\ Len(p) = n
  BY DEF RingHolds, Count
<1>2. ASSUME NEW b, NEW pos, FullHolds(b, pos, t + n),
             RingOverwrite(r, p) = [r EXCEPT !.buf = b, !.pos = pos]
      PROVE  RingHolds(RingOverwrite(r, p), t + n)
  <2>1. b \in Seq(Nat) /\ pos \in Nat
    BY <1>2 DEF FullHolds
  <2> DEFINE q == [r EXCEPT !.buf = b, !.pos = pos]
  <2>2. q \in Rings /\ q.buf = b /\ q.pos = pos /\ q.full = r.full
    BY <1>1, <2>1 DEF Rings
  <2>3. RingOverwrite(r, p) = q
    BY <1>2
  <2> HIDE DEF q
  <2>4. RingHolds(q, t + n)
    BY <1>2, <2>2, Zenon DEF RingHolds
  <2> QED
    BY <2>3, <2>4
<1>3. CASE n >= Cap
  <2> DEFINE a == n - Cap + 1
             b == SubSeq(p, a, n)
  <2>1. a \in 1 .. n + 1 /\ n \in 0 .. n /\ a <= n + 1
    BY <1>3, CapNat
  <2>2. t + a - 1 = (t + n) - Cap /\ n - a + 1 = Cap
    BY CapNat
  <2>3. RingOverwrite(r, p) = [r EXCEPT !.buf = b, !.pos = 0]
    BY <1>1, <1>3 DEF RingOverwrite, Last
  <2> HIDE DEF a
  <2>4. Count(b, t + a - 1, n - a + 1)
    BY <2>1, CountSubSeq
  <2> HIDE DEF b
  <2>5. FullHolds(b, 0, t + n)
    BY <1>3, <2>2, <2>4, FullFromStart, CapNat
  <2> QED
    BY <1>2, <2>3, <2>5
<1>4. CASE n < Cap
  <2> DEFINE o == r.pos
             k(i) == (i - 1 - o + Cap) % Cap
             b == [i \in 1 .. Cap |-> IF k(i) < n THEN p[k(i) + 1] ELSE r.buf[i]]
             pos == (o + n) % Cap
  <2>1. RingOverwrite(r, p) = [r EXCEPT !.buf = b, !.pos = pos]
    <3>1. ~(Len(p) >= Cap)
      BY <1>1, <1>4, CapNat
    <3> QED
      BY <1>1, <3>1, Zenon DEF RingOverwrite
  <2>2. /\ o \in 0 .. Cap - 1 /\ t >= Cap /\ r.buf \in Seq(Nat)
        /\ \A i \in 1 .. o : r.buf[i] = t - o + i
        /\ \A i \in o + 1 .. Cap : r.buf[i] = t - Cap - o + i
    BY <1>1 DEF FullHolds
  <2> HIDE DEF o
  <2>3. pos = IF o + n < Cap THEN o + n ELSE o + n - Cap
    <3> DEFINE d == o + n
    <3>1. d \in Nat /\ d < 2 * Cap
      BY <1>4, <2>2, CapNat
    <3> HIDE DEF d
    <3>2. d % Cap = IF d < Cap THEN d ELSE d - Cap
      BY <3>1, ModSmall
    <3>3. pos = IF d < Cap THEN d ELSE d - Cap
      BY <3>2 DEF d
    <3> HIDE DEF pos
    <3> QED
      BY <2>2, <3>3, CapNat DEF d
  <2>4. \A i \in 1 .. Cap : k(i) = IF i > o THEN i - 1 - o ELSE i - 1 - o + Cap
    <3> SUFFICES ASSUME NEW i \in 1 .. Cap
                 PROVE  k(i) = IF i > o THEN i - 1 - o ELSE i - 1 - o + Cap
      OBVIOUS
    <3> DEFINE d == i - 1 - o + Cap
    <3>1. d \in Nat /\ d < 2 * Cap
      BY <2>2, CapNat
    <3>2. d < Cap <=> i <= o
      BY <2>2, CapNat
    <3> HIDE DEF d
    <3>3. d % Cap = IF d < Cap THEN d ELSE d - Cap
      BY <3>1, ModSmall
    <3> QED
      BY <2>2, <3>1, <3>2, <3>3, CapNat DEF d
  <2>5. \A i \in 1 .. n : p[i] = t + i
    BY DEF Count
  <2>6. \A i \in 1 .. Cap : b[i] = IF k(i) < n THEN t + k(i) + 1 ELSE r.buf[i]
    <3> HIDE DEF k
    <3> SUFFICES ASSUME NEW i \in 1 .. Cap
                 PROVE  b[i] = IF k(i) < n THEN t + k(i) + 1 ELSE r.buf[i]
      OBVIOUS
    <3>1. k(i) \in Nat
      BY <2>2, <2>4, CapNat
    <3> QED
      BY <2>5, <3>1
  <2> HIDE DEF k, pos
  <2>7. pos \in 0 .. Cap - 1
    BY <1>4, <2>2, <2>3, CapNat
  <2>8. \A i \in 1 .. pos : b[i] = t + n - pos + i
    <3> SUFFICES ASSUME NEW i \in 1 .. pos PROVE b[i] = t + n - pos + i
      OBVIOUS
    <3>1. i \in 1 .. Cap
      BY <2>7, CapNat
    <3> HIDE DEF b
    <3>2. b[i] = IF k(i) < n THEN t + k(i) + 1 ELSE r.buf[i]
      BY <2>6, <3>1
    <3>3. k(i) = IF i > o THEN i - 1 - o ELSE i - 1 - o + Cap
      BY <2>4, <3>1
    <3>4. r.buf[i] = IF i > o THEN t - Cap - o + i ELSE t - o + i
      BY <2>2, <3>1, CapNat
    <3> QED
      BY <1>4, <2>2, <2>3, <3>1, <3>2, <3>3, <3>4, CapNat
  <2>9. \A i \in pos + 1 .. Cap : b[i] = t + n - Cap - pos + i
    <3> SUFFICES ASSUME NEW i \in pos + 1 .. Cap
                 PROVE  b[i] = t + n - Cap - pos + i
      OBVIOUS
    <3>1. i \in 1 .. Cap
      BY <2>7, CapNat
    <3> HIDE DEF b
    <3>2. b[i] = IF k(i) < n THEN t + k(i) + 1 ELSE r.buf[i]
      BY <2>6, <3>1
    <3>3. k(i) = IF i > o THEN i - 1 - o ELSE i - 1 - o + Cap
      BY <2>4, <3>1
    <3>4. r.buf[i] = IF i > o THEN t - Cap - o + i ELSE t - o + i
      BY <2>2, <3>1, CapNat
    <3> QED
      BY <1>4, <2>2, <2>3, <3>1, <3>2, <3>3, <3>4, CapNat
  <2>10. b \in Seq(Nat) /\ Len(b) = Cap
    <3>1. \A i \in 1 .. Cap : b[i] \in Nat
      <4> HIDE DEF b
      <4> QED
        BY <2>2, <2>7, <2>8, <2>9, CapNat
    <3>2. b \in [1 .. Cap -> Nat]
      BY <3>1
    <3> HIDE DEF b
    <3> QED
      BY <3>2, CapNat
  <2> HIDE DEF b
  <2>11. FullHolds(b, pos, t + n)
    BY <2>2, <2>7, <2>8, <2>9, <2>10 DEF FullHolds
  <2> QED
    BY <1>2, <2>1, <2>11
<1> QED
  BY <1>3, <1>4, CapNat

\* hookRingBuffer.Write.
LEMMA RingWriteHolds ==
  ASSUME NEW r, NEW p, NEW t \in Nat, NEW n \in Nat, RingHolds(r, t),
         Count(p, t, n)
  PROVE  RingHolds(RingWrite(r, p), t + n)
<1> DEFINE room == Cap - Len(r.buf)
<1>1. Len(p) = n /\ r.full \in BOOLEAN
  BY DEF Count, RingHolds, Rings
<1>2. CASE r.full
  BY <1>2, RingOverwriteHolds DEF RingWrite
<1>3. ASSUME ~r.full
     PROVE  t < Cap /\ room = Cap - t /\ Count(r.buf, 0, t)
  BY <1>3 DEF RingHolds, Count
<1>4. CASE ~r.full /\ n <= room
  <2>1. t + n <= Cap
    BY <1>3, <1>4, CapNat
  <2> QED
    BY <1>1, <1>4, <2>1, RingGrowHolds DEF RingWrite
<1>5. CASE ~r.full /\ n > room
  <2> DEFINE a == SubSeq(p, 1, room)
             z == SubSeq(p, room + 1, n)
             b == r.buf \o a
             q == [buf |-> b, pos |-> 0, full |-> TRUE]
  <2>1. RingWrite(r, p) = RingOverwrite(q, z)
    <3>1. ~(Len(p) <= room)
      BY <1>1, <1>3, <1>5, CapNat
    <3> QED
      BY <1>1, <1>5, <3>1, Zenon DEF RingWrite
  <2> HIDE DEF room
  <2>2. /\ room \in Nat /\ 1 \in 1 .. n + 1 /\ room \in 0 .. n
        /\ 1 <= room + 1 /\ t + 1 - 1 = t /\ room - 1 + 1 = room
    BY <1>3, <1>5, CapNat
  <2>3. Count(a, t + 1 - 1, room - 1 + 1)
    BY <2>2, CountSubSeq
  <2>4. Count(a, 0 + t, room)
    BY <2>2, <2>3
  <2>5. /\ room + 1 \in 1 .. n + 1 /\ n \in 0 .. n /\ room + 1 <= n + 1
        /\ t + (room + 1) - 1 = Cap /\ n - (room + 1) + 1 = n - room
    BY <1>3, <1>5, <2>2, CapNat
  <2>6. Count(z, t + (room + 1) - 1, n - (room + 1) + 1)
    BY <2>5, CountSubSeq
  <2> HIDE DEF a, z
  <2>7. Count(z, Cap, n - room) /\ n - room \in Nat
    BY <2>2, <2>5, <2>6
  <2>8. Count(b, 0, t + room) /\ t + room = Cap
    BY <1>3, <1>5, <2>2, <2>4, CountConcat, CapNat
  <2> HIDE DEF b
  <2>9. FullHolds(b, 0, Cap)
    BY <2>8, FullFromStart, CapNat
  <2>10. q \in Rings
    BY <2>9 DEF FullHolds, Rings
  <2>11. RingHolds(q, Cap)
    BY <2>9, <2>10 DEF RingHolds
  <2>12. q.full
    OBVIOUS
  <2> HIDE DEF q
  <2>13. RingHolds(RingOverwrite(q, z), Cap + (n - room))
    BY <2>7, <2>11, <2>12, CapNat, RingOverwriteHolds
  <2>14. Cap + (n - room) = t + n
    BY <1>3, <1>5, <2>2, <2>8, CapNat
  <2> QED
    BY <2>1, <2>13, <2>14
<1>6. CASE ~r.full
  BY <1>1, <1>3, <1>4, <1>5, <1>6, CapNat
<1> QED
  BY <1>1, <1>2, <1>6

\* hookRingBuffer.String reads the last Cap bytes in their order.
LEMMA RingStringCounts ==
  ASSUME NEW r, NEW t \in Nat, RingHolds(r, t)
  PROVE  Count(RingString(r), t - Lesser(Cap, t), Lesser(Cap, t))
<1>1. CASE ~r.full
  <2>1. t < Cap /\ Count(r.buf, 0, t)
    BY <1>1 DEF RingHolds
  <2>2. Lesser(Cap, t) = t /\ t - t = 0
    BY <2>1, CapNat DEF Lesser
  <2> QED
    BY <1>1, <2>1, <2>2 DEF RingString
<1>2. CASE r.full
  <2> DEFINE o == r.pos
             a == SubSeq(r.buf, o + 1, Cap)
             z == SubSeq(r.buf, 1, o)
  <2>1. /\ t >= Cap /\ o \in 0 .. Cap - 1
        /\ r.buf \in Seq(Nat) /\ Len(r.buf) = Cap
        /\ \A i \in 1 .. o : r.buf[i] = t - o + i
        /\ \A i \in o + 1 .. Cap : r.buf[i] = t - Cap - o + i
    BY <1>2 DEF RingHolds, FullHolds
  <2>2. Lesser(Cap, t) = Cap /\ t - Cap \in Nat /\ Cap - o \in Nat
    BY <2>1, CapNat DEF Lesser
  <2>3. RingString(r) = a \o z
    BY <1>2 DEF RingString
  <2> HIDE DEF o
  <2>4. Count(a, t - Cap, Cap - o)
    <3>1. a \in Seq(Nat) /\ Len(a) = Cap - o
      BY <2>1, CapNat
    <3>2. \A i \in 1 .. Cap - o : a[i] = r.buf[(o + 1) + i - 1]
      BY <2>1, CapNat
    <3>3. ASSUME NEW i \in 1 .. Cap - o PROVE a[i] = t - Cap + i
      <4>1. (o + 1) + i - 1 = o + i /\ o + i \in o + 1 .. Cap
        BY <2>1, CapNat
      <4>2. a[i] = r.buf[o + i]
        BY <3>2, <4>1
      <4>3. r.buf[o + i] = t - Cap - o + (o + i)
        BY <2>1, <4>1
      <4> QED
        BY <2>1, <4>2, <4>3, CapNat
    <3> QED
      BY <3>1, <3>3 DEF Count
  <2>5. Count(z, (t - Cap) + (Cap - o), o)
    <3>1. z \in Seq(Nat) /\ Len(z) = o
      BY <2>1, CapNat
    <3>2. \A i \in 1 .. o : z[i] = r.buf[i]
      BY <2>1, CapNat
    <3>3. ASSUME NEW i \in 1 .. o PROVE z[i] = (t - Cap) + (Cap - o) + i
      <4>1. z[i] = t - o + i
        BY <2>1, <3>2
      <4> QED
        BY <2>1, <4>1, CapNat
    <3> HIDE DEF z
    <3> QED
      BY <3>1, <3>3 DEF Count
  <2> HIDE DEF a, z
  <2>6. Count(a \o z, t - Cap, (Cap - o) + o) /\ (Cap - o) + o = Cap
    BY <2>1, <2>2, <2>4, <2>5, CountConcat, CapNat
  <2> QED
    BY <2>2, <2>3, <2>6
<1>3. r.full \in BOOLEAN
  BY DEF RingHolds, Rings
<1> QED
  BY <1>1, <1>2, <1>3

-----------------------------------------------------------------------------
(***************************************************************************)
(* Every step preserves it, part by part.                                  *)
(***************************************************************************)
\* TypeOK in five parts.
ProgramTypes ==
  /\ cmd \in {"none", "tool", "backup", "hook"}
  /\ proc \in {"none", "running", "zombie", "reaped"}
  /\ status \in {0, 1}
  /\ orphan \in BOOLEAN /\ signalled \in BOOLEAN /\ broken \in BOOLEAN
  /\ copier \in {"copying", "eof", "failed"}
  /\ ctx \in {"live", "cancelled"}
  /\ cause \in {"none", "cancelled", "deadline"}
  /\ run \in {"none", "nil", "start", "exit", "ctx", "copy"}

CountTypes ==
  /\ todo \in 0 .. Work /\ pipe \in 0 .. Burst /\ taken \in Nat
  /\ filled \in 0 .. Work /\ dumped \in 0 .. Work

MainTypes ==
  /\ kind \in Kinds /\ target \in {"good", "nil", "nopath", "nofile"}
  /\ pc \in {"validate", "hook", "hooking", "dump", "streaming", "copy",
             "version", "bgsave", "poll", "late", "locate", "done"}
  /\ probe \in 0 .. 2 /\ res \in {"none", "ok", "error", "timeout"}
  /\ outcome \in {"none", "ok", "timeout", "cancelled", "nonzero", "failed"}
  /\ tmp \in BOOLEAN

RedisTypes ==
  /\ busy0 \in BOOLEAN
  /\ now \in 0 .. MaxNow /\ lastsave \in 0 .. now /\ prev \in 0 .. lastsave
  /\ data \in 0 .. MaxWrites
  /\ rdb \in 0 .. data /\ src \in 0 .. data /\ data0 \in 0 .. data
  /\ saving \in {NoSave} \cup 0 .. data
  /\ deadline \in 0 .. MaxNow + PollTimeout

RingType ==
  ring.buf \in Seq(Nat) /\ ring.pos \in 0 .. Cap - 1 /\ ring.full \in BOOLEAN

Types == ProgramTypes /\ CountTypes /\ MainTypes /\ RedisTypes /\ RingType

\* TypeOK in the five parts its proof is made of.
LEMMA TypeParts == (TypeOK <=> Types) /\ (TypeOK' <=> Types')
BY DEF TypeOK, ExecTypeOK, Types, ProgramTypes, CountTypes, MainTypes,
       RedisTypes, RingType

\* The driver's own steps, and the redis server's, leave the program alone.
LEMMA QuietSteps ==
  ASSUME \/ ValidateProbe \/ ValidateFail \/ ValidateOk \/ HookReturn
         \/ SqliteReturn \/ SqliteVersion \/ CopyError \/ CopyClose
         \/ RedisLastSave \/ RedisBgsave \/ RedisPoll \/ RedisLate \/ RedisOpen
         \/ RedisError \/ RedisCancelled \/ RedisVersion \/ ServerNext
  PROVE  UNCHANGED execVars
BY DEF ValidateProbe, ValidateFail, ValidateOk, HookReturn, SqliteReturn,
       SqliteVersion, Version, CopyError, CopyClose, RedisLastSave,
       RedisBgsave, RedisPoll, RedisLate, RedisOpen, RedisError,
       RedisCancelled, RedisVersion, ServerNext, ServerWrite, ServerSave,
       ServerSaved, ServerSaveFails, Tick

\* A program is started only where the code calls it.
LEMMA PhaseStep ==
  ASSUME TypeOK, Phase, [Next]_vars
  PROVE  Phase'
<1>0. kind \in Kinds
  BY DEF TypeOK
<1> USE <1>0 DEF Phase, Tools, Kinds, procVars, copyVars, dataVars, execVars,
     redisVars, dumpVars, mainVars, fixedVars
<1>1. CASE ValidateProbe \/ ValidateFail \/ ValidateOk
  BY <1>1 DEF ValidateProbe, ValidateFail, Return, ValidateOk, Goto
<1>2. CASE HookStart
  BY <1>2 DEF HookStart, Goto, Spawn, SpawnFail
<1>3. CASE HookReturn
  BY <1>3 DEF HookReturn
<1>4. ASSUME NEW k \in Tools, ToolDump(k)
     PROVE  Phase'
  BY <1>4 DEF ToolDump, ToolStart, ToolReturn, Version, Return, Goto, Spawn,
       SpawnFail
<1>5. CASE SqliteStart
  BY <1>5 DEF SqliteStart, Return, Spawn, SpawnFail
<1>6. CASE SqliteReturn \/ SqliteVersion
  BY <1>6 DEF SqliteReturn, Return, Goto, SqliteVersion, Version
<1>7. CASE CopyChunk \/ CopyError \/ CopyClose
  BY <1>7 DEF CopyChunk, Copying, CopyError, Return, CopyClose, Goto
<1>8. CASE RedisLastSave \/ RedisBgsave \/ RedisPoll \/ RedisLate \/ RedisOpen
     \/ RedisError \/ RedisCancelled \/ RedisVersion
  BY <1>8 DEF RedisLastSave, AtRedis, Goto, RedisBgsave, RedisPoll, RedisLate,
       Return, RedisOpen, RedisError, RedisCancelled, RedisVersion, Version
<1>9. CASE ServerWrite \/ ServerSave \/ ServerSaved \/ ServerSaveFails \/ Tick
  BY <1>9 DEF ServerWrite, ServerSave, ServerSaved, ServerSaveFails, Tick
<1>10. CASE ExecStep /\ (ProcWork \/ ProcDone \/ ProcFail \/ ProcInterrupted)
  BY <1>10 DEF ExecStep, ProcWork, ProcDone, ProcEnd, ProcFail, ProcInterrupted
<1>11. CASE ExecStep /\ (HookFork \/ OrphanEnd)
  BY <1>11 DEF ExecStep, HookFork, OrphanEnd
<1>12. CASE ExecStep /\ (CopyTake \/ CopyFail \/ CopyEof)
  BY <1>12 DEF ExecStep, CopyTake, CopyFail, CopyEof
<1>13. CASE ExecStep /\ (Signal \/ Reap \/ Wait)
  BY <1>13 DEF ExecStep, Signal, Reap, Wait
<1>14. CASE ExecStep /\ (Cancel \/ HookExpire \/ Break)
  BY <1>14 DEF ExecStep, Cancel, HookExpire, Break
<1>15. CASE UNCHANGED vars
  BY <1>15 DEF vars
<1> QED
  BY <1>1, <1>2, <1>3, <1>4, <1>5, <1>6, <1>7, <1>8, <1>9, <1>10, <1>11,
       <1>12, <1>13, <1>14, <1>15 DEF Next, DriverNext, PgDump, Mysqldump,
            MongoDump, Tools, ServerNext, ExecStep, ExecNext, ProcNext, CmdNext

\* What exec.Cmd's result says of the program and of its output.
LEMMA ReapingStep ==
  ASSUME TypeOK, Reaping, [Next]_vars
  PROVE  Reaping'
<1>0. /\ todo \in Nat /\ pipe \in Nat /\ status \in {0, 1}
      /\ proc \in {"none", "running", "zombie", "reaped"}
      /\ copier \in {"copying", "eof", "failed"}
      /\ signalled \in BOOLEAN
  BY ExecAssumption DEF TypeOK, ExecTypeOK
<1> USE <1>0 DEF Reaping, procVars, copyVars, dataVars,
     execVars, redisVars, dumpVars, mainVars, fixedVars
<1>1. CASE \/ ValidateProbe \/ ValidateFail \/ ValidateOk \/ HookReturn
          \/ SqliteReturn \/ SqliteVersion \/ CopyError
          \/ CopyClose \/ RedisLastSave \/ RedisBgsave \/ RedisPoll
          \/ RedisLate \/ RedisOpen \/ RedisError \/ RedisCancelled
          \/ RedisVersion \/ ServerNext
  BY <1>1, QuietSteps
<1>2. CASE CopyChunk
  BY <1>2, ExecAssumption DEF CopyChunk, Copying
<1>3. CASE HookStart
  BY <1>3, ExecAssumption DEF HookStart, Goto, Spawn, SpawnFail
<1>4. ASSUME NEW k \in Tools, ToolDump(k)
     PROVE  Reaping'
  <2>1. CASE ToolReturn(k)
    BY <1>4, <2>1, ExecAssumption DEF ToolDump, ToolReturn, Goto, Return
  <2>5. CASE Version(k)
    BY <1>4, <2>5, ExecAssumption DEF ToolDump, Version, Return
  <2>2. CASE kind = k /\ pc = "dump" /\ Spawn("tool") /\ Goto("streaming")
    BY <1>4, <2>2, ExecAssumption DEF ToolDump, Spawn, Goto
  <2>3. CASE kind = k /\ pc = "dump" /\ SpawnFail("tool") /\ Goto("streaming")
    BY <1>4, <2>3, ExecAssumption DEF ToolDump, SpawnFail, Goto
  <2>4. CASE kind = k /\ pc = "dump" /\ Return("error") /\ UNCHANGED execVars
    BY <1>4, <2>4 DEF ToolDump, Return
  <2> QED
    BY <1>4, <2>1, <2>2, <2>3, <2>4, <2>5 DEF ToolDump, ToolStart
<1>5. CASE SqliteStart
  <2>1. CASE /\ kind = "sqlite" /\ pc = "dump" /\ pc' = "streaming"
             /\ Spawn("backup") /\ UNCHANGED res
    BY <1>5, <2>1, ExecAssumption DEF SqliteStart, Spawn
  <2>2. CASE /\ kind = "sqlite" /\ pc = "dump" /\ pc' = "streaming"
             /\ SpawnFail("backup") /\ UNCHANGED res
    BY <1>5, <2>2, ExecAssumption DEF SqliteStart, SpawnFail
  <2>3. CASE pc = "dump" /\ Return("error") /\ UNCHANGED execVars
    BY <1>5, <2>3 DEF SqliteStart, Return
  <2> QED
    BY <1>5, <2>1, <2>2, <2>3 DEF SqliteStart
<1>6. CASE ExecStep /\ ProcWork
  BY <1>6, ExecAssumption DEF ExecStep, ProcWork, Printed
<1>7. CASE ExecStep /\ (ProcDone \/ ProcFail \/ ProcInterrupted)
  BY <1>7, ExecAssumption DEF ExecStep, ProcDone, ProcEnd, ProcFail,
       ProcInterrupted
<1>8. CASE ExecStep /\ (HookFork \/ OrphanEnd)
  BY <1>8, ExecAssumption DEF ExecStep, HookFork, OrphanEnd
<1>9. CASE ExecStep /\ CopyTake
  BY <1>9, ExecAssumption DEF ExecStep, CopyTake
<1>10. CASE ExecStep /\ (CopyFail \/ CopyEof)
  <2>1. CASE CopyFail
    BY <1>10, <2>1, ExecAssumption DEF ExecStep, CopyFail
  <2>2. CASE CopyEof
    BY <1>10, <2>2, ExecAssumption DEF ExecStep, CopyEof
  <2> QED
    BY <1>10, <2>1, <2>2
<1>11. CASE ExecStep /\ Signal
  BY <1>11, ExecAssumption DEF ExecStep, Signal
<1>12. CASE ExecStep /\ (Reap \/ Wait)
  BY <1>12, ExecAssumption DEF ExecStep, Reap, Wait
<1>13. CASE ExecStep /\ (Cancel \/ HookExpire \/ Break)
  BY <1>13, ExecAssumption DEF ExecStep, Cancel, HookExpire, Break
<1>14. CASE UNCHANGED vars
  BY <1>14 DEF vars
<1> QED
  BY <1>1, <1>2, <1>3, <1>4, <1>5, <1>6, <1>7, <1>8, <1>9, <1>10, <1>11,
       <1>12, <1>13, <1>14 DEF Next, DriverNext, PgDump, Mysqldump, MongoDump,
            Tools, ExecStep, ExecNext, ProcNext, CmdNext

\* A chunk is written by the program once, and goes on once.
LEMMA ArchiveStep ==
  ASSUME TypeOK, Phase, Reaping, Archive, [Next]_vars
  PROVE  Archive'
<1> USE DEF TypeOK, ExecTypeOK, Phase, Reaping, Archive, Tools, Kinds,
     procVars, copyVars, dataVars, execVars, redisVars, dumpVars, mainVars,
          fixedVars
<1>1. CASE ValidateProbe \/ ValidateFail \/ ValidateOk
  BY <1>1, ExecAssumption DEF ValidateProbe, ValidateFail, Return, ValidateOk,
       Goto
<1>2. CASE HookStart
  BY <1>2, ExecAssumption DEF HookStart, Goto, Spawn, SpawnFail
<1>3. CASE HookReturn
  BY <1>3, ExecAssumption DEF HookReturn
<1>4. ASSUME NEW k \in Tools, ToolDump(k)
     PROVE  Archive'
  <2>1. CASE ToolReturn(k)
    <3>1. pc = "streaming" /\ cmd = "tool" /\ res = "none"
      BY <1>4, <2>1 DEF ToolReturn
    <3>2. run = "nil" => dumped = Work
      BY <3>1, ExecAssumption
    <3>3. UNCHANGED execVars
      BY <1>4, <2>1 DEF ToolReturn
    <3>4. CASE run = "nil"
      BY <2>1, <3>1, <3>2, <3>3, <3>4, ExecAssumption DEF ToolReturn, Goto
    <3>5. CASE run # "nil"
      BY <2>1, <3>1, <3>3, <3>5, ExecAssumption DEF ToolReturn, Return
    <3> QED
      BY <3>4, <3>5
  <2>5. CASE Version(k)
    BY <1>4, <2>5, ExecAssumption DEF ToolDump, Version, Return
  <2>2. CASE kind = k /\ pc = "dump" /\ Spawn("tool") /\ Goto("streaming")
    BY <1>4, <2>2, ExecAssumption DEF ToolDump, Spawn, Goto
  <2>3. CASE kind = k /\ pc = "dump" /\ SpawnFail("tool") /\ Goto("streaming")
    BY <1>4, <2>3, ExecAssumption DEF ToolDump, SpawnFail, Goto
  <2>4. CASE kind = k /\ pc = "dump" /\ Return("error") /\ UNCHANGED execVars
    BY <1>4, <2>4 DEF ToolDump, Return
  <2> QED
    BY <1>4, <2>1, <2>2, <2>3, <2>4, <2>5 DEF ToolDump, ToolStart
<1>5. CASE SqliteStart
  <2>1. CASE /\ kind = "sqlite" /\ pc = "dump" /\ pc' = "streaming"
             /\ Spawn("backup") /\ UNCHANGED res
    BY <1>5, <2>1, ExecAssumption DEF SqliteStart, Spawn
  <2>2. CASE /\ kind = "sqlite" /\ pc = "dump" /\ pc' = "streaming"
             /\ SpawnFail("backup") /\ UNCHANGED res
    BY <1>5, <2>2, ExecAssumption DEF SqliteStart, SpawnFail
  <2>3. CASE pc = "dump" /\ Return("error") /\ UNCHANGED execVars
    BY <1>5, <2>3 DEF SqliteStart, Return
  <2> QED
    BY <1>5, <2>1, <2>2, <2>3 DEF SqliteStart
<1>6. CASE SqliteReturn \/ SqliteVersion
  BY <1>6, ExecAssumption DEF SqliteReturn, Return, Goto, SqliteVersion,
       Version
<1>7. CASE CopyChunk
  BY <1>7, ExecAssumption DEF CopyChunk, Copying, Snapshot
<1>8. CASE CopyError
  BY <1>8, ExecAssumption DEF CopyError, Copying, Return
<1>9. CASE CopyClose
  BY <1>9, ExecAssumption DEF CopyClose, Copying, Snapshot, Goto
<1>10. CASE RedisLastSave \/ RedisBgsave \/ RedisPoll \/ RedisLate \/
     RedisOpen \/ RedisError \/ RedisCancelled \/ RedisVersion
  BY <1>10, ExecAssumption DEF RedisLastSave, AtRedis, Goto, RedisBgsave,
       RedisPoll, RedisLate, Return, RedisOpen, RedisError, RedisCancelled,
            RedisVersion, Version
<1>11. CASE ServerWrite \/ ServerSave \/ ServerSaved \/ ServerSaveFails \/ Tick
  BY <1>11, ExecAssumption DEF ServerWrite, RedisUp, ServerSave, ServerSaved,
       ServerSaveFails, Tick
<1>12. CASE ExecStep /\ ProcWork
  BY <1>12, ExecAssumption DEF ExecStep, ProcWork, Printed
<1>13. CASE ExecStep /\ (ProcDone \/ ProcFail \/ ProcInterrupted)
  BY <1>13, ExecAssumption DEF ExecStep, ProcDone, ProcEnd, ProcFail,
       ProcInterrupted
<1>14. CASE ExecStep /\ (HookFork \/ OrphanEnd)
  BY <1>14, ExecAssumption DEF ExecStep, HookFork, OrphanEnd
<1>15. CASE ExecStep /\ CopyTake
  <2>1. CASE cmd = "tool"
    <3>1. copier = "copying" /\ pipe > 0 /\ pc # "done"
      BY <1>15 DEF ExecStep, CopyTake
    <3>2. proc # "none" /\ dumped + pipe + todo = Work
      BY <2>1, <3>1
    <3>6. dumped # Work
      BY <3>1, <3>2, ExecAssumption
    <3>7. kind \in Tools /\ pc # "version"
      BY <2>1, <3>6
    <3>3. pc = "streaming" /\ res = "none"
      BY <2>1, <3>1, <3>7
    <3>4. dumped' = dumped + 1 /\ pipe' = pipe - 1 /\ UNCHANGED <<filled, run>>
      BY <1>15, <2>1 DEF CopyTake
    <3>5. UNCHANGED <<procVars, pc, res, kind>>
      BY <1>15 DEF ExecStep, CopyTake
    <3> QED
      BY <2>1, <3>2, <3>3, <3>4, <3>5, ExecAssumption
  <2>2. CASE cmd # "tool"
    <3>1. PICK n \in 1 .. pipe : pipe' = pipe - n /\ UNCHANGED dumped
      BY <1>15, <2>2 DEF CopyTake
    <3> QED
      BY <1>15, <2>2, <3>1, ExecAssumption DEF ExecStep, CopyTake
  <2> QED
    BY <2>1, <2>2
<1>16. CASE ExecStep /\ (CopyFail \/ CopyEof)
  BY <1>16, ExecAssumption DEF ExecStep, CopyFail, CopyEof
<1>17. CASE ExecStep /\ Signal
  BY <1>17, ExecAssumption DEF ExecStep, Signal
<1>18. CASE ExecStep /\ (Reap \/ Wait)
  BY <1>18, ExecAssumption DEF ExecStep, Reap, Wait
<1>19. CASE ExecStep /\ (Cancel \/ HookExpire \/ Break)
  BY <1>19, ExecAssumption DEF ExecStep, Cancel, HookExpire, Break
<1>20. CASE UNCHANGED vars
  BY <1>20 DEF vars
<1> QED
  BY <1>1, <1>2, <1>3, <1>4, <1>5, <1>6, <1>7, <1>8, <1>9, <1>10, <1>11,
       <1>12, <1>13, <1>14, <1>15, <1>16, <1>17, <1>18, <1>19, <1>20 DEF Next,
            DriverNext, PgDump, Mysqldump, MongoDump, Tools, ServerNext,
                 ExecStep, ExecNext, ProcNext, CmdNext

\* LASTSAVE moves only with a save that began after Dump asked for it.
LEMMA SavedStep ==
  ASSUME TypeOK, Phase, Saved, [Next]_vars
  PROVE  Saved'
<1> USE DEF TypeOK, Phase, Saved, NoSave, Tools, procVars, copyVars, dataVars,
     execVars, redisVars, dumpVars, mainVars, fixedVars
<1>1. CASE ValidateProbe \/ ValidateFail \/ ValidateOk
  BY <1>1 DEF ValidateProbe, ValidateFail, Return, ValidateOk, Goto
<1>2. CASE HookStart
  BY <1>2 DEF HookStart, Goto
<1>3. CASE HookReturn
  BY <1>3 DEF HookReturn
<1>4. ASSUME NEW k \in Tools, ToolDump(k)
     PROVE  Saved'
  BY <1>4 DEF ToolDump, ToolStart, ToolReturn, Version, Return, Goto
<1>5. CASE SqliteStart \/ SqliteReturn \/ SqliteVersion
  BY <1>5 DEF SqliteStart, Return, SqliteReturn, Goto, SqliteVersion, Version
<1>6. CASE CopyChunk \/ CopyError \/ CopyClose
  BY <1>6 DEF CopyChunk, Copying, CopyError, Return, CopyClose, Goto
<1>7. CASE RedisLastSave
  <2>1. busy0' <=> saving # NoSave
    BY <1>7 DEF RedisLastSave
  <2>2. pc' = "bgsave" /\ res' = "none" /\ prev' = lastsave /\ lastsave' = lastsave
    BY <1>7 DEF RedisLastSave, AtRedis, Goto
  <2>3. UNCHANGED <<saving, kind>>
    BY <1>7 DEF RedisLastSave
  <2> QED
    BY <2>1, <2>2, <2>3
<1>8. CASE RedisBgsave
  BY <1>8 DEF RedisBgsave, AtRedis, Goto
<1>9. CASE RedisPoll
  BY <1>9 DEF RedisPoll, AtRedis, Goto
<1>10. CASE RedisLate
  BY <1>10 DEF RedisLate, AtRedis, Goto, Return
<1>11. CASE RedisOpen
  BY <1>11 DEF RedisOpen, AtRedis, Goto
<1>12. CASE RedisError
  BY <1>12 DEF RedisError, AtRedis, Return
<1>13. CASE RedisCancelled
  BY <1>13 DEF RedisCancelled, AtRedis, Return
<1>14. CASE RedisVersion
  BY <1>14 DEF RedisVersion, Version, Return
<1>15. CASE ServerWrite
  BY <1>15 DEF ServerWrite
<1>16. CASE ServerSave
  BY <1>16 DEF ServerSave
<1>17. CASE ServerSaved
  BY <1>17 DEF ServerSaved
<1>18. CASE ServerSaveFails
  BY <1>18 DEF ServerSaveFails
<1>19. CASE Tick
  BY <1>19 DEF Tick
<1>20. CASE ExecStep /\ (ProcWork \/ ProcDone \/ ProcFail \/ ProcInterrupted)
  BY <1>20 DEF ExecStep, ProcWork, ProcDone, ProcEnd, ProcFail, ProcInterrupted
<1>21. CASE ExecStep /\ (HookFork \/ OrphanEnd)
  BY <1>21 DEF ExecStep, HookFork, OrphanEnd
<1>22. CASE ExecStep /\ (CopyTake \/ CopyFail \/ CopyEof)
  BY <1>22 DEF ExecStep, CopyTake, CopyFail, CopyEof
<1>23. CASE ExecStep /\ (Signal \/ Reap \/ Wait)
  BY <1>23 DEF ExecStep, Signal, Reap, Wait
<1>24. CASE ExecStep /\ (Cancel \/ HookExpire \/ Break)
  BY <1>24 DEF ExecStep, Cancel, HookExpire, Break
<1>25. CASE UNCHANGED vars
  BY <1>25 DEF vars
<1> QED
  BY <1>1, <1>2, <1>3, <1>4, <1>5, <1>6, <1>7, <1>8, <1>9, <1>10, <1>11,
       <1>12, <1>13, <1>14, <1>15, <1>16, <1>17, <1>18, <1>19, <1>20, <1>21,
            <1>22, <1>23, <1>24, <1>25 DEF Next, DriverNext, PgDump,
                 Mysqldump, MongoDump, Tools, ServerNext, ExecStep, ExecNext,
                      ProcNext, CmdNext

\* A buffer starts empty.
LEMMA EmptyHolds == RingHolds(EmptyRing, 0) /\ TailHolds(EmptyRing, 0)
<1>1. EmptyRing \in Rings /\ EmptyRing.buf = <<>> /\ EmptyRing.pos = 0
  BY DEF EmptyRing, Rings
<1>2. ~EmptyRing.full
  BY DEF EmptyRing
<1>3. Count(<<>>, 0, 0) /\ Lesser(Cap, 0) = 0
  BY CapNat DEF Count, Lesser
<1> HIDE DEF EmptyRing
<1> QED
  BY <1>1, <1>2, <1>3, CapNat DEF RingHolds, TailHolds

\* ringBuffer.Write keeps the last Cap bytes.
LEMMA TailWriteHolds ==
  ASSUME NEW r, NEW p, NEW t \in Nat, NEW n \in Nat, TailHolds(r, t),
         Count(p, t, n)
  PROVE  TailHolds([r EXCEPT !.buf = TailWrite(r.buf, p)], t + n)
<1> DEFINE b == TailWrite(r.buf, p)
           q == [r EXCEPT !.buf = b]
<1>1. Count(b, (t + n) - Lesser(Cap, t + n), Lesser(Cap, t + n))
  BY TailWriteCounts DEF TailHolds
<1>2. r \in Rings /\ r.pos = 0 /\ ~r.full /\ b \in Seq(Nat)
  BY <1>1 DEF TailHolds, Count
<1> HIDE DEF b
<1>3. q \in Rings /\ q.buf = b /\ q.pos = 0 /\ ~q.full
  BY <1>2 DEF Rings
<1> HIDE DEF q
<1>4. TailHolds(q, t + n)
  BY <1>1, <1>3 DEF TailHolds
<1> QED
  BY <1>4 DEF q, b

\* However the writes are cut, the buffers hold the end of the output.
LEMMA TailsStep ==
  ASSUME TypeOK, Reaping, Tails, [Next]_vars
  PROVE  Tails'
<1> USE DEF Tails, procVars, copyVars, dataVars, execVars, redisVars,
     dumpVars, mainVars, fixedVars
<1>1. CASE \/ ValidateProbe \/ ValidateFail \/ ValidateOk \/ HookReturn
          \/ SqliteReturn \/ SqliteVersion \/ CopyError
          \/ CopyClose \/ RedisLastSave \/ RedisBgsave \/ RedisPoll
          \/ RedisLate \/ RedisOpen \/ RedisError \/ RedisCancelled
          \/ RedisVersion \/ ServerNext
  BY <1>1, QuietSteps
<1>2. CASE CopyChunk
  BY <1>2 DEF CopyChunk, Copying, Snapshot
<1>3. CASE HookStart
  BY <1>3, EmptyHolds DEF HookStart, Spawn, SpawnFail
<1>4. ASSUME NEW k \in Tools, ToolDump(k)
     PROVE  Tails'
  BY <1>4 DEF ToolDump, ToolStart, ToolReturn, Version, Spawn, SpawnFail
<1>5. CASE SqliteStart
  BY <1>5, EmptyHolds DEF SqliteStart, Spawn, SpawnFail
<1>6. CASE ExecStep /\ (ProcWork \/ ProcDone \/ ProcFail \/ ProcInterrupted)
  BY <1>6 DEF ExecStep, ProcWork, ProcDone, ProcEnd, ProcFail, ProcInterrupted
<1>7. CASE ExecStep /\ (HookFork \/ OrphanEnd)
  BY <1>7 DEF ExecStep, HookFork, OrphanEnd
<1>8. CASE ExecStep /\ CopyTake
  <2>1. PICK n \in 1 .. pipe :
          /\ cmd # "tool" => ring' = Buffer([i \in 1 .. n |-> taken + i])
          /\ cmd # "tool" => taken' = taken + n
    <3>1. CASE cmd = "tool"
      <4>1. 1 \in 1 .. pipe
        BY <1>8, TypeParts DEF CopyTake, Types, CountTypes
      <4> QED
        BY <3>1, <4>1
    <3>2. CASE cmd # "tool"
      BY <1>8, <3>2 DEF CopyTake
    <3> QED
      BY <3>1, <3>2
  <2> DEFINE p == [i \in 1 .. n |-> taken + i]
  <2>2. n \in Nat /\ taken \in Nat /\ UNCHANGED cmd
    BY <1>8, TypeParts DEF CopyTake, Types, CountTypes
  <2>3. Count(p, taken, n)
    BY <2>2, CountFcn
  <2> HIDE DEF p
  <2>4. CASE cmd = "tool"
    BY <1>8, <2>4 DEF CopyTake
  <2>5. CASE cmd = "hook"
    <3>1. ring' = RingWrite(ring, p) /\ taken' = taken + n
      BY <2>1, <2>5 DEF Buffer, p
    <3>2. RingHolds(RingWrite(ring, p), taken + n)
      BY <2>2, <2>3, <2>5, RingWriteHolds
    <3> QED
      BY <2>2, <2>5, <3>1, <3>2
  <2>6. CASE cmd = "backup"
    <3>1. ring' = [ring EXCEPT !.buf = TailWrite(ring.buf, p)]
          /\ taken' = taken + n
      BY <2>1, <2>6 DEF Buffer, p
    <3>2. TailHolds(ring, taken)
      BY <2>6
    <3>3. TailHolds([ring EXCEPT !.buf = TailWrite(ring.buf, p)], taken + n)
      BY <2>2, <2>3, <3>2, TailWriteHolds
    <3> QED
      BY <2>2, <2>6, <3>1, <3>3
  <2>7. CASE cmd = "none"
    BY <1>8, <2>2, <2>7 DEF CopyTake, Reaping
  <2> QED
    BY <2>4, <2>5, <2>6, <2>7, TypeParts DEF Types, ProgramTypes
<1>9. CASE ExecStep /\ (CopyFail \/ CopyEof)
  BY <1>9 DEF ExecStep, CopyFail, CopyEof
<1>10. CASE ExecStep /\ (Signal \/ Reap \/ Wait)
  BY <1>10 DEF ExecStep, Signal, Reap, Wait
<1>11. CASE ExecStep /\ (Cancel \/ HookExpire \/ Break)
  BY <1>11 DEF ExecStep, Cancel, HookExpire, Break
<1>12. CASE UNCHANGED vars
  BY <1>12 DEF vars
<1> QED
  BY <1>1, <1>2, <1>3, <1>4, <1>5, <1>6, <1>7, <1>8, <1>9, <1>10, <1>11, <1>12
       DEF Next, DriverNext, PgDump, Mysqldump, MongoDump, Tools, ExecStep,
            ExecNext, ProcNext, CmdNext

\* Every step keeps the types of the program and its command.
LEMMA ProgramTypesStep ==
  ASSUME ProgramTypes, [Next]_vars
  PROVE  ProgramTypes'
<1> USE DEF ProgramTypes, procVars, copyVars, dataVars, execVars, redisVars,
     dumpVars, mainVars, fixedVars
<1>1. CASE \/ ValidateProbe \/ ValidateFail \/ ValidateOk \/ HookReturn
          \/ SqliteReturn \/ SqliteVersion \/ CopyError
          \/ CopyClose \/ RedisLastSave \/ RedisBgsave \/ RedisPoll
          \/ RedisLate \/ RedisOpen \/ RedisError \/ RedisCancelled
          \/ RedisVersion \/ ServerNext
  BY <1>1, QuietSteps
<1>2. CASE CopyChunk
  BY <1>2 DEF CopyChunk, Copying, Snapshot
<1>3. CASE HookStart
  BY <1>3 DEF HookStart, Spawn, SpawnFail
<1>4. ASSUME NEW k \in Tools, ToolDump(k)
     PROVE  ProgramTypes'
  BY <1>4 DEF ToolDump, ToolStart, ToolReturn, Version, Spawn, SpawnFail
<1>5. CASE SqliteStart
  BY <1>5 DEF SqliteStart, Spawn, SpawnFail
<1>6. CASE ExecStep /\ (ProcWork \/ ProcDone \/ ProcFail \/ ProcInterrupted)
  BY <1>6 DEF ExecStep, ProcWork, ProcDone, ProcEnd, ProcFail, ProcInterrupted
<1>7. CASE ExecStep /\ (HookFork \/ OrphanEnd)
  BY <1>7 DEF ExecStep, HookFork, OrphanEnd
<1>8. CASE ExecStep /\ CopyTake
  BY <1>8 DEF ExecStep, CopyTake
<1>9. CASE ExecStep /\ (CopyFail \/ CopyEof)
  BY <1>9 DEF ExecStep, CopyFail, CopyEof
<1>10. CASE ExecStep /\ (Signal \/ Reap \/ Wait)
  BY <1>10 DEF ExecStep, Signal, Reap, Wait
<1>11. CASE ExecStep /\ (Cancel \/ HookExpire \/ Break)
  BY <1>11 DEF ExecStep, Cancel, HookExpire, Break
<1>12. CASE UNCHANGED vars
  BY <1>12 DEF vars
<1> QED
  BY <1>1, <1>2, <1>3, <1>4, <1>5, <1>6, <1>7, <1>8, <1>9, <1>10, <1>11, <1>12
       DEF Next, DriverNext, PgDump, Mysqldump, MongoDump, Tools, ExecStep,
            ExecNext, ProcNext, CmdNext

\* Every step keeps the counts of work and output in their bounds.
LEMMA CountTypesStep ==
  ASSUME CountTypes, Phase, Reaping, Archive, [Next]_vars
  PROVE  CountTypes'
<1> USE DEF CountTypes, Phase, Reaping, Archive, procVars, copyVars, dataVars,
     execVars, redisVars, dumpVars, mainVars, fixedVars
<1>1. CASE \/ ValidateProbe \/ ValidateFail \/ ValidateOk \/ HookReturn
          \/ SqliteReturn \/ SqliteVersion \/ CopyError
          \/ CopyClose \/ RedisLastSave \/ RedisBgsave \/ RedisPoll
          \/ RedisLate \/ RedisOpen \/ RedisError \/ RedisCancelled
          \/ RedisVersion \/ ServerNext
  BY <1>1, QuietSteps
<1>2. CASE CopyChunk
  BY <1>2, ExecAssumption DEF CopyChunk, Copying, Snapshot
<1>3. CASE HookStart
  BY <1>3, ExecAssumption DEF HookStart, Spawn, SpawnFail
<1>4. ASSUME NEW k \in Tools, ToolDump(k)
     PROVE  CountTypes'
  BY <1>4, ExecAssumption DEF ToolDump, ToolStart, ToolReturn, Version, Spawn,
       SpawnFail
<1>5. CASE SqliteStart
  BY <1>5, ExecAssumption DEF SqliteStart, Spawn, SpawnFail
<1>6. CASE ExecStep /\ ProcWork
  BY <1>6, ExecAssumption DEF ExecStep, ProcWork, Printed
<1>7. CASE ExecStep /\ (ProcDone \/ ProcFail \/ ProcInterrupted)
  BY <1>7, ExecAssumption DEF ExecStep, ProcDone, ProcEnd, ProcFail,
       ProcInterrupted
<1>8. CASE ExecStep /\ (HookFork \/ OrphanEnd)
  BY <1>8, ExecAssumption DEF ExecStep, HookFork, OrphanEnd
<1>9. CASE ExecStep /\ CopyTake
  <2>1. copier = "copying" /\ pipe > 0
    BY <1>9 DEF CopyTake
  <2>2. UNCHANGED <<procVars, filled>>
    BY <1>9 DEF CopyTake
  <2>3. CASE cmd = "tool"
    <3>1. proc # "none" /\ dumped + pipe + todo = Work
      BY <2>1, <2>3
    <3>2. dumped' = dumped + 1 /\ pipe' = pipe - 1 /\ UNCHANGED taken
      BY <1>9, <2>3 DEF CopyTake
    <3> QED
      BY <2>1, <2>2, <3>1, <3>2, ExecAssumption
  <2>4. CASE cmd # "tool"
    <3>1. PICK n \in 1 .. pipe :
            taken' = taken + n /\ pipe' = pipe - n /\ UNCHANGED dumped
      BY <1>9, <2>4 DEF CopyTake
    <3> QED
      BY <2>1, <2>2, <3>1, ExecAssumption
  <2> QED
    BY <2>3, <2>4
<1>10. CASE ExecStep /\ (CopyFail \/ CopyEof)
  BY <1>10, ExecAssumption DEF ExecStep, CopyFail, CopyEof
<1>11. CASE ExecStep /\ (Signal \/ Reap \/ Wait)
  BY <1>11, ExecAssumption DEF ExecStep, Signal, Reap, Wait
<1>12. CASE ExecStep /\ (Cancel \/ HookExpire \/ Break)
  BY <1>12, ExecAssumption DEF ExecStep, Cancel, HookExpire, Break
<1>13. CASE UNCHANGED vars
  BY <1>13 DEF vars
<1> QED
  BY <1>1, <1>2, <1>3, <1>4, <1>5, <1>6, <1>7, <1>8, <1>9, <1>10, <1>11,
       <1>12, <1>13 DEF Next, DriverNext, PgDump, Mysqldump, MongoDump, Tools,
            ExecStep, ExecNext, ProcNext, CmdNext

\* Every step keeps the types of the driver's own variables.
LEMMA MainTypesStep ==
  ASSUME MainTypes, [Next]_vars
  PROVE  MainTypes'
<1> USE DEF MainTypes, procVars, copyVars, dataVars, execVars, redisVars,
     dumpVars, mainVars, fixedVars
<1>1. CASE ValidateProbe
  <2> DEFINE n == Len(Probes)
  <2>1. n \in 1 .. 2
    BY DEF Probes, PgProbes, MysqlProbes, MongoProbes, SqliteProbes, RedisProbes,
           Kinds, Tools
  <2>2. probe < n /\ probe' = probe + 1
    BY <1>1 DEF ValidateProbe
  <2> HIDE DEF n
  <2>3. probe' \in 0 .. 2
    BY <2>1, <2>2
  <2> QED
    BY <1>1, <2>3 DEF ValidateProbe
<1>2. CASE ValidateFail
  BY <1>2 DEF ValidateFail, Return
<1>3. CASE ValidateOk
  BY <1>3 DEF ValidateOk, Goto
<1>4. CASE HookStart
  BY <1>4 DEF HookStart, Goto
<1>5. CASE HookReturn
  <2>1. HookOutcome \in {"ok", "timeout", "cancelled", "nonzero", "failed"}
    BY DEF HookOutcome
  <2> QED
    BY <1>5, <2>1 DEF HookReturn
<1>6. ASSUME NEW k \in Tools, ToolDump(k)
     PROVE  MainTypes'
  BY <1>6 DEF ToolDump, ToolStart, ToolReturn, Version, Return, Goto
<1>7. CASE SqliteStart
  BY <1>7 DEF SqliteStart, Return
<1>8. CASE SqliteReturn
  BY <1>8 DEF SqliteReturn, Return, Goto
<1>9. CASE SqliteVersion
  BY <1>9 DEF SqliteVersion, Version, Return
<1>10. CASE CopyChunk
  BY <1>10 DEF CopyChunk, Copying
<1>11. CASE CopyError
  BY <1>11 DEF CopyError, Copying, Return
<1>12. CASE CopyClose
  BY <1>12 DEF CopyClose, Copying, Goto
<1>13. CASE RedisLastSave \/ RedisBgsave \/ RedisPoll \/ RedisLate
  BY <1>13 DEF RedisLastSave, AtRedis, Goto, RedisBgsave, RedisPoll,
       RedisLate, Return
<1>14. CASE RedisOpen \/ RedisError \/ RedisCancelled \/ RedisVersion
  BY <1>14 DEF RedisOpen, AtRedis, Goto, RedisError, Return, RedisCancelled,
       RedisVersion, Version
<1>15. CASE ServerWrite \/ ServerSave \/ ServerSaved \/ ServerSaveFails \/ Tick
  BY <1>15 DEF ServerWrite, ServerSave, ServerSaved, ServerSaveFails, Tick
<1>16. CASE ExecStep /\ (ProcWork \/ ProcDone \/ ProcFail \/ ProcInterrupted)
  BY <1>16 DEF ExecStep, ProcWork, ProcDone, ProcEnd, ProcFail, ProcInterrupted
<1>17. CASE ExecStep /\ (HookFork \/ OrphanEnd)
  BY <1>17 DEF ExecStep, HookFork, OrphanEnd
<1>18. CASE ExecStep /\ (CopyTake \/ CopyFail \/ CopyEof)
  BY <1>18 DEF ExecStep, CopyTake, CopyFail, CopyEof
<1>19. CASE ExecStep /\ (Signal \/ Reap \/ Wait)
  BY <1>19 DEF ExecStep, Signal, Reap, Wait
<1>20. CASE ExecStep /\ (Cancel \/ HookExpire \/ Break)
  BY <1>20 DEF ExecStep, Cancel, HookExpire, Break
<1>21. CASE UNCHANGED vars
  BY <1>21 DEF vars
<1> QED
  BY <1>1, <1>2, <1>3, <1>4, <1>5, <1>6, <1>7, <1>8, <1>9, <1>10, <1>11,
       <1>12, <1>13, <1>14, <1>15, <1>16, <1>17, <1>18, <1>19, <1>20, <1>21
            DEF Next, DriverNext, PgDump, Mysqldump, MongoDump, Tools,
                 ServerNext, ExecStep, ExecNext, ProcNext, CmdNext

\* Every step keeps the types of the Redis server's variables.
LEMMA RedisTypesStep ==
  ASSUME RedisTypes, [Next]_vars
  PROVE  RedisTypes'
<1> USE DEF RedisTypes, NoSave, procVars, copyVars, dataVars, execVars,
     redisVars, dumpVars, mainVars, fixedVars
<1>1. CASE ValidateProbe \/ ValidateFail \/ ValidateOk
  BY <1>1, DriversAssumption DEF ValidateProbe, ValidateFail, ValidateOk
<1>2. CASE HookStart
  BY <1>2, DriversAssumption DEF HookStart
<1>3. CASE HookReturn
  BY <1>3, DriversAssumption DEF HookReturn
<1>4. ASSUME NEW k \in Tools, ToolDump(k)
     PROVE  RedisTypes'
  BY <1>4, DriversAssumption DEF ToolDump, ToolStart, ToolReturn, Version
<1>5. CASE SqliteStart
  BY <1>5, DriversAssumption DEF SqliteStart
<1>6. CASE SqliteReturn \/ SqliteVersion
  BY <1>6, DriversAssumption DEF SqliteReturn, SqliteVersion, Version
<1>7. CASE CopyChunk \/ CopyError \/ CopyClose
  BY <1>7, DriversAssumption DEF CopyChunk, Copying, CopyError, CopyClose
<1>8. CASE RedisLastSave
  BY <1>8, DriversAssumption DEF RedisLastSave, AtRedis
<1>9. CASE RedisBgsave
  BY <1>9, DriversAssumption DEF RedisBgsave, AtRedis
<1>10. CASE RedisPoll \/ RedisLate \/ RedisOpen
  BY <1>10, DriversAssumption DEF RedisPoll, AtRedis, RedisLate, RedisOpen
<1>11. CASE RedisError \/ RedisCancelled \/ RedisVersion
  BY <1>11, DriversAssumption DEF RedisError, AtRedis, RedisCancelled,
       RedisVersion, Version
<1>12. CASE ServerWrite
  BY <1>12, DriversAssumption DEF ServerWrite, RedisUp
<1>13. CASE ServerSave
  BY <1>13, DriversAssumption DEF ServerSave, RedisUp
<1>14. CASE ServerSaved
  BY <1>14, DriversAssumption DEF ServerSaved, RedisUp
<1>15. CASE ServerSaveFails
  BY <1>15, DriversAssumption DEF ServerSaveFails, RedisUp
<1>16. CASE Tick
  BY <1>16, DriversAssumption DEF Tick, RedisUp
<1>17. CASE ExecStep /\ (ProcWork \/ ProcDone \/ ProcFail \/ ProcInterrupted)
  BY <1>17, DriversAssumption DEF ExecStep, ProcWork, ProcDone, ProcEnd,
       ProcFail, ProcInterrupted
<1>18. CASE ExecStep /\ (HookFork \/ OrphanEnd)
  BY <1>18, DriversAssumption DEF ExecStep, HookFork, OrphanEnd
<1>19. CASE ExecStep /\ (CopyTake \/ CopyFail \/ CopyEof)
  BY <1>19, DriversAssumption DEF ExecStep, CopyTake, CopyFail, CopyEof
<1>20. CASE ExecStep /\ (Signal \/ Reap \/ Wait)
  BY <1>20, DriversAssumption DEF ExecStep, Signal, Reap, Wait
<1>21. CASE ExecStep /\ (Cancel \/ HookExpire \/ Break)
  BY <1>21, DriversAssumption DEF ExecStep, Cancel, HookExpire, Break
<1>22. CASE UNCHANGED vars
  BY <1>22 DEF vars
<1> QED
  BY <1>1, <1>2, <1>3, <1>4, <1>5, <1>6, <1>7, <1>8, <1>9, <1>10, <1>11,
       <1>12, <1>13, <1>14, <1>15, <1>16, <1>17, <1>18, <1>19, <1>20, <1>21,
            <1>22 DEF Next, DriverNext, PgDump, Mysqldump, MongoDump, Tools,
                 ServerNext, ExecStep, ExecNext, ProcNext, CmdNext

-----------------------------------------------------------------------------
(***************************************************************************)
(* The invariant theorems.                                                 *)
(***************************************************************************)
LEMMA RingHoldsType ==
  ASSUME NEW r, NEW t \in Nat, RingHolds(r, t)
  PROVE  r.buf \in Seq(Nat) /\ r.pos \in 0 .. Cap - 1 /\ r.full \in BOOLEAN
<1>1. r.full \in BOOLEAN /\ r.buf \in Seq(Nat)
  BY DEF RingHolds, Rings
<1>2. r.pos \in 0 .. Cap - 1
  <2>1. CASE r.full
    BY <2>1 DEF RingHolds, FullHolds
  <2>2. CASE ~r.full
    BY <2>2, CapNat DEF RingHolds
  <2> QED
    BY <1>1, <2>1, <2>2
<1> QED
  BY <1>1, <1>2

\* What Tails says of a buffer includes its type.
LEMMA TailHoldsType ==
  ASSUME NEW r, NEW t \in Nat, TailHolds(r, t)
  PROVE  r.buf \in Seq(Nat) /\ r.pos \in 0 .. Cap - 1 /\ r.full \in BOOLEAN
BY CapNat DEF TailHolds, Rings

\* The ring buffer's type follows from what it holds.
LEMMA RingTyped ==
  ASSUME NEW c \in {"none", "tool", "backup", "hook"}, NEW r, NEW t \in Nat,
         c = "hook" => RingHolds(r, t),
         c = "backup" => TailHolds(r, t),
         c \in {"none", "tool"} => r = EmptyRing
  PROVE  r.buf \in Seq(Nat) /\ r.pos \in 0 .. Cap - 1 /\ r.full \in BOOLEAN
<1>1. CASE c = "hook"
  BY <1>1, RingHoldsType
<1>2. CASE c # "hook"
  BY <1>2, TailHoldsType, EmptyHolds
<1> QED
  BY <1>1, <1>2

\* The invariant holds before a driver is called.
LEMMA InitIInv == Init => IInv
<1> SUFFICES ASSUME Init PROVE IInv
  OBVIOUS
<1>1. /\ ExecInit /\ kind \in Kinds
      /\ pc = "validate" /\ probe = 0 /\ res = "none" /\ outcome = "none"
      /\ tmp = FALSE
      /\ now = 0 /\ data = 0 /\ saving = NoSave /\ lastsave = 0 /\ rdb = 0
      /\ prev = 0 /\ deadline = 0 /\ src = 0 /\ data0 = 0 /\ busy0 = FALSE
  BY DEF Init
<1>2. target \in {"good", "nil", "nopath", "nofile"}
  <2>1. CASE kind = "sqlite"
    BY <2>1 DEF Init
  <2>2. CASE kind # "sqlite"
    BY <2>2 DEF Init
  <2> QED
    BY <2>1, <2>2
<1>3. ProgramTypes
  BY <1>1 DEF ProgramTypes, ExecInit
<1>4. CountTypes
  BY <1>1, ExecAssumption DEF CountTypes, ExecInit
<1>5. MainTypes
  <2>1. tmp \in BOOLEAN
    BY <1>1
  <2>2. probe \in 0 .. 2
    BY <1>1
  <2> QED
    BY <1>1, <1>2, <2>1, <2>2, Zenon DEF MainTypes
<1>6. RedisTypes
  <2>1. busy0 \in BOOLEAN
    BY <1>1
  <2>2. MaxNow + PollTimeout \in Nat /\ MaxNow \in Nat /\ MaxWrites \in Nat
    BY DriversAssumption
  <2>3. now \in 0 .. MaxNow /\ data \in 0 .. MaxWrites
    BY <1>1, <2>2
  <2>4. deadline \in 0 .. MaxNow + PollTimeout /\ 0 \in 0 .. 0
    BY <1>1, <2>2
  <2> QED
    BY <1>1, <2>1, <2>3, <2>4, Zenon DEF RedisTypes
<1>7. Tails
  BY <1>1 DEF Tails, ExecInit
<1>8. RingType
  BY <1>3, <1>4, <1>7, RingTyped DEF ProgramTypes, CountTypes, Tails, RingType
<1>9. Phase /\ Reaping /\ Archive
  BY <1>1, ExecAssumption DEF Phase, Reaping, Archive, ExecInit
<1>10. Saved
  BY <1>1 DEF Saved
<1> QED
  BY <1>3, <1>4, <1>5, <1>6, <1>7, <1>8, <1>9, <1>10, TypeParts
  DEF IInv, Types

\* Every step keeps the invariant.
LEMMA StepIInv == IInv /\ [Next]_vars => IInv'
<1> SUFFICES ASSUME IInv, [Next]_vars PROVE IInv'
  OBVIOUS
<1>1. /\ TypeOK /\ Phase /\ Reaping /\ Archive /\ Saved /\ Tails
      /\ ProgramTypes /\ CountTypes /\ MainTypes /\ RedisTypes
  BY TypeParts DEF IInv, Types
<1>2. Phase' /\ Reaping' /\ Archive' /\ Saved' /\ Tails'
  BY <1>1, PhaseStep, ReapingStep, ArchiveStep, SavedStep, TailsStep
<1>3. ProgramTypes' /\ CountTypes' /\ MainTypes' /\ RedisTypes'
  BY <1>1, ProgramTypesStep, CountTypesStep, MainTypesStep, RedisTypesStep
<1>4. RingType'
  <2>1. cmd' \in {"none", "tool", "backup", "hook"} /\ taken' \in Nat
    BY <1>3 DEF ProgramTypes, CountTypes
  <2>2. /\ cmd' = "hook" => RingHolds(ring', taken')
        /\ cmd' = "backup" => TailHolds(ring', taken')
        /\ cmd' \in {"none", "tool"} => ring' = EmptyRing
    BY <1>2 DEF Tails
  <2> QED
    BY <2>1, <2>2, RingTyped DEF RingType
<1> QED
  BY <1>2, <1>3, <1>4, TypeParts DEF IInv, Types

\* The invariant behind the theorems of this module, for every behaviour of
\* the drivers, of os/exec and of the redis server.
THEOREM IInvHolds == Spec => []IInv
BY InitIInv, StepIInv, PTL DEF Spec

\* Every variable keeps its type: a driver never writes more chunks than the
\* archive has, and no index into hookRingBuffer's slice leaves it.
THEOREM TypeCorrect == Spec => []TypeOK
<1>1. IInv => TypeOK
  BY DEF IInv
<1> QED
  BY <1>1, IInvHolds, PTL

\* redisdump: only a save under way when Dump begins can make a backup that
\* succeeds older than the dump, whatever other clients write and save.
THEOREM StaleOnlyBehindASave == Spec => []StaleOnlyIfSaving
<1>1. IInv => StaleOnlyIfSaving
  <2> SUFFICES ASSUME IInv, kind = "redis", res = "ok", src < data0
               PROVE  busy0
    BY DEF StaleOnlyIfSaving
  <2>1. RedisTypes
    BY TypeParts DEF IInv, Types
  <2>2. ~busy0 => src >= data0
    BY DEF IInv, Saved
  <2> QED
    BY <2>1, <2>2 DEF RedisTypes
<1> QED
  BY <1>1, IInvHolds, PTL

\* hookRingBuffer and ringBuffer hold the last Cap bytes of what was written to
\* them in their order, for any capacity and however the writes are cut.
THEOREM TailsAreKept == Spec => []TailKept
<1>1. IInv => TailKept
  <2> SUFFICES ASSUME IInv, cmd \in {"backup", "hook"}
               PROVE  Kept = [i \in 1 .. Lesser(Cap, taken) |->
                                taken - Lesser(Cap, taken) + i]
    BY DEF TailKept
  <2> DEFINE m == Lesser(Cap, taken)
  <2>1. taken \in Nat
    BY TypeParts DEF IInv, Types, CountTypes
  <2>2. m \in Nat /\ taken - m \in Nat
    BY <2>1, CapNat DEF Lesser
  <2>3. Count(Kept, taken - m, m)
    <3>1. CASE cmd = "hook"
      BY <2>1, <3>1, RingStringCounts DEF IInv, Tails, Kept
    <3>2. CASE cmd = "backup"
      BY <3>2 DEF IInv, Tails, TailHolds, Kept
    <3> QED
      BY <3>1, <3>2
  <2> HIDE DEF m
  <2>4. Kept = [i \in 1 .. m |-> (taken - m) + i]
    BY <2>2, <2>3, CountIs
  <2> QED
    BY <2>4 DEF m
<1> QED
  BY <1>1, IInvHolds, PTL

-----------------------------------------------------------------------------
(***************************************************************************)
(* The drivers implement Driver.  What the contract sees of a step is      *)
(* whether it writes a chunk and whether it returns.                       *)
(***************************************************************************)
ContractStep == [Contract!Next]_(Contract!vars)

\* A step that hands on no chunk and returns nothing is a stutter.
LEMMA NothingSeen ==
  ASSUME UNCHANGED <<dumped, res>>
  PROVE  ContractStep
BY DEF ContractStep, Contract!vars

\* Returning an error is a step of the contract.
LEMMA ErrorSeen ==
  ASSUME res = "none", res' \in {"error", "timeout"}, UNCHANGED dumped
  PROVE  ContractStep
BY DEF ContractStep, Contract!Next, Contract!Fail

\* Handing on a chunk is a step of the contract.
LEMMA ChunkSeen ==
  ASSUME res = "none", UNCHANGED res, dumped < Work, dumped' = dumped + 1
  PROVE  ContractStep
BY DEF ContractStep, Contract!Next, Contract!Write

\* Returning nil with the whole archive is a step of the contract.
LEMMA SuccessSeen ==
  ASSUME res = "none", res' = "ok", dumped = Work, UNCHANGED dumped
  PROVE  ContractStep
BY DEF ContractStep, Contract!Next, Contract!Succeed

\* Every step of a driver, of os/exec or of the server is one of the
\* contract's or changes nothing the contract sees.
LEMMA StepRefines ==
  ASSUME Phase, Reaping, Archive, CountTypes, [Next]_vars
  PROVE  ContractStep
<1> USE DEF procVars, copyVars, dataVars, execVars, redisVars, dumpVars,
     mainVars, fixedVars, Phase, Archive
<1>1. CASE ValidateProbe \/ ValidateOk
  BY <1>1, NothingSeen DEF ValidateProbe, ValidateOk, Goto
<1>2. CASE ValidateFail
  BY <1>2, ErrorSeen DEF ValidateFail, Return
<1>3. CASE HookStart
  BY <1>3, NothingSeen DEF HookStart, Goto, Spawn, SpawnFail
<1>4. CASE HookReturn
  BY <1>4, NothingSeen, ErrorSeen DEF HookReturn
<1>5. ASSUME NEW k \in Tools, ToolDump(k)
     PROVE  ContractStep
  <2>1. CASE ToolStart(k)
    BY <1>5, <2>1, NothingSeen, ErrorSeen
       DEF ToolStart, Spawn, SpawnFail, Return, Goto
  <2>2. CASE ToolReturn(k)
    BY <1>5, <2>2, NothingSeen, ErrorSeen DEF ToolReturn, Return, Goto
  <2>3. CASE Version(k)
    BY <1>5, <2>3, SuccessSeen DEF Version, Return
  <2> QED
    BY <1>5, <2>1, <2>2, <2>3 DEF ToolDump
<1>6. CASE SqliteStart
  BY <1>6, NothingSeen, ErrorSeen DEF SqliteStart, Return, Spawn, SpawnFail
<1>7. CASE SqliteReturn
  BY <1>7, NothingSeen, ErrorSeen DEF SqliteReturn, Return, Goto
<1>8. CASE SqliteVersion \/ RedisVersion
  BY <1>8, SuccessSeen DEF SqliteVersion, RedisVersion, Version, Return
<1>9. CASE CopyChunk
  <2>1. dumped < Work
    <3>1. filled \in 0 .. Work /\ dumped \in 0 .. Work
      BY DEF CountTypes
    <3> QED
      BY <1>9, <3>1, ExecAssumption DEF CopyChunk, Snapshot
  <2> QED
    BY <1>9, <2>1, ChunkSeen DEF CopyChunk, Copying
<1>10. CASE CopyError
  BY <1>10, ErrorSeen DEF CopyError, Copying, Return
<1>11. CASE CopyClose
  BY <1>11, NothingSeen DEF CopyClose, Goto
<1>12. CASE RedisLastSave \/ RedisBgsave \/ RedisPoll \/ RedisOpen
  BY <1>12, NothingSeen DEF RedisLastSave, RedisBgsave, RedisPoll, RedisOpen, Goto
<1>13. CASE RedisLate
  BY <1>13, NothingSeen, ErrorSeen DEF RedisLate, AtRedis, Return, Goto
<1>14. CASE RedisError \/ RedisCancelled
  BY <1>14, ErrorSeen DEF RedisError, RedisCancelled, AtRedis, Return
<1>15. CASE ServerWrite \/ ServerSave \/ ServerSaved \/ ServerSaveFails \/ Tick
  BY <1>15, NothingSeen DEF ServerWrite, ServerSave, ServerSaved, ServerSaveFails, Tick
<1>16. CASE ExecStep /\ (ProcWork \/ ProcDone \/ ProcFail \/ ProcInterrupted)
  BY <1>16, NothingSeen DEF ExecStep, ProcWork, ProcDone, ProcFail, ProcInterrupted,
     ProcEnd
<1>17. CASE ExecStep /\ (HookFork \/ OrphanEnd \/ CopyFail \/ CopyEof)
  BY <1>17, NothingSeen DEF ExecStep, HookFork, OrphanEnd, CopyFail, CopyEof
<1>18. CASE ExecStep /\ CopyTake
  <2>1. copier = "copying" /\ pipe > 0 /\ pc # "done" /\ UNCHANGED res
    BY <1>18 DEF ExecStep, CopyTake
  <2>2. CASE cmd = "tool"
    <3>1. proc # "none" /\ dumped + pipe + todo = Work
      BY <2>1, <2>2 DEF Reaping
    <3>2. dumped < Work
      BY <2>1, <3>1, ExecAssumption DEF CountTypes
    <3> QED
      BY <1>18, <2>1, <2>2, <3>2, ChunkSeen DEF CopyTake
  <2>3. CASE cmd # "tool"
    BY <1>18, <2>1, <2>3, NothingSeen DEF CopyTake
  <2> QED
    BY <2>2, <2>3
<1>19. CASE ExecStep /\ (Signal \/ Reap \/ Wait)
  BY <1>19, NothingSeen DEF ExecStep, Signal, Reap, Wait
<1>20. CASE ExecStep /\ (Cancel \/ HookExpire \/ Break)
  BY <1>20, NothingSeen DEF ExecStep, Cancel, HookExpire, Break
<1>21. CASE UNCHANGED vars
  BY <1>21, NothingSeen DEF vars
<1> QED
  BY <1>1, <1>2, <1>3, <1>4, <1>5, <1>6, <1>7, <1>8, <1>9, <1>10, <1>11,
       <1>12, <1>13, <1>14, <1>15, <1>16, <1>17, <1>18, <1>19, <1>20, <1>21
            DEF Next, DriverNext, PgDump, Mysqldump, MongoDump, Tools,
                 ServerNext, ExecStep, ExecNext, ProcNext, CmdNext

\* Every driver keeps the contract of pipeline.Driver, for any size of archive:
\* success is returned only after the last chunk, and nothing is written after
\* the call has returned.
THEOREM DriversKeepContract == Spec => KeepsContract
<1>1. Init => Contract!Init
  BY DEF Init, ExecInit, Contract!Init
<1>2. IInv /\ [Next]_vars => [Contract!Next]_(Contract!vars)
  <2> SUFFICES ASSUME IInv, [Next]_vars PROVE ContractStep
    BY DEF ContractStep
  <2>1. Phase /\ Reaping /\ Archive /\ CountTypes
    BY TypeParts DEF IInv, Types
  <2> QED
    BY <2>1, StepRefines
<1> QED
  BY <1>1, <1>2, IInvHolds, PTL DEF Spec, KeepsContract, Contract!Spec

==============================================================================
