------------------------------ MODULE WireProofs ------------------------------
(***************************************************************************)
(* Lemmas about messages on their way, for both kinds of connection.  A    *)
(* pipe holds the bytes between a reader and a writer; it is Lined up when *)
(* its bytes lead, one by one, from the reader's position to the writer's. *)
(* The reader stays lined up whatever it reads of a part, and the writer   *)
(* whatever it writes of one.                                              *)
(***************************************************************************)
EXTENDS Wire, Sequences, FiniteSets, FiniteSetTheorems, WellFoundedInduction, TLAPS

(***************************************************************************)
(* Induction, from the well-foundedness of finite sets under inclusion: a  *)
(* set of numbers has a least one, so a set that holds 0 and with every    *)
(* number the next holds them all.                                         *)
(***************************************************************************)
LEMMA Least ==
    ASSUME NEW N \in SUBSET Nat, N # {}
    PROVE  \E m \in N : \A n \in N : m <= n
<1> DEFINE T == {0 .. n : n \in N}
<1>1. IsWellFoundedOn(StrictSubsetOrdering(Nat), FiniteSubsetsOf(Nat))
  BY FS_StrictSubsetOrderingWellFounded
<1>2. T \subseteq FiniteSubsetsOf(Nat)
  <2>1. SUFFICES ASSUME NEW n \in N PROVE 0 .. n \in FiniteSubsetsOf(Nat)
    OBVIOUS
  <2>2. IsFiniteSet(0 .. n)
    BY FS_Interval
  <2> QED
    BY <2>2 DEF FiniteSubsetsOf
<1>3. T # {}
  OBVIOUS
<1>4. PICK x \in T : \A y \in T : ~(<<y, x>> \in StrictSubsetOrdering(Nat))
  <2> HIDE DEF T
  <2> QED
    BY <1>1, <1>2, <1>3, WFMin, Zenon
<1>5. PICK m \in N : x = 0 .. m
  OBVIOUS
<1>6. ASSUME NEW n \in N PROVE m <= n
  <2>1. SUFFICES ASSUME n < m PROVE FALSE
    OBVIOUS
  <2>2. 0 .. n \in T
    OBVIOUS
  <2>3. 0 .. n \subseteq 0 .. m /\ 0 .. n # 0 .. m /\ 0 .. n \subseteq Nat /\ 0 .. m \subseteq Nat
    BY <2>1
  <2>4. <<0 .. n, 0 .. m>> \in StrictSubsetOrdering(Nat)
    BY <2>3 DEF StrictSubsetOrdering
  <2> QED
    BY <1>4, <1>5, <2>2, <2>4
<1> QED
  BY <1>6

LEMMA Inductive ==
    ASSUME NEW S, 0 \in S, \A n \in Nat : n \in S => n + 1 \in S
    PROVE  Nat \subseteq S
<1> SUFFICES ASSUME ~(Nat \subseteq S) PROVE FALSE
  OBVIOUS
<1>1. PICK m \in Nat \ S : \A n \in Nat \ S : m <= n
  <2>1. Nat \ S # {} /\ Nat \ S \in SUBSET Nat
    OBVIOUS
  <2> QED
    BY <2>1, Least
<1>2. m # 0 /\ m - 1 \in Nat
  BY <1>1
<1>3. m - 1 \in S
  BY <1>1, <1>2
<1> QED
  BY <1>1, <1>2, <1>3

-----------------------------------------------------------------------------
(* A byte of a message, and a position within one or between two.          *)
Sound(b) ==
    /\ b = ByteOf(b.part, b.n, b.msg)
    /\ b.part \in {"hdr", "body"} /\ b.msg.len \in Nat
    /\ b.n \in 1 .. PartLen(b.part, b.msg)
Within(s) ==
    \/ s = Idle
    \/ /\ s = [part |-> s.part, bytes |-> s.bytes, msg |-> s.msg]
       /\ s.part \in {"hdr", "body"} /\ s.msg.len \in Nat
       /\ s.bytes \in 0 .. PartLen(s.part, s.msg)

(* A finished part is followed by the next one; the start of a header, and *)
(* the end of a message, expect any message.                               *)
Settled(s) == IF s.bytes > 0 THEN s ELSE Advance(s, 0)
AtStart(s) == s.part = "idle" \/ (s.part = "hdr" /\ s.bytes = HdrLen)
Agree(s, t) == s = t \/ (AtStart(s) /\ AtStart(t))

(* The bytes of pipe lead from the reader at s to the writer at w.         *)
Lined(pipe, s, w) ==
    /\ Within(s) /\ Within(w)
    /\ \A i \in 1 .. Len(pipe) : Sound(pipe[i])
    /\ Len(pipe) = 0 => Agree(Settled(s), Settled(w))
    /\ Len(pipe) > 0 => /\ Continues(pipe[1], Settled(s))
                        /\ Agree(After(pipe[Len(pipe)]), Settled(w))
    /\ \A i \in 2 .. Len(pipe) : Continues(pipe[i], After(pipe[i - 1]))

(* Where a reader is once it saw the first byte b.                         *)
Meeting(s, b) == IF AtStart(s) THEN Position("hdr", b.msg) ELSE s
Moved(s, n) == [s EXCEPT !.bytes = @ - n]

LEMMA Continuing ==
    ASSUME NEW b, NEW s
    PROVE  Continues(b, s) <=> IF AtStart(s) THEN b.part = "hdr" /\ b.n = 1
                               ELSE b = ByteOf(s.part, NextByte(s), s.msg)
  BY DEF Continues, AtStart

(* Positions that agree expect the same bytes.                             *)
LEMMA AgreeingContinue ==
    ASSUME NEW b, NEW s, NEW t, Agree(s, t), Continues(b, s)
    PROVE  Continues(b, t)
  BY Continuing DEF Agree

LEMMA Agreement ==
    /\ \A s : Agree(s, s)
    /\ \A s, t : Agree(s, t) => Agree(t, s)
    /\ \A s, t, u : Agree(s, t) /\ Agree(t, u) => Agree(s, u)
  BY DEF Agree

(* Only what the positions expect counts.                                  *)
LEMMA ReaderAgrees ==
    ASSUME NEW pipe, NEW s, NEW t, NEW w, Lined(pipe, s, w),
           Within(t), Agree(Settled(s), Settled(t))
    PROVE  Lined(pipe, t, w)
<1> DEFINE p == Settled(s)
           q == Settled(t)
           v == Settled(w)
<1> HIDE DEF p, q, v
<1>1. Agree(p, q)
  BY DEF p, q
<1>2. Len(pipe) = 0 => Agree(p, v)
  BY DEF Lined, p, v
<1>3. Len(pipe) = 0 => Agree(q, v)
  BY <1>1, <1>2, Agreement
<1>4. Len(pipe) > 0 => Continues(pipe[1], q)
  BY <1>1, AgreeingContinue DEF Lined, p
<1> QED
  BY <1>3, <1>4 DEF Lined, q, v

LEMMA WriterAgrees ==
    ASSUME NEW pipe, NEW s, NEW w, NEW t, Lined(pipe, s, w),
           Within(t), Agree(Settled(w), Settled(t))
    PROVE  Lined(pipe, s, t)
<1> DEFINE p == Settled(s)
           q == Settled(t)
           v == Settled(w)
           e == After(pipe[Len(pipe)])
<1> HIDE DEF p, q, v, e
<1>1. Agree(v, q)
  BY DEF v, q
<1>2. Len(pipe) = 0 => Agree(p, q)
  <2>1. Len(pipe) = 0 => Agree(p, v)
    BY DEF Lined, p, v
  <2> QED
    BY <1>1, <2>1, Agreement
<1>3. Len(pipe) > 0 => Agree(e, q)
  <2>1. Len(pipe) > 0 => Agree(e, v)
    BY DEF Lined, e, v
  <2> QED
    BY <1>1, <2>1, Agreement
<1> QED
  BY <1>2, <1>3 DEF Lined, p, q, e

-----------------------------------------------------------------------------
(* Inside a part, with the numbers of its bytes.                           *)
Inside(s) ==
    /\ s = [part |-> s.part, bytes |-> s.bytes, msg |-> s.msg]
    /\ s.part \in {"hdr", "body"} /\ s.msg.len \in Nat /\ PartLen(s.part, s.msg) \in Nat
    /\ s.bytes \in 1 .. PartLen(s.part, s.msg)
Ahead(s, i) == ByteOf(s.part, PartLen(s.part, s.msg) - s.bytes + i, s.msg)

LEMMA PartLengths ==
    ASSUME NEW part \in {"hdr", "body"}, NEW m, m.len \in Nat
    PROVE  PartLen(part, m) \in Nat /\ (part = "hdr" => PartLen(part, m) = HdrLen)
  BY HdrAssumption DEF PartLen

(* The i-th byte from here is sound, and after it the position is the one  *)
(* i bytes further.                                                        *)
LEMMA AheadSound ==
    ASSUME NEW s, Inside(s), NEW i \in 1 .. s.bytes
    PROVE  Sound(Ahead(s, i)) /\ After(Ahead(s, i)) = Advance(s, i)
<1> DEFINE L == PartLen(s.part, s.msg)
           n == L - s.bytes + i
           b == Ahead(s, i)
<1>1. s = [part |-> s.part, bytes |-> s.bytes, msg |-> s.msg] /\ s.part \in {"hdr", "body"}
      /\ s.msg.len \in Nat /\ L \in Nat /\ s.bytes \in 1 .. L
  BY DEF Inside
<1>2. n \in 1 .. L /\ i \in Nat /\ i > 0 /\ s.bytes \in Nat
  BY <1>1
<1>3. b = [part |-> s.part, n |-> n, msg |-> s.msg]
  BY DEF Ahead, ByteOf
<1>4. b.part = s.part /\ b.n = n /\ b.msg = s.msg
  BY <1>3
<1>5. Sound(b)
  BY <1>1, <1>2, <1>3, <1>4 DEF Sound, ByteOf
<1> DEFINE p == [Position(b.part, b.msg) EXCEPT !.bytes = @ - b.n + 1]
<1> HIDE DEF b
<1>6. p = [part |-> s.part, bytes |-> L - n + 1, msg |-> s.msg]
  BY <1>4 DEF Position
<1>7. L - n + 1 = s.bytes - i + 1 /\ s.bytes - i + 1 \in Nat
  BY <1>1, <1>2
<1> HIDE DEF n, L
<1>8. p.part = s.part /\ p.bytes = s.bytes - i + 1 /\ p.msg = s.msg
      /\ p = [part |-> s.part, bytes |-> s.bytes - i + 1, msg |-> s.msg]
  BY <1>6, <1>7
<1>9. After(b) = Advance(p, 1)
  BY DEF After
<1> HIDE DEF p
<1>10. Advance(p, 1) = Advance(s, i)
  <2>1. CASE i < s.bytes
    <3>1. Advance(p, 1) = [p EXCEPT !.bytes = @ - 1]
      BY <1>2, <1>8, <2>1 DEF Advance
    <3>2. Advance(s, i) = [s EXCEPT !.bytes = @ - i]
      BY <1>2, <2>1 DEF Advance
    <3>3. p.bytes - 1 = s.bytes - i
      BY <1>2, <1>8
    <3>4. [p EXCEPT !.bytes = @ - 1] = [part |-> s.part, bytes |-> p.bytes - 1, msg |-> s.msg]
      BY <1>8
    <3>5. [s EXCEPT !.bytes = @ - i] = [part |-> s.part, bytes |-> s.bytes - i, msg |-> s.msg]
      BY <1>1
    <3> QED
      BY <3>1, <3>2, <3>3, <3>4, <3>5
  <2>2. CASE i = s.bytes
    <3>1. ~(p.bytes > 1) /\ ~(s.bytes > i)
      BY <1>2, <1>8, <2>2
    <3> QED
      BY <1>8, <3>1 DEF Advance
  <2> QED
    BY <1>2, <2>1, <2>2
<1> QED
  BY <1>5, <1>9, <1>10 DEF b

(* The byte that follows it.                                               *)
LEMMA AheadNext ==
    ASSUME NEW s, Inside(s), NEW i \in 1 .. s.bytes - 1, NEW b
    PROVE  Continues(b, Advance(s, i)) <=> b = Ahead(s, i + 1)
<1> DEFINE L == PartLen(s.part, s.msg)
           t == Advance(s, i)
<1>1. s = [part |-> s.part, bytes |-> s.bytes, msg |-> s.msg] /\ s.part \in {"hdr", "body"}
      /\ s.msg.len \in Nat /\ L \in Nat /\ s.bytes \in 1 .. L
  BY DEF Inside
<1>2. i \in Nat /\ i > 0 /\ s.bytes \in Nat /\ s.bytes > i
  BY <1>1
<1>3. t = [s EXCEPT !.bytes = @ - i]
  BY <1>2 DEF Advance
<1>4. t = [part |-> s.part, bytes |-> s.bytes - i, msg |-> s.msg]
  BY <1>1, <1>3
<1>5. t.part = s.part /\ t.bytes = s.bytes - i /\ t.msg = s.msg
  BY <1>4
<1> HIDE DEF t
<1>6. ~AtStart(t)
  <2>1. s.part = "hdr" => L = HdrLen
    BY <1>1, PartLengths
  <2>2. t.bytes < L
    BY <1>1, <1>2, <1>5
  <2> QED
    BY <1>1, <1>5, <2>1, <2>2 DEF AtStart
<1>7. NextByte(t) = L - s.bytes + (i + 1)
  BY <1>1, <1>2, <1>5 DEF NextByte
<1>8. Continues(b, t) <=> b = ByteOf(s.part, L - s.bytes + (i + 1), s.msg)
  BY <1>5, <1>6, <1>7, Continuing
<1> QED
  BY <1>8 DEF Ahead, t

-----------------------------------------------------------------------------
(* n bytes further within a part.                                          *)
LEMMA Further ==
    ASSUME NEW s, Within(s), s.part # "idle", NEW n \in Nat, n <= s.bytes
    PROVE  /\ Within(Moved(s, n)) /\ Within(Advance(s, n))
           /\ Settled(Moved(s, n)) = Advance(s, n)
           /\ Settled(Advance(s, n)) = Advance(s, n)
<1> DEFINE L == PartLen(s.part, s.msg)
           o == Moved(s, n)
           a == Advance(s, n)
           body == Position("body", s.msg)
<1>1. s # Idle
  BY DEF Idle
<1>2. s = [part |-> s.part, bytes |-> s.bytes, msg |-> s.msg] /\ s.part \in {"hdr", "body"}
      /\ s.msg.len \in Nat /\ s.bytes \in 0 .. L
  BY <1>1 DEF Within
<1>3. L \in Nat /\ s.bytes \in Nat
  BY <1>2, PartLengths
<1>4. o = [part |-> s.part, bytes |-> s.bytes - n, msg |-> s.msg]
  BY <1>2 DEF Moved
<1>5. o.part = s.part /\ o.bytes = s.bytes - n /\ o.msg = s.msg
      /\ o = [part |-> o.part, bytes |-> o.bytes, msg |-> o.msg]
  BY <1>4
<1>6. o.bytes \in 0 .. L
  BY <1>2, <1>3, <1>5
<1>7. Within(o)
  BY <1>2, <1>5, <1>6 DEF Within
<1>8. body.part = "body" /\ body.bytes = s.msg.len /\ body.msg = s.msg
      /\ body = [part |-> body.part, bytes |-> body.bytes, msg |-> body.msg]
  BY DEF Position, PartLen
<1>9. PartLen(body.part, body.msg) = s.msg.len
  BY <1>8 DEF PartLen
<1> HIDE DEF L, o, a, body
<1>10. Within(body)
  BY <1>2, <1>8, <1>9 DEF Within
<1>11. Idle.bytes = 0 /\ Idle.part = "idle" /\ Within(Idle)
  BY DEF Idle, Within
<1>12. CASE s.bytes > n
  <2>1. a = o
    BY <1>12 DEF a, o, Advance, Moved
  <2>2. o.bytes > 0
    BY <1>3, <1>5, <1>12
  <2> QED
    BY <1>7, <2>1, <2>2 DEF Settled, o, a
<1>13. CASE s.bytes = n
  <2>1. o.bytes = 0
    BY <1>3, <1>5, <1>13
  <2>2. Advance(o, 0) = IF s.part = "hdr" /\ s.msg.len > 0 THEN body ELSE Idle
    BY <1>5, <2>1 DEF Advance, body
  <2>3. a = IF s.part = "hdr" /\ s.msg.len > 0 THEN body ELSE Idle
    BY <1>3, <1>13 DEF a, Advance, body
  <2>4. Settled(o) = Advance(o, 0)
    BY <2>1 DEF Settled
  <2>5. Within(a)
    BY <1>10, <1>11, <2>3
  <2>6. Settled(a) = a
    <3>1. CASE s.part = "hdr" /\ s.msg.len > 0
      BY <1>8, <2>3, <3>1 DEF Settled
    <3>2. CASE ~(s.part = "hdr" /\ s.msg.len > 0)
      <4>1. a = Idle
        BY <2>3, <3>2
      <4>2. Advance(Idle, 0) = Idle
        BY <1>11 DEF Advance
      <4> QED
        BY <1>11, <4>1, <4>2 DEF Settled
    <3> QED
      BY <3>1, <3>2
  <2> QED
    BY <1>7, <2>2, <2>3, <2>4, <2>5, <2>6 DEF a, o
<1> QED
  BY <1>3, <1>12, <1>13

LEMMA InsidePart ==
    ASSUME NEW s, Within(s), s.part # "idle", s.bytes > 0
    PROVE  Inside(s) /\ s.bytes \in Nat /\ Settled(s) = s
<1>1. s # Idle
  BY DEF Idle
<1>2. s = [part |-> s.part, bytes |-> s.bytes, msg |-> s.msg] /\ s.part \in {"hdr", "body"}
      /\ s.msg.len \in Nat /\ s.bytes \in 0 .. PartLen(s.part, s.msg)
  BY <1>1 DEF Within
<1>3. PartLen(s.part, s.msg) \in Nat
  BY <1>2, PartLengths
<1> QED
  BY <1>2, <1>3 DEF Inside, Settled

(* A writer whose next byte continues what lies in the pipe goes on with   *)
(* its part.                                                               *)
LEMMA WriteOn ==
    ASSUME NEW pipe, NEW more, NEW s, NEW w, NEW n \in Nat,
           Lined(pipe, s, w), w.part # "idle", n <= w.bytes,
           Len(pipe) \in Nat, Len(more) = Len(pipe) + n,
           \A i \in 1 .. Len(pipe) : more[i] = pipe[i],
           \A i \in 1 .. n : more[Len(pipe) + i] = Ahead(w, i)
    PROVE  Lined(more, s, Moved(w, n)) /\ Lined(more, s, Advance(w, n))
<1> DEFINE l == Len(pipe)
           q == Settled(s)
<1>1. /\ Within(Moved(w, n)) /\ Within(Advance(w, n)) /\ Within(s) /\ Within(w)
      /\ Settled(Moved(w, n)) = Advance(w, n) /\ Settled(Advance(w, n)) = Advance(w, n)
  BY Further DEF Lined
<1>2. Lined(more, s, Moved(w, n))
  <2>1. CASE n = 0
    <3>1. Moved(w, n) = w
      <4>1. w # Idle
        BY DEF Idle
      <4>2. w = [part |-> w.part, bytes |-> w.bytes, msg |-> w.msg] /\ w.bytes \in Nat
        BY <1>1, <4>1, PartLengths DEF Within
      <4>3. w.bytes - n = w.bytes
        BY <2>1, <4>2
      <4> QED
        BY <4>2, <4>3 DEF Moved
    <3>2. Len(more) = Len(pipe) /\ \A i \in 1 .. Len(pipe) : more[i] = pipe[i]
      BY <2>1
    <3>3. \A i \in 2 .. Len(pipe) : i \in 1 .. Len(pipe) /\ i - 1 \in 1 .. Len(pipe)
      OBVIOUS
    <3>4. Len(pipe) > 0 => 1 \in 1 .. Len(pipe) /\ Len(pipe) \in 1 .. Len(pipe)
      OBVIOUS
    <3> QED
      BY <3>1, <3>2, <3>3, <3>4 DEF Lined
  <2>2. CASE n > 0
    <3>1. Inside(w) /\ Settled(w) = w /\ w.bytes \in Nat
      <4>1. w # Idle
        BY DEF Idle
      <4>2. w.bytes \in Nat
        BY <1>1, <4>1, PartLengths DEF Within
      <4>3. w.bytes > 0
        BY <2>2, <4>2
      <4> QED
        BY <1>1, <4>2, <4>3, InsidePart
    <3>2. \A i \in 1 .. n : Sound(Ahead(w, i)) /\ After(Ahead(w, i)) = Advance(w, i)
      <4>1. \A i \in 1 .. n : i \in 1 .. w.bytes
        BY <3>1
      <4> QED
        BY <3>1, <4>1, AheadSound
    <3>3. \A i \in 1 .. Len(more) : Sound(more[i])
      <4> SUFFICES ASSUME NEW i \in 1 .. Len(more) PROVE Sound(more[i])
        OBVIOUS
      <4>1. CASE i <= l
        <5>1. i \in 1 .. l
          BY <4>1
        <5> QED
          BY <5>1 DEF Lined
      <4>2. CASE i > l
        <5> DEFINE k == i - l
        <5>1. k \in 1 .. n /\ i = l + k
          BY <4>2
        <5> HIDE DEF k
        <5> QED
          BY <5>1, <3>2
      <4> QED
        BY <4>1, <4>2
    <3>4. more[l + n] = Ahead(w, n) /\ After(more[l + n]) = Advance(w, n)
      <4>1. n \in 1 .. n
        BY <2>2
      <4> QED
        BY <4>1, <3>2
    <3>5. Ahead(w, 1).part = w.part /\ Ahead(w, 1).msg = w.msg
          /\ Continues(Ahead(w, 1), w)
      <4>1. Ahead(w, 1) = ByteOf(w.part, NextByte(w), w.msg)
        BY DEF Ahead, NextByte
      <4>2. Ahead(w, 1).part = w.part /\ Ahead(w, 1).n = NextByte(w) /\ Ahead(w, 1).msg = w.msg
        BY <4>1 DEF ByteOf
      <4>3. AtStart(w) => w.part = "hdr" /\ NextByte(w) = 1
        <5>1. AtStart(w) => w.part = "hdr" /\ w.bytes = HdrLen
          BY DEF AtStart
        <5>2. w.part = "hdr" => PartLen(w.part, w.msg) = HdrLen
          BY DEF PartLen
        <5> QED
          BY <3>1, <5>1, <5>2 DEF NextByte
      <4> QED
        BY <4>1, <4>2, <4>3, Continuing
    <3>6. \A t : Agree(t, w) => Continues(Ahead(w, 1), t)
      BY <3>5, Agreement, AgreeingContinue
    <3>7. Continues(more[1], q)
      <4>1. CASE l = 0
        <5>1. more[1] = Ahead(w, 1)
          <6>1. 1 \in 1 .. n /\ l + 1 = 1
            BY <2>2, <4>1
          <6> QED
            BY <6>1
        <5>2. Agree(q, w)
          BY <3>1, <4>1 DEF Lined
        <5> QED
          BY <3>6, <5>1, <5>2
      <4>2. CASE l > 0
        <5>1. 1 \in 1 .. l
          BY <4>2
        <5> QED
          BY <4>2, <5>1 DEF Lined
      <4> QED
        BY <4>1, <4>2
    <3>8. ASSUME NEW i \in 2 .. Len(more) PROVE Continues(more[i], After(more[i - 1]))
      <4>1. CASE i <= l
        <5>1. i \in 1 .. l /\ i - 1 \in 1 .. l /\ i \in 2 .. l
          BY <4>1
        <5> QED
          BY <5>1 DEF Lined
      <4>2. CASE i = l + 1
        <5>1. more[i] = Ahead(w, 1)
          <6>1. 1 \in 1 .. n
            BY <2>2
          <6> QED
            BY <4>2, <6>1
        <5>2. l > 0 /\ i - 1 = l /\ l \in 1 .. l
          BY <4>2
        <5>3. more[i - 1] = pipe[l]
          BY <5>2
        <5>4. Agree(After(pipe[l]), w)
          BY <3>1, <5>2 DEF Lined
        <5> QED
          BY <3>6, <5>1, <5>3, <5>4
      <4>3. CASE i > l + 1
        <5> DEFINE k == i - l - 1
        <5>1. k \in 1 .. n /\ k + 1 \in 1 .. n /\ i = l + (k + 1) /\ i - 1 = l + k
              /\ k \in 1 .. w.bytes - 1
          BY <3>1, <4>3
        <5> HIDE DEF k
        <5>2. more[i] = Ahead(w, k + 1)
          BY <5>1
        <5>3. more[i - 1] = Ahead(w, k)
          BY <5>1
        <5>4. After(more[i - 1]) = Advance(w, k)
          BY <3>2, <5>1, <5>3
        <5> QED
          BY <3>1, <5>1, <5>2, <5>4, AheadNext
      <4> QED
        BY <4>1, <4>2, <4>3
    <3>9. Agree(After(more[Len(more)]), Settled(Moved(w, n)))
      BY <1>1, <3>4 DEF Agree
    <3>10. Len(more) \in Nat /\ Len(more) > 0
      BY <2>2
    <3> QED
      BY <1>1, <3>3, <3>7, <3>8, <3>9, <3>10 DEF Lined
  <2> QED
    BY <2>1, <2>2
<1>3. Lined(more, s, Advance(w, n))
  <2>1. Agree(Settled(Moved(w, n)), Settled(Advance(w, n)))
    BY <1>1 DEF Agree
  <2> QED
    BY <1>1, <1>2, <2>1, WriterAgrees
<1> QED
  BY <1>2, <1>3

(* What lies in the pipe of the reader's part are that part's bytes.       *)
LEMMA PartAhead ==
    ASSUME NEW pipe, NEW q, Inside(q), Len(pipe) \in Nat, Len(pipe) > 0,
           pipe[1] = Ahead(q, 1),
           \A i \in 2 .. Len(pipe) : Continues(pipe[i], After(pipe[i - 1]))
    PROVE  \A i \in 1 .. Len(pipe) : i <= q.bytes => pipe[i] = Ahead(q, i)
<1> DEFINE S == {k \in Nat : k + 1 <= Len(pipe) /\ k + 1 <= q.bytes
                                => pipe[k + 1] = Ahead(q, k + 1)}
<1>b. q.bytes \in Nat /\ q.bytes > 0
  BY DEF Inside
<1>1. 0 \in S
  BY <1>b
<1>2. ASSUME NEW k \in Nat, k \in S PROVE k + 1 \in S
  <2> DEFINE m == k + 1
  <2>1. SUFFICES ASSUME m + 1 <= Len(pipe), m + 1 <= q.bytes
                 PROVE  pipe[m + 1] = Ahead(q, m + 1)
    OBVIOUS
  <2>2. m \in Nat /\ m <= Len(pipe) /\ m <= q.bytes
    BY <1>b, <2>1
  <2>3. pipe[m] = Ahead(q, m)
    BY <1>2, <2>2
  <2>4. m \in 1 .. q.bytes /\ m \in 1 .. q.bytes - 1 /\ m + 1 \in 2 .. Len(pipe) /\ (m + 1) - 1 = m
    BY <1>b, <2>1, <2>2
  <2> HIDE DEF m
  <2>5. After(pipe[m]) = Advance(q, m)
    BY <2>3, <2>4, AheadSound
  <2>6. Continues(pipe[m + 1], Advance(q, m))
    BY <2>4, <2>5
  <2> QED
    BY <2>4, <2>6, AheadNext
<1> HIDE DEF S
<1>3. Nat \subseteq S
  BY <1>1, <1>2, Inductive
<1> USE DEF S
<1>4. ASSUME NEW i \in 1 .. Len(pipe), i <= q.bytes PROVE pipe[i] = Ahead(q, i)
  <2> DEFINE k == i - 1
  <2>1. k \in Nat /\ k + 1 = i
    BY <1>4
  <2> HIDE DEF k
  <2>2. k \in S
    BY <1>3, <2>1
  <2> QED
    BY <1>4, <2>1, <2>2
<1> QED
  BY <1>4

(* The reader's first byte tells it where it is.                           *)
LEMMA Met ==
    ASSUME NEW s, Within(s), NEW b, Sound(b), s.part # "idle" => s.bytes > 0,
           Continues(b, Settled(s))
    PROVE  /\ Inside(Meeting(s, b)) /\ Within(Meeting(s, b))
           /\ Meeting(s, b).part # "idle" /\ b = Ahead(Meeting(s, b), 1)
<1> DEFINE q == Meeting(s, b)
<1>1. Settled(s) = s
  <2>1. CASE s = Idle
    BY <2>1 DEF Settled, Idle, Advance
  <2>2. CASE s # Idle
    BY <2>2 DEF Within, Settled
  <2> QED
    BY <2>1, <2>2
<1>2. b.part \in {"hdr", "body"} /\ b.msg.len \in Nat /\ b = ByteOf(b.part, b.n, b.msg)
  BY DEF Sound
<1>3. CASE AtStart(s)
  <2>1. b.part = "hdr" /\ b.n = 1
    BY <1>1, <1>3, Continuing
  <2>2. q = [part |-> "hdr", bytes |-> HdrLen, msg |-> b.msg]
    BY <1>3 DEF Meeting, Position, PartLen
  <2>3. q.part = "hdr" /\ q.bytes = HdrLen /\ q.msg = b.msg
    BY <2>2
  <2> HIDE DEF q
  <2>4. PartLen(q.part, q.msg) = HdrLen
    BY <2>3 DEF PartLen
  <2>5. Inside(q) /\ Within(q)
    BY <1>2, <2>2, <2>3, <2>4, HdrAssumption DEF Inside, Within
  <2>6. Ahead(q, 1) = ByteOf("hdr", HdrLen - HdrLen + 1, b.msg)
    BY <2>3, <2>4 DEF Ahead
  <2>7. HdrLen - HdrLen + 1 = 1
    BY HdrAssumption
  <2> QED
    BY <1>2, <2>1, <2>3, <2>5, <2>6, <2>7 DEF q
<1>4. CASE ~AtStart(s)
  <2>1. q = s /\ s.part # "idle"
    BY <1>4 DEF Meeting, AtStart
  <2>2. b = ByteOf(s.part, NextByte(s), s.msg)
    BY <1>1, <1>4, Continuing
  <2>3. Inside(s)
    BY <2>1, InsidePart
  <2> QED
    BY <2>1, <2>2, <2>3 DEF Ahead, NextByte
<1> QED
  BY <1>3, <1>4

(* The last of n bytes of the reader's part takes it n bytes further.      *)
LEMMA ReadTo ==
    ASSUME NEW pipe, NEW s, NEW w, NEW n \in Nat, n > 0,
           Lined(pipe, s, w), s.part # "idle" => s.bytes > 0,
           Len(pipe) \in Nat, n <= Len(pipe), n <= Meeting(s, pipe[1]).bytes
    PROVE  /\ Within(Moved(Meeting(s, pipe[1]), n)) /\ Within(Advance(Meeting(s, pipe[1]), n))
           /\ After(pipe[n]) = Advance(Meeting(s, pipe[1]), n)
           /\ Settled(Moved(Meeting(s, pipe[1]), n)) = Advance(Meeting(s, pipe[1]), n)
           /\ Settled(Advance(Meeting(s, pipe[1]), n)) = Advance(Meeting(s, pipe[1]), n)
<1> DEFINE q == Meeting(s, pipe[1])
           l == Len(pipe)
           o == Moved(q, n)
           a == Advance(q, n)
<1>0. 1 \in 1 .. l /\ n \in 1 .. l /\ l > 0
  OBVIOUS
<1>1. Inside(q) /\ Within(q) /\ q.part # "idle" /\ pipe[1] = Ahead(q, 1)
  BY <1>0, Met DEF Lined
<1> HIDE DEF q
<1>2. n <= q.bytes /\ q.bytes \in Nat
  BY <1>1 DEF q, Inside
<1>3. Within(o) /\ Within(a) /\ Settled(o) = a /\ Settled(a) = a
  BY <1>1, <1>2, Further
<1>4. pipe[n] = Ahead(q, n)
  <2>1. \A i \in 2 .. l : Continues(pipe[i], After(pipe[i - 1]))
    BY DEF Lined
  <2>2. \A i \in 1 .. l : i <= q.bytes => pipe[i] = Ahead(q, i)
    BY <1>0, <1>1, <2>1, PartAhead
  <2> QED
    BY <1>0, <1>2, <2>2
<1>5. After(pipe[n]) = a
  <2>1. n \in 1 .. q.bytes
    BY <1>0, <1>2
  <2> QED
    BY <1>1, <1>4, <2>1, AheadSound
<1> QED
  BY <1>3, <1>5 DEF q

(* A reader that takes bytes of its part from the pipe stays lined up with *)
(* the writer.                                                             *)
LEMMA ReadOn ==
    ASSUME NEW pipe, NEW rest, NEW s, NEW w, NEW n \in Nat, n > 0,
           Lined(pipe, s, w), s.part # "idle" => s.bytes > 0,
           Len(pipe) \in Nat, n <= Len(pipe), n <= Meeting(s, pipe[1]).bytes,
           Len(rest) = Len(pipe) - n,
           \A i \in 1 .. Len(rest) : rest[i] = pipe[n + i]
    PROVE  /\ Lined(rest, Moved(Meeting(s, pipe[1]), n), w)
           /\ Lined(rest, Advance(Meeting(s, pipe[1]), n), w)
<1> DEFINE q == Meeting(s, pipe[1])
           l == Len(pipe)
           o == Moved(q, n)
           a == Advance(q, n)
<1>0. n \in 1 .. l /\ l > 0
  OBVIOUS
<1>1. Within(o) /\ Within(a) /\ Settled(o) = a /\ Settled(a) = a /\ After(pipe[n]) = a
  BY ReadTo
<1> HIDE DEF q
<1> HIDE DEF o, a
<1>2. \A i \in 1 .. Len(rest) : Sound(rest[i])
  <2>1. \A i \in 1 .. Len(rest) : n + i \in 1 .. l
    OBVIOUS
  <2> QED
    BY <2>1 DEF Lined
<1>3. Len(rest) = 0 => Agree(a, Settled(w))
  <2>1. Len(rest) = 0 => l = n
    OBVIOUS
  <2> QED
    BY <1>0, <1>1, <2>1 DEF Lined
<1>4. Len(rest) > 0 => /\ Continues(rest[1], a)
                       /\ Agree(After(rest[Len(rest)]), Settled(w))
  <2>1. SUFFICES ASSUME Len(rest) > 0
                 PROVE  /\ Continues(rest[1], a)
                        /\ Agree(After(rest[Len(rest)]), Settled(w))
    OBVIOUS
  <2>2. /\ 1 \in 1 .. Len(rest) /\ Len(rest) \in 1 .. Len(rest) /\ n + Len(rest) = l
        /\ n + 1 \in 2 .. l /\ (n + 1) - 1 = n
    BY <2>1
  <2>3. Continues(pipe[n + 1], After(pipe[n]))
    BY <2>2 DEF Lined
  <2>4. rest[1] = pipe[n + 1] /\ rest[Len(rest)] = pipe[l]
    BY <2>2
  <2> QED
    BY <1>0, <1>1, <2>3, <2>4 DEF Lined
<1>5. ASSUME NEW i \in 2 .. Len(rest) PROVE Continues(rest[i], After(rest[i - 1]))
  <2>1. i \in 1 .. Len(rest) /\ i - 1 \in 1 .. Len(rest) /\ n + i \in 2 .. l
        /\ (n + i) - 1 = n + (i - 1)
    OBVIOUS
  <2>2. Continues(pipe[n + i], After(pipe[(n + i) - 1]))
    BY <2>1 DEF Lined
  <2>3. rest[i] = pipe[n + i] /\ rest[i - 1] = pipe[n + (i - 1)]
    BY <2>1
  <2> QED
    BY <2>1, <2>2, <2>3
<1>6. Within(w)
  BY DEF Lined
<1> QED
  BY <1>1, <1>2, <1>3, <1>4, <1>5, <1>6 DEF Lined, o, a, q

-----------------------------------------------------------------------------
(* Where one part or message ends and the next one begins.                 *)
LEMMA StartsAgree ==
    ASSUME NEW m, m.len \in Nat
    PROVE  /\ Within(Position("hdr", m)) /\ Position("hdr", m).part = "hdr"
           /\ Position("hdr", m).bytes = HdrLen /\ Position("hdr", m).msg = m
           /\ Settled(Position("hdr", m)) = Position("hdr", m)
           /\ \A s : AtStart(s) => Agree(s, Position("hdr", m))
<1> DEFINE p == Position("hdr", m)
<1>1. p = [part |-> "hdr", bytes |-> HdrLen, msg |-> m]
  BY DEF Position, PartLen
<1>2. p.part = "hdr" /\ p.bytes = HdrLen /\ p.msg = m
  BY <1>1
<1> HIDE DEF p
<1>3. PartLen(p.part, p.msg) = HdrLen
  BY <1>2 DEF PartLen
<1>4. Within(p)
  BY <1>1, <1>2, <1>3, HdrAssumption DEF Within
<1>5. AtStart(p) /\ Settled(p) = p
  BY <1>2, HdrAssumption DEF AtStart, Settled
<1> QED
  BY <1>2, <1>4, <1>5 DEF p, Agree

LEMMA IdleStarts == Within(Idle) /\ Settled(Idle) = Idle /\ AtStart(Idle)
  BY DEF Within, Settled, Advance, Idle, AtStart

LEMMA PartEnds ==
    ASSUME NEW s, Within(s), s.bytes = 0
    PROVE  /\ s.part # "hdr" => Settled(s) = Idle
           /\ s.part = "hdr" => /\ Within(Position("body", s.msg))
                                /\ Settled(Position("body", s.msg)) = Settled(s)
<1>1. ~(s.bytes > 0) /\ ~(s.bytes > 0 + 0)
  OBVIOUS
<1>2. Settled(s) = IF s.part = "hdr" /\ s.msg.len > 0 THEN Position("body", s.msg) ELSE Idle
  BY <1>1 DEF Settled, Advance
<1>3. ASSUME s.part = "hdr"
      PROVE  /\ Within(Position("body", s.msg))
             /\ Settled(Position("body", s.msg)) = Settled(s)
  <2> DEFINE p == Position("body", s.msg)
  <2>1. s # Idle
    BY <1>3 DEF Idle
  <2>2. s.msg.len \in Nat
    BY <2>1 DEF Within
  <2>3. p = [part |-> "body", bytes |-> s.msg.len, msg |-> s.msg]
    BY DEF Position, PartLen
  <2>4. p.part = "body" /\ p.bytes = s.msg.len /\ p.msg = s.msg
    BY <2>3
  <2> HIDE DEF p
  <2>5. PartLen(p.part, p.msg) = s.msg.len
    BY <2>4 DEF PartLen
  <2>6. Within(p)
    BY <2>2, <2>3, <2>4, <2>5 DEF Within
  <2>7. CASE s.msg.len > 0
    <3>1. Settled(p) = p
      BY <2>4, <2>7 DEF Settled
    <3> QED
      BY <1>2, <1>3, <2>6, <2>7, <3>1 DEF p
  <2>8. CASE ~(s.msg.len > 0)
    <3>1. Settled(p) = Idle
      BY <2>2, <2>4, <2>8 DEF Settled, Advance
    <3> QED
      BY <1>2, <2>6, <2>8, <3>1 DEF p
  <2> QED
    BY <2>7, <2>8
<1> QED
  BY <1>2, <1>3

(* Between two idle ends an empty pipe is lined up.                        *)
LEMMA EmptyLined ==
    ASSUME NEW pipe, Len(pipe) = 0, NEW s, NEW w, Within(s), Within(w),
           Agree(Settled(s), Settled(w))
    PROVE  Lined(pipe, s, w)
<1>1. ~(Len(pipe) > 0) /\ 1 .. Len(pipe) = {} /\ 2 .. Len(pipe) = {}
  OBVIOUS
<1> QED
  BY <1>1 DEF Lined
(* A part that ended is followed by what its peer expects.                 *)
LEMMA NextPart ==
    ASSUME NEW s, Within(s), s.bytes = 0, NEW m, m.len \in Nat
    PROVE  /\ s.part = "hdr" => /\ Within(Position("body", s.msg))
                                /\ Agree(Settled(s), Settled(Position("body", s.msg)))
           /\ s.part # "hdr" => /\ Within(Position("hdr", m))
                                /\ Agree(Settled(s), Settled(Position("hdr", m)))
                                /\ Agree(Settled(s), Settled(Idle))
<1>1. Within(Position("hdr", m)) /\ Settled(Position("hdr", m)) = Position("hdr", m)
      /\ Agree(Idle, Position("hdr", m))
  BY StartsAgree, IdleStarts
<1>2. /\ s.part # "hdr" => Settled(s) = Idle
      /\ s.part = "hdr" => /\ Within(Position("body", s.msg))
                           /\ Settled(Position("body", s.msg)) = Settled(s)
  BY PartEnds
<1> QED
  BY <1>1, <1>2, IdleStarts, Agreement

(* A peer's reader is between messages, or in the middle of one.           *)
Amid(s) == s.part # "idle" => s.bytes > 0 /\ ~AtStart(s)

(* A reader that took a byte is in the middle of a message, or done.       *)
LEMMA AdvanceAmid ==
    ASSUME NEW s, Within(s), s.part # "idle", NEW n \in Nat, n > 0, n <= s.bytes
    PROVE  Amid(Advance(s, n))
<1> DEFINE a == Advance(s, n)
<1>1. s # Idle
  BY DEF Idle
<1>2. s = [part |-> s.part, bytes |-> s.bytes, msg |-> s.msg] /\ s.part \in {"hdr", "body"}
      /\ s.msg.len \in Nat /\ s.bytes \in 0 .. PartLen(s.part, s.msg)
      /\ PartLen(s.part, s.msg) \in Nat
  BY <1>1, PartLengths DEF Within
<1>3. CASE s.bytes > n
  <2>1. a = [part |-> s.part, bytes |-> s.bytes - n, msg |-> s.msg]
    BY <1>2, <1>3 DEF Advance
  <2>2. a.part = s.part /\ a.bytes = s.bytes - n
    BY <2>1
  <2> HIDE DEF a
  <2>3. a.bytes > 0 /\ (s.part = "hdr" => a.bytes < HdrLen)
    BY <1>2, <1>3, <2>2, HdrAssumption DEF PartLen
  <2> QED
    BY <2>2, <2>3, HdrAssumption DEF Amid, AtStart, a
<1>4. CASE ~(s.bytes > n)
  <2>1. CASE s.part = "hdr" /\ s.msg.len > 0
    <3>1. a = [part |-> "body", bytes |-> s.msg.len, msg |-> s.msg]
      BY <1>4, <2>1 DEF Advance, Position, PartLen
    <3>2. a.part = "body" /\ a.bytes > 0
      BY <2>1, <3>1
    <3> QED
      BY <3>2 DEF Amid, AtStart
  <2>2. CASE ~(s.part = "hdr" /\ s.msg.len > 0)
    <3>1. a = Idle
      BY <1>4, <2>2 DEF Advance
    <3> QED
      BY <3>1 DEF Amid, Idle
  <2> QED
    BY <2>1, <2>2
<1> QED
  BY <1>3, <1>4

LEMMA NotIdle ==
    /\ \A m : Position("hdr", m) # Idle /\ Position("body", m) # Idle
    /\ \A s : s.part # "idle" => s # Idle
    /\ \A s : s.part # "idle" /\ s.bytes > 0 => Settled(s) # Idle
<1>1. \A m : Position("hdr", m).part = "hdr" /\ Position("body", m).part = "body"
  BY DEF Position
<1>2. Idle.part = "idle"
  BY DEF Idle
<1>3. \A s : s.bytes > 0 => Settled(s) = s
  BY DEF Settled
<1> QED
  BY <1>1, <1>2, <1>3

-----------------------------------------------------------------------------
(* No message ends in the pipe, nor before its reader, but the last one    *)
(* that the writer has to send.                                            *)
Lone(pipe, s, done) ==
    /\ \A i \in 1 .. Len(pipe) : After(pipe[i]) = Idle => i = Len(pipe) /\ done
    /\ ~AtStart(s) /\ Settled(s) = Idle => Len(pipe) = 0 /\ done

LEMMA LoneReads ==
    ASSUME NEW pipe, NEW rest, NEW s, NEW w, NEW n \in Nat, n > 0, NEW done, NEW q,
           Lined(pipe, s, w), s.part # "idle" => s.bytes > 0, Lone(pipe, s, done),
           Len(pipe) \in Nat, n <= Len(pipe), q = Meeting(s, pipe[1]), n <= q.bytes,
           Len(rest) = Len(pipe) - n,
           \A i \in 1 .. Len(rest) : rest[i] = pipe[n + i]
    PROVE  /\ Lone(rest, Moved(q, n), done) /\ Lone(rest, Advance(q, n), done)
           /\ Advance(q, n) = Idle => Len(rest) = 0 /\ done
<1> DEFINE o == Moved(q, n)
           a == Advance(q, n)
<1>1. After(pipe[n]) = a /\ Settled(o) = a /\ Settled(a) = a
  BY ReadTo
<1> HIDE DEF o, a
<1>2. a = Idle => Len(rest) = 0 /\ done
  <2>1. n \in 1 .. Len(pipe)
    OBVIOUS
  <2>2. a = Idle => n = Len(pipe) /\ done
    BY <1>1, <2>1 DEF Lone
  <2> QED
    BY <2>2
<1>3. ASSUME NEW i \in 1 .. Len(rest), After(rest[i]) = Idle
      PROVE  i = Len(rest) /\ done
  <2>1. n + i \in 1 .. Len(pipe) /\ rest[i] = pipe[n + i]
    OBVIOUS
  <2>2. n + i = Len(pipe) /\ done
    BY <1>3, <2>1 DEF Lone
  <2> QED
    BY <2>2
<1> QED
  BY <1>1, <1>2, <1>3 DEF Lone, o, a

LEMMA LoneWrites ==
    ASSUME NEW pipe, NEW more, NEW s, NEW w, NEW n \in Nat, NEW done,
           Within(w), w.part # "idle", n <= w.bytes,
           Lone(pipe, s, FALSE), Advance(w, n) = Idle => done,
           Len(pipe) \in Nat, Len(more) = Len(pipe) + n,
           \A i \in 1 .. Len(pipe) : more[i] = pipe[i],
           \A i \in 1 .. n : more[Len(pipe) + i] = Ahead(w, i)
    PROVE  Lone(more, s, done)
<1> SUFFICES ASSUME NEW i \in 1 .. Len(more), After(more[i]) = Idle
             PROVE  i = Len(more) /\ done
  BY DEF Lone
<1>1. ~(i \in 1 .. Len(pipe))
  BY DEF Lone
<1> DEFINE k == i - Len(pipe)
<1>2. k \in 1 .. n /\ i = Len(pipe) + k /\ n > 0
  BY <1>1
<1> HIDE DEF k
<1>3. more[i] = Ahead(w, k)
  BY <1>2
<1>4. Inside(w) /\ w.bytes \in Nat /\ k \in 1 .. w.bytes
  <2>1. w # Idle
    BY DEF Idle
  <2>2. w.bytes \in Nat
    BY <2>1, PartLengths DEF Within
  <2>3. w.bytes > 0
    BY <1>2, <2>2
  <2>4. Inside(w)
    BY <2>3, InsidePart
  <2> QED
    BY <1>2, <2>2, <2>4
<1>5. Advance(w, k) = Idle
  BY <1>3, <1>4, AheadSound
<1>6. ~(w.bytes > k)
  <2>1. w.bytes > k => Advance(w, k) = [w EXCEPT !.bytes = @ - k]
    BY DEF Advance
  <2>2. w.part \in {"hdr", "body"} /\ w = [part |-> w.part, bytes |-> w.bytes, msg |-> w.msg]
    BY <1>4 DEF Inside
  <2>3. [w EXCEPT !.bytes = @ - k].part = w.part
    BY <2>2
  <2> QED
    BY <1>5, <2>1, <2>2, <2>3 DEF Idle
<1>7. k = n
  BY <1>2, <1>4, <1>6
<1> QED
  BY <1>2, <1>5, <1>7

LEMMA LoneSame ==
    ASSUME NEW pipe, NEW same, NEW s, NEW done, Lone(pipe, s, done),
           Len(same) = Len(pipe), \A i \in 1 .. Len(pipe) : same[i] = pipe[i]
    PROVE  Lone(same, s, done)
  BY DEF Lone

LEMMA LoneEmpty ==
    ASSUME NEW pipe, Len(pipe) = 0, NEW s, AtStart(s), NEW done
    PROVE  Lone(pipe, s, done)
<1>1. 1 .. Len(pipe) = {}
  OBVIOUS
<1> QED
  BY <1>1 DEF Lone

=============================================================================
