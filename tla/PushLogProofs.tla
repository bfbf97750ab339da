---------------------------- MODULE PushLogProofs ----------------------------
(***************************************************************************)
(* What the push log (PushLog) keeps, for any number of callers, frames,   *)
(* restarts and crashes and every capacity: a deleted session's frames do  *)
(* not come back, a ring is what its tail holds, no number is given twice  *)
(* but one lost in a crash, and the log implements PushStream.             *)
(***************************************************************************)
EXTENDS PushLog, SequenceTheorems, TLAPS

----------------------------------------------------------------------------
(* Sequences *)

\* The last n elements of a sequence.
LEMMA LastNElements ==
    ASSUME NEW S, NEW s \in Seq(S), NEW n \in Nat
    PROVE  /\ LastN(n, s) \in Seq(S)
           /\ Len(LastN(n, s)) = IF Len(s) > n THEN n ELSE Len(s)
           /\ \A i \in 1..Len(LastN(n, s)) :
                LastN(n, s)[i] = s[Len(s) - Len(LastN(n, s)) + i]
<1> DEFINE lo == IF Len(s) > n THEN Len(s) - n + 1 ELSE 1
<1>1. Len(s) \in Nat /\ lo \in 1..Len(s) + 1
  OBVIOUS
<1>2. /\ SubSeq(s, lo, Len(s)) \in Seq(S)
      /\ Len(SubSeq(s, lo, Len(s))) = Len(s) - lo + 1
      /\ \A i \in 1..Len(s) - lo + 1 : SubSeq(s, lo, Len(s))[i] = s[lo + i - 1]
  <2> HIDE DEF lo
  <2>1. CASE lo <= Len(s)
    BY <1>1, <2>1, SubSeqProperties
  <2>2. CASE lo = Len(s) + 1
    <3>1. SubSeq(s, lo, Len(s)) = <<>>
      BY <1>1, <2>2, SubSeqProperties
    <3> QED
      BY <3>1, <1>1, <2>2
  <2> QED
    BY <1>1, <2>1, <2>2
<1>3. LastN(n, s) = SubSeq(s, lo, Len(s))
  BY DEF LastN
<1>4. Len(s) - lo + 1 = IF Len(s) > n THEN n ELSE Len(s)
  BY <1>1
<1>5. \A i \in Nat : Len(s) - (Len(s) - lo + 1) + i = lo + i - 1
  BY <1>1
<1> DEFINE last == LastN(n, s)
<1>6. /\ last \in Seq(S) /\ Len(last) = Len(s) - lo + 1
      /\ \A i \in 1..Len(last) : last[i] = s[lo + i - 1]
  BY <1>2, <1>3
<1> HIDE DEF lo, last
<1>7. \A i \in 1..Len(last) : last[i] = s[Len(s) - Len(last) + i]
  BY <1>1, <1>5, <1>6
<1> QED
  BY <1>4, <1>6, <1>7 DEF last

\* What follows the last k elements of a sequence decides, with them, the last
\* c <= k of the whole: a compaction is not seen by a loadTail().
LEMMA LastNOfCompacted ==
    ASSUME NEW S, NEW a \in Seq(S), NEW b \in Seq(S), NEW c \in Nat, NEW k \in Nat, c <= k
    PROVE  LastN(c, LastN(k, a) \o b) = LastN(c, a \o b)
<1> DEFINE t == LastN(k, a)
<1>1. /\ t \in Seq(S) /\ Len(t) = IF Len(a) > k THEN k ELSE Len(a)
      /\ \A i \in 1..Len(t) : t[i] = a[Len(a) - Len(t) + i]
  BY LastNElements
<1> HIDE DEF t
<1> DEFINE x == a \o b  y == t \o b
<1>2. /\ x \in Seq(S) /\ Len(x) = Len(a) + Len(b)
      /\ \A i \in 1..Len(a) + Len(b) : x[i] = IF i <= Len(a) THEN a[i] ELSE b[i - Len(a)]
  BY ConcatProperties
<1>3. /\ y \in Seq(S) /\ Len(y) = Len(t) + Len(b)
      /\ \A i \in 1..Len(t) + Len(b) : y[i] = IF i <= Len(t) THEN t[i] ELSE b[i - Len(t)]
  BY <1>1, ConcatProperties
<1> HIDE DEF x, y
<1> DEFINE u == LastN(c, x)  v == LastN(c, y)
<1>4. /\ u \in Seq(S) /\ Len(u) = IF Len(x) > c THEN c ELSE Len(x)
      /\ \A i \in 1..Len(u) : u[i] = x[Len(x) - Len(u) + i]
  BY <1>2, LastNElements
<1>5. /\ v \in Seq(S) /\ Len(v) = IF Len(y) > c THEN c ELSE Len(y)
      /\ \A i \in 1..Len(v) : v[i] = y[Len(y) - Len(v) + i]
  BY <1>3, LastNElements
<1> HIDE DEF u, v
<1>n. Len(a) \in Nat /\ Len(b) \in Nat /\ Len(t) \in Nat
  BY <1>1
<1>6. Len(u) = Len(v) /\ Len(v) <= Len(y) /\ Len(v) \in Nat
  BY <1>1, <1>2, <1>3, <1>4, <1>5, <1>n
<1>m. /\ Len(x) = Len(a) + Len(b) /\ Len(y) = Len(t) + Len(b) /\ Len(t) <= Len(a)
      /\ Len(v) <= Len(x)
  BY <1>1, <1>2, <1>3, <1>4, <1>6, <1>n
<1>7. ASSUME NEW i \in 1..Len(u) PROVE u[i] = v[i]
  <2> DEFINE j == Len(y) - Len(v) + i  k1 == Len(x) - Len(v) + i
  <2>1. /\ j \in 1..Len(t) + Len(b) /\ k1 \in 1..Len(a) + Len(b)
        /\ k1 = j + (Len(a) - Len(t)) /\ Len(a) - Len(t) \in Nat /\ j \in Nat /\ k1 \in Nat
    BY <1>m, <1>6, <1>n
  <2>2. u[i] = x[k1] /\ v[i] = y[j]
    BY <1>4, <1>5, <1>6
  <2> HIDE DEF j, k1
  <2>3. CASE j <= Len(t)
    <3>0. j \in 1..Len(t)
      BY <1>n, <2>1, <2>3
    <3>1. y[j] = t[j] /\ t[j] = a[Len(a) - Len(t) + j]
      BY <1>1, <1>3, <2>1, <2>3, <3>0
    <3>2. k1 <= Len(a) /\ k1 = Len(a) - Len(t) + j
      BY <1>n, <2>1, <2>3
    <3> QED
      BY <1>2, <2>1, <2>2, <3>1, <3>2
  <2>4. CASE j > Len(t)
    <3>1. y[j] = b[j - Len(t)]
      BY <1>3, <1>n, <2>1, <2>4
    <3>2. ~(k1 <= Len(a)) /\ k1 - Len(a) = j - Len(t)
      BY <1>n, <2>1, <2>4
    <3> QED
      BY <1>2, <2>1, <2>2, <3>1, <3>2
  <2> QED
    BY <2>1, <2>3, <2>4, <1>n
<1>8. u = v
  BY <1>4, <1>5, <1>6, <1>7, SeqEqual
<1> QED
  BY <1>8 DEF u, v, x, y, t

----------------------------------------------------------------------------
(* Types and the chain of file operations *)

Frame == [seq : Nat \ {0}, id : Nat \ {0}]
Ops == {FlushOp, UnlinkOp} \cup {LoadOp(c) : c \in Callers}
DiskState == [exists : BOOLEAN, lines : Seq(Frame), torn : BOOLEAN]

\* Every variable holds a value of its kind.
LogTypeOK ==
    /\ ring \in [nextSeq : Nat \ {0}, events : Seq(Frame)]
    /\ attached \in BOOLEAN /\ tombstone \in BOOLEAN /\ stopping \in BOOLEAN
    /\ pending \in Seq(Frame) /\ writing \in Seq(Frame)
    /\ timer \in BOOLEAN /\ missing \in BOOLEAN
    /\ chain \in Seq(Ops) /\ phase \in {"start", "write", "read", "return"}
    /\ disk \in DiskState
    /\ tails \in [Callers -> Seq(Frame)]
    /\ emitted \in Seq(Frame) /\ cleared \in 0..Len(emitted) /\ crashed \in 0..Len(emitted)
    /\ intact \in BOOLEAN

InChain(q, op) == \E i \in 1..Len(q) : q[i] = op

\* What the head of the chain is, as far as it is: only a flush or a load writes,
\* only a load reads, and a batch is held only while it is written.
HeadRuns ==
    /\ phase # "write" => writing = <<>>
    /\ phase = "write" => chain # <<>> /\ Head(chain) # UnlinkOp
    /\ phase \in {"read", "return"} => chain # <<>> /\ Head(chain) \in {LoadOp(c) : c \in Callers}

\* The kinds of operation are apart.
LEMMA OpKinds ==
    /\ UnlinkOp # FlushOp /\ UnlinkOp.kind = "unlink" /\ FlushOp.kind = "flush"
    /\ \A c \in Callers : /\ LoadOp(c).kind = "load" /\ LoadOp(c).by = c
                          /\ LoadOp(c) # FlushOp /\ LoadOp(c) # UnlinkOp
    /\ \A op \in Ops : op.kind # "unlink" <=> op # UnlinkOp
    /\ \A op \in Ops : op # UnlinkOp /\ op # FlushOp => op \in {LoadOp(c) : c \in Callers}
<1>1. UnlinkOp.kind = "unlink" /\ FlushOp.kind = "flush"
  BY DEF UnlinkOp, FlushOp
<1>2. \A c \in Callers : LoadOp(c).kind = "load" /\ LoadOp(c).by = c
  BY DEF LoadOp
<1>3. \A c \in Callers : LoadOp(c) # FlushOp /\ LoadOp(c) # UnlinkOp
  BY <1>1, <1>2
<1>4. UnlinkOp # FlushOp
  BY <1>1
<1> QED
  BY <1>1, <1>2, <1>3, <1>4 DEF Ops

\* What is queued after an operation was added at the end or the first one left.
LEMMA ChainSteps ==
    ASSUME NEW q \in Seq(Ops)
    PROVE  /\ \A op \in Ops : /\ Append(q, op) \in Seq(Ops) /\ Append(q, op) # <<>>
                              /\ q # <<>> => Head(Append(q, op)) = Head(q)
                              /\ \A o \in Ops : InChain(Append(q, op), o) <=> InChain(q, o) \/ o = op
           /\ q # <<>> => /\ Head(q) \in Ops /\ Tail(q) \in Seq(Ops) /\ InChain(q, Head(q))
                          /\ \A o \in Ops : InChain(q, o) <=> InChain(Tail(q), o) \/ o = Head(q)
<1>1. ASSUME NEW op \in Ops
      PROVE  /\ Append(q, op) \in Seq(Ops) /\ Append(q, op) # <<>>
             /\ q # <<>> => Head(Append(q, op)) = Head(q)
             /\ \A o \in Ops : InChain(Append(q, op), o) <=> InChain(q, o) \/ o = op
  <2>1. /\ Append(q, op) \in Seq(Ops) /\ Len(Append(q, op)) = Len(q) + 1
        /\ \A i \in 1..Len(q) : Append(q, op)[i] = q[i]
        /\ Append(q, op)[Len(q) + 1] = op /\ Len(q) \in Nat
    BY AppendProperties
  <2>2. Append(q, op) # <<>>
    BY <2>1
  <2>h. ASSUME q # <<>> PROVE Head(Append(q, op)) = Head(q)
    <3>1. 1 \in 1..Len(q) /\ Head(q) = q[1]
      BY <2>1, <2>h
    <3>2. Head(Append(q, op)) = Append(q, op)[1]
      BY <2>1, <2>2
    <3> QED
      BY <2>1, <3>1, <3>2
  <2>3. ASSUME NEW o \in Ops, InChain(Append(q, op), o) PROVE InChain(q, o) \/ o = op
    <3>1. PICK i \in 1..Len(q) + 1 : Append(q, op)[i] = o
      BY <2>1, <2>3 DEF InChain
    <3> QED
      BY <2>1, <3>1 DEF InChain
  <2>4. ASSUME NEW o \in Ops, InChain(q, o) \/ o = op PROVE InChain(Append(q, op), o)
    <3>1. CASE o = op
      BY <2>1, <3>1 DEF InChain
    <3>2. CASE InChain(q, o)
      BY <2>1, <3>2 DEF InChain
    <3> QED
      BY <2>4, <3>1, <3>2
  <2> QED
    BY <2>1, <2>2, <2>h, <2>3, <2>4
<1>2. ASSUME q # <<>>
      PROVE  /\ Head(q) \in Ops /\ Tail(q) \in Seq(Ops) /\ InChain(q, Head(q))
             /\ \A o \in Ops : InChain(q, o) <=> InChain(Tail(q), o) \/ o = Head(q)
  <2>1. /\ Head(q) \in Ops /\ Tail(q) \in Seq(Ops) /\ Len(Tail(q)) = Len(q) - 1 /\ Len(q) \in Nat \ {0}
        /\ \A i \in 1..Len(Tail(q)) : Tail(q)[i] = q[i + 1]
        /\ q[1] = Head(q)
    <3>1. /\ Head(q) \in Ops /\ Tail(q) \in Seq(Ops) /\ Len(Tail(q)) = Len(q) - 1
          /\ \A i \in 1..Len(Tail(q)) : Tail(q)[i] = q[i + 1]
      BY <1>2, HeadTailProperties
    <3>2. q[1] = Head(q) /\ Len(q) \in Nat \ {0}
      BY <1>2
    <3> QED
      BY <3>1, <3>2
  <2>2. InChain(q, Head(q))
    BY <2>1 DEF InChain
  <2>3. ASSUME NEW o \in Ops, InChain(q, o) PROVE InChain(Tail(q), o) \/ o = Head(q)
    <3>1. PICK i \in 1..Len(q) : q[i] = o
      BY <2>3 DEF InChain
    <3>2. CASE i = 1
      BY <2>1, <3>1, <3>2
    <3>3. CASE i # 1
      <4>1. i - 1 \in 1..Len(Tail(q)) /\ Tail(q)[i - 1] = q[i]
        BY <2>1, <3>1, <3>3
      <4> QED
        BY <3>1, <4>1 DEF InChain
    <3> QED
      BY <3>2, <3>3
  <2>4. ASSUME NEW o \in Ops, InChain(Tail(q), o) PROVE InChain(q, o)
    <3>1. PICK i \in 1..Len(Tail(q)) : Tail(q)[i] = o
      BY <2>4 DEF InChain
    <3>2. i + 1 \in 1..Len(q) /\ q[i + 1] = o
      BY <2>1, <3>1
    <3> QED
      BY <3>2 DEF InChain
  <2> QED
    BY <2>1, <2>2, <2>3, <2>4
<1> QED
  BY <1>1, <1>2

----------------------------------------------------------------------------
(* A deleted session's frames *)

Above(s, n) == \A i \in 1..Len(s) : s[i].id > n

\* Above is kept by everything that happens to a batch.
LEMMA AboveParts ==
    ASSUME NEW s \in Seq(Frame), NEW n \in Nat, Above(s, n)
    PROVE  /\ \A e \in Frame : e.id > n => Above(Append(s, e), n)
           /\ \A r \in Seq(Frame) : Above(r, n) => Above(s \o r, n)
           /\ \A m \in 0..Len(s) : SubSeq(s, 1, m) \in Seq(Frame) /\ Above(SubSeq(s, 1, m), n)
           /\ \A m \in Nat : LastN(m, s) \in Seq(Frame) /\ Above(LastN(m, s), n)
<1>1. \A e \in Frame : e.id > n => Above(Append(s, e), n)
  BY DEF Above
<1>2. ASSUME NEW r \in Seq(Frame), Above(r, n) PROVE Above(s \o r, n)
  <2>1. /\ Len(s \o r) = Len(s) + Len(r) /\ Len(s) \in Nat /\ Len(r) \in Nat
        /\ \A i \in 1..Len(s) + Len(r) : (s \o r)[i] = IF i <= Len(s) THEN s[i] ELSE r[i - Len(s)]
    BY ConcatProperties
  <2> SUFFICES ASSUME NEW i \in 1..Len(s) + Len(r) PROVE (s \o r)[i].id > n
    BY <2>1 DEF Above
  <2>2. CASE i <= Len(s)
    BY <2>1, <2>2 DEF Above
  <2>3. CASE i > Len(s)
    BY <1>2, <2>1, <2>3 DEF Above
  <2> QED
    BY <2>1, <2>2, <2>3
<1>3. ASSUME NEW m \in 0..Len(s)
      PROVE SubSeq(s, 1, m) \in Seq(Frame) /\ Above(SubSeq(s, 1, m), n)
  <2>1. \A i \in 1..m : s[i] \in Frame
    OBVIOUS
  <2>2. /\ SubSeq(s, 1, m) \in Seq(Frame) /\ Len(SubSeq(s, 1, m)) = m
        /\ \A i \in 1..m : SubSeq(s, 1, m)[i] = s[i]
    OBVIOUS
  <2> QED
    BY <2>2 DEF Above
<1>4. ASSUME NEW m \in Nat PROVE LastN(m, s) \in Seq(Frame) /\ Above(LastN(m, s), n)
  <2> DEFINE t == LastN(m, s)
  <2>1. /\ t \in Seq(Frame) /\ Len(t) = IF Len(s) > m THEN m ELSE Len(s)
        /\ \A i \in 1..Len(t) : t[i] = s[Len(s) - Len(t) + i]
    BY LastNElements
  <2> HIDE DEF t
  <2>2. Len(s) \in Nat /\ \A i \in 1..Len(t) : Len(s) - Len(t) + i \in 1..Len(s)
    BY <2>1
  <2>3. Above(t, n)
    BY <2>1, <2>2 DEF Above
  <2> QED
    BY <2>1, <2>3 DEF t
<1> QED
  BY <1>1, <1>2, <1>3, <1>4

\* Every frame is above no frame at all.
LEMMA FramesAreAbove == \A s \in Seq(Frame) : Above(s, 0)
<1> TAKE s \in Seq(Frame)
<1>1. \A i \in 1..Len(s) : s[i] \in Frame
  OBVIOUS
<1> QED
  BY <1>1 DEF Above, Frame

\* What an interrupted write may leave.
LEMMA PartialWriteCases ==
    ASSUME NEW d \in PartialWrites
    PROVE  \/ d = disk \/ d = Compacted
           \/ \E m \in 0..Len(writing), t \in BOOLEAN :
                d = [exists |-> TRUE, lines |-> disk.lines \o SubSeq(writing, 1, m), torn |-> t]
<1> DEFINE Cut(m, t) ==
             [exists |-> TRUE, lines |-> disk.lines \o SubSeq(writing, 1, m), torn |-> t]
           cutOff == {Cut(m, t) : m \in 0..Len(writing), t \in BOOLEAN}
<1>1. PartialWrites \subseteq {disk, Compacted} \cup cutOff
  <2>1. PartialWrites = {disk, Compacted} \cup IF MustCompact THEN {} ELSE cutOff
    BY DEF PartialWrites
  <2> HIDE DEF cutOff
  <2> QED
    BY <2>1
<1>2. d \in {disk, Compacted} \/ d \in cutOff
  <2> HIDE DEF cutOff
  <2> QED
    BY <1>1
<1>3. d \in cutOff => \E m \in 0..Len(writing), t \in BOOLEAN : d = Cut(m, t)
  <2> HIDE DEF Cut
  <2> QED
    OBVIOUS
<1> HIDE DEF cutOff
<1> QED
  BY <1>2, <1>3

\* What a write may leave in the file is made of the file and the batch.
LEMMA PartialLines ==
    ASSUME LogTypeOK, NEW d \in PartialWrites \cup {Compacted, Appended, NoFile}
    PROVE  /\ d \in DiskState
           /\ \A n \in Nat : Above(disk.lines, n) /\ Above(writing, n) => Above(d.lines, n)
<1> DEFINE Goal(x) ==
             /\ x \in DiskState
             /\ \A n \in Nat : Above(disk.lines, n) /\ Above(writing, n) => Above(x.lines, n)
<1>1. /\ disk \in DiskState /\ disk.lines \in Seq(Frame) /\ writing \in Seq(Frame)
      /\ disk.lines \o writing \in Seq(Frame) /\ Keep \in Nat
  BY SizeAssumption DEF LogTypeOK, DiskState
<1>2. ASSUME d = disk PROVE Goal(d)
  BY <1>1, <1>2
<1>3. ASSUME d = Compacted PROVE Goal(d)
  <2>1. d.lines = LastN(Keep, disk.lines \o writing) /\ d.lines \in Seq(Frame)
    BY <1>1, <1>3, LastNElements DEF Compacted
  <2>2. d \in DiskState
    BY <1>3, <2>1 DEF Compacted, DiskState
  <2> QED
    BY <1>1, <2>1, <2>2, AboveParts
<1>4. ASSUME d = Appended PROVE Goal(d)
  <2>1. d.lines = disk.lines \o writing /\ d \in DiskState
    BY <1>1, <1>4 DEF Appended, DiskState
  <2>2. \A n \in Nat : Above(disk.lines, n) /\ Above(writing, n) => Above(disk.lines \o writing, n)
    BY <1>1, AboveParts
  <2> QED
    BY <2>1, <2>2
<1>5. ASSUME d = NoFile PROVE Goal(d)
  BY <1>5 DEF NoFile, DiskState, Above
<1>6. ASSUME NEW m \in 0..Len(writing), NEW t \in BOOLEAN,
             d = [exists |-> TRUE, lines |-> disk.lines \o SubSeq(writing, 1, m), torn |-> t]
      PROVE  Goal(d)
  <2>1. SubSeq(writing, 1, m) \in Seq(Frame)
    BY <1>1
  <2>2. d.lines = disk.lines \o SubSeq(writing, 1, m) /\ d \in DiskState
    BY <1>1, <1>6, <2>1 DEF DiskState
  <2>3. ASSUME NEW n \in Nat, Above(disk.lines, n), Above(writing, n) PROVE Above(d.lines, n)
    <3>1. Above(SubSeq(writing, 1, m), n)
      BY <1>1, <2>3, AboveParts
    <3> DEFINE r == SubSeq(writing, 1, m)
    <3>2. r \in Seq(Frame) /\ Above(r, n)
      BY <2>1, <3>1
    <3> HIDE DEF r
    <3>3. Above(disk.lines \o r, n)
      BY <1>1, <2>3, <3>2, AboveParts
    <3> QED
      BY <2>2, <3>3 DEF r
  <2> QED
    BY <2>2, <2>3
<1>7. \/ d \in {disk, Compacted, Appended, NoFile}
      \/ \E m \in 0..Len(writing), t \in BOOLEAN :
           d = [exists |-> TRUE, lines |-> disk.lines \o SubSeq(writing, 1, m), torn |-> t]
  BY PartialWriteCases
<1>8. Goal(d)
  <2> HIDE DEF Goal
  <2> QED
    BY <1>2, <1>3, <1>4, <1>5, <1>6, <1>7
<1> QED
  BY <1>8

\* A frame is appended to the ring, the buffer and the history.
LEMMA AppendSteps ==
    ASSUME LogTypeOK, AppendFrame
    PROVE  /\ NextFrame \in Frame /\ NextFrame.id > cleared /\ NextFrame.seq = ring.nextSeq
           /\ ring' \in [nextSeq : Nat \ {0}, events : Seq(Frame)]
           /\ pending' = Append(pending, NextFrame) /\ pending' \in Seq(Frame) /\ timer' = TRUE
           /\ emitted' \in Seq(Frame) /\ cleared' \in 0..Len(emitted')
           /\ crashed' \in 0..Len(emitted') /\ intact' \in BOOLEAN
           /\ UNCHANGED <<stopping, missing, chain, phase, writing, disk, tails, cleared, crashed>>
<1>1. NextFrame \in Frame /\ NextFrame.id > cleared /\ NextFrame.seq = ring.nextSeq
  <2>1. ring.nextSeq \in Nat \ {0} /\ Len(emitted) + 1 \in Nat \ {0} /\ Len(emitted) + 1 > cleared
    BY DEF LogTypeOK
  <2> QED
    BY <2>1 DEF NextFrame, Frame
<1> DEFINE f == NextFrame
<1>2. /\ ring' = [nextSeq |-> ring.nextSeq + 1, events |-> LastN(Capacity, Append(ring.events, f))]
      /\ emitted' = Append(emitted, f) /\ pending' = Append(pending, f) /\ timer' = TRUE
      /\ UNCHANGED <<stopping, missing, chain, phase, writing, disk, tails, cleared, crashed>>
      /\ intact' \in BOOLEAN
  BY DEF AppendFrame
<1>3. f \in Frame
  BY <1>1
<1> HIDE DEF f
<1>4. ring.events \in Seq(Frame) /\ ring.nextSeq + 1 \in Nat \ {0}
  BY DEF LogTypeOK
<1>5. Append(ring.events, f) \in Seq(Frame) /\ Capacity \in Nat
  BY <1>3, <1>4, SizeAssumption
<1>6. LastN(Capacity, Append(ring.events, f)) \in Seq(Frame)
  BY <1>5, LastNElements
<1>7. ring' \in [nextSeq : Nat \ {0}, events : Seq(Frame)]
  BY <1>2, <1>4, <1>6
<1>8. /\ emitted' \in Seq(Frame) /\ cleared' \in 0..Len(emitted') /\ pending' \in Seq(Frame)
      /\ crashed' \in 0..Len(emitted')
  BY <1>2, <1>3 DEF LogTypeOK
<1> QED
  BY <1>1, <1>2, <1>7, <1>8 DEF f

\* A process that starts knows only the file.
LEMMA FreshTypes ==
    ASSUME FreshProcess
    PROVE  /\ ring' \in [nextSeq : Nat \ {0}, events : Seq(Frame)]
           /\ attached' \in BOOLEAN /\ tombstone' \in BOOLEAN /\ stopping' \in BOOLEAN
           /\ pending' \in Seq(Frame) /\ writing' \in Seq(Frame)
           /\ timer' \in BOOLEAN /\ missing' \in BOOLEAN
           /\ chain' \in Seq(Ops) /\ phase' \in {"start", "write", "read", "return"}
           /\ tails' \in [Callers -> Seq(Frame)]
<1>1. NoStream \in [nextSeq : Nat \ {0}, events : Seq(Frame)]
  BY DEF NoStream
<1>2. <<>> \in Seq(Frame) /\ <<>> \in Seq(Ops) /\ [c \in Callers |-> <<>>] \in [Callers -> Seq(Frame)]
  OBVIOUS
<1> QED
  BY <1>1, <1>2 DEF FreshProcess

\* The last lines of the file, or some of its first, are frames.
LEMMA FileLines ==
    ASSUME LogTypeOK
    PROVE  /\ disk.lines \in Seq(Frame) /\ LastN(Capacity, disk.lines) \in Seq(Frame)
           /\ \A m \in 0..Len(disk.lines), t \in BOOLEAN :
                CutFile(m, t) \in DiskState
<1>1. disk \in DiskState
  BY DEF LogTypeOK
<1>2. disk.lines \in Seq(Frame)
  BY <1>1 DEF DiskState
<1>3. LastN(Capacity, disk.lines) \in Seq(Frame)
  BY <1>2, LastNElements, SizeAssumption
<1>4. ASSUME NEW m \in 0..Len(disk.lines), NEW t \in BOOLEAN
      PROVE CutFile(m, t) \in DiskState
  <2> DEFINE p == SubSeq(disk.lines, 1, m)
  <2>1. p \in Seq(Frame)
    BY <1>2
  <2> HIDE DEF p
  <2>2. [disk EXCEPT !.lines = p, !.torn = t] \in DiskState
    BY <1>1, <2>1 DEF DiskState
  <2> QED
    BY <2>2 DEF p, CutFile
<1> QED
  BY <1>2, <1>3, <1>4

\* What a crash leaves, by what it interrupts.
LEMMA CrashFileCases ==
    ASSUME NEW d \in CrashFiles
    PROVE  \/ phase = "write" /\ d \in PartialWrites
           \/ phase = "read" /\ \E n \in 0..Len(disk.lines), t \in BOOLEAN : d = CutFile(n, t)
           \/ phase # "write" /\ d = disk
BY DEF CrashFiles

----------------------------------------------------------------------------
(* The inductive invariant of the deletion *)

\* Frames of before the last clearSession() are neither buffered nor, once its
\* unlink has run, in the file or on their way there.
Forgotten ==
    /\ Above(pending, cleared)
    /\ InChain(chain, UnlinkOp) \/ (Above(disk.lines, cleared) /\ Above(writing, cleared))

LogInv == LogTypeOK /\ HeadRuns /\ Forgotten

\* The steps that append to the stream.
LEMMA EmitKeepsLog ==
    ASSUME LogInv, Emit \/ Delete
    PROVE  LogInv'
<1>1. AppendFrame /\ attached' \in BOOLEAN /\ tombstone' \in BOOLEAN
  BY DEF Emit, Delete, LogInv, LogTypeOK
<1> USE <1>1, AppendSteps
<1>2. LogTypeOK'
  BY DEF LogInv, LogTypeOK
<1>3. HeadRuns'
  BY DEF LogInv, HeadRuns
<1>4. Forgotten'
  <2>1. pending \in Seq(Frame) /\ cleared \in Nat /\ Above(pending, cleared)
    BY DEF LogInv, LogTypeOK, Forgotten
  <2>2. Above(Append(pending, NextFrame), cleared)
    BY <2>1, AboveParts DEF LogInv
  <2> QED
    BY <2>2 DEF LogInv, Forgotten
<1> QED
  BY <1>2, <1>3, <1>4 DEF LogInv

\* The steps of the server that queue operations or change no file state.
LEMMA ServerKeepsLog ==
    ASSUME LogInv,
           \/ TombstoneExpires \/ Dispose \/ AttachUnhydrated \/ FlushTimer \/ Stop
           \/ \E c \in Callers : HydrateNothing(c) \/ HydrateBegin(c)
           \/ UNCHANGED vars
    PROVE  LogInv'
<1>t. NoStream \in [nextSeq : Nat \ {0}, events : Seq(Frame)] /\ chain \in Seq(Ops)
  BY DEF NoStream, LogInv, LogTypeOK
<1>o. FlushOp \in Ops /\ UnlinkOp \in Ops /\ \A c \in Callers : LoadOp(c) \in Ops
  BY DEF Ops
<1>1. CASE TombstoneExpires
  <2>1. /\ tombstone' = FALSE /\ ring' = NoStream /\ pending' = <<>> /\ timer' = FALSE
        /\ missing' = FALSE /\ chain' = Append(chain, UnlinkOp) /\ cleared' = Len(emitted)
        /\ intact' = FALSE
        /\ UNCHANGED <<attached, stopping, phase, writing, disk, tails, emitted, crashed>>
    BY <1>1 DEF TombstoneExpires
  <2>2. /\ chain' \in Seq(Ops) /\ chain' # <<>> /\ (chain # <<>> => Head(chain') = Head(chain))
        /\ InChain(chain', UnlinkOp)
    BY <1>t, <1>o, <2>1, ChainSteps
  <2>3. LogTypeOK'
    <3>1. Len(emitted) \in 0..Len(emitted) /\ <<>> \in Seq(Frame)
      BY DEF LogInv, LogTypeOK
    <3>2. cleared' \in 0..Len(emitted')
      BY <2>1, <3>1
    <3> QED
      BY <1>t, <2>1, <2>2, <3>1, <3>2 DEF LogInv, LogTypeOK
  <2>4. HeadRuns'
    BY <2>1, <2>2 DEF LogInv, HeadRuns
  <2>5. Forgotten'
    BY <2>1, <2>2 DEF Forgotten, Above
  <2> QED
    BY <2>3, <2>4, <2>5 DEF LogInv
<1>2. CASE Dispose \/ AttachUnhydrated \/ (\E c \in Callers : HydrateNothing(c)) \/ UNCHANGED vars
  <2>1. /\ ring' \in {ring, NoStream} /\ attached' \in {attached, TRUE, FALSE}
        /\ UNCHANGED <<tombstone, stopping, pending, timer, missing, chain, phase, writing, disk, tails,
                       emitted, cleared, crashed, intact>>
    BY <1>2 DEF Dispose, AttachUnhydrated, HydrateNothing, Answered, vars, serverVars, fileVars, history
  <2>2. ring' \in [nextSeq : Nat \ {0}, events : Seq(Frame)] /\ attached' \in BOOLEAN
    BY <1>t, <2>1 DEF LogInv, LogTypeOK
  <2>3. LogTypeOK'
    BY <2>1, <2>2 DEF LogInv, LogTypeOK
  <2>4. HeadRuns' /\ Forgotten'
    BY <2>1 DEF LogInv, HeadRuns, Forgotten
  <2> QED
    BY <2>3, <2>4 DEF LogInv
<1>3. CASE FlushTimer \/ Stop \/ \E c \in Callers : HydrateBegin(c)
  <2>1. PICK op \in Ops : op # UnlinkOp /\ chain' = Append(chain, op)
    BY <1>3, <1>o, OpKinds DEF FlushTimer, Stop, HydrateBegin
  <2>2. /\ stopping' \in {stopping, TRUE} /\ attached' \in {attached, FALSE} /\ timer' \in {timer, FALSE}
        /\ UNCHANGED <<ring, tombstone, pending, missing, phase, writing, disk, tails,
                       emitted, cleared, crashed, intact>>
    BY <1>3 DEF FlushTimer, Stop, HydrateBegin, serverVars, history
  <2>3. /\ chain' \in Seq(Ops) /\ chain' # <<>> /\ (chain # <<>> => Head(chain') = Head(chain))
        /\ InChain(chain', UnlinkOp) <=> InChain(chain, UnlinkOp)
    BY <1>t, <1>o, <2>1, ChainSteps
  <2>4. stopping' \in BOOLEAN /\ attached' \in BOOLEAN /\ timer' \in BOOLEAN
    BY <2>2 DEF LogInv, LogTypeOK
  <2>5. LogTypeOK'
    BY <2>2, <2>3, <2>4 DEF LogInv, LogTypeOK
  <2>6. HeadRuns' /\ Forgotten'
    BY <2>2, <2>3 DEF LogInv, HeadRuns, Forgotten
  <2> QED
    BY <2>5, <2>6 DEF LogInv
<1> QED
  BY <1>1, <1>2, <1>3

\* An operation that is not an unlink ends, or its load goes on to read.
Goes == \/ OpDone
        \/ phase' = "read" /\ chain' = chain /\ Head(chain) \in {LoadOp(c) : c \in Callers}

\* Then only the head leaves the chain, and a queued unlink stays queued.
LEMMA HeadGoes ==
    ASSUME LogTypeOK, chain # <<>>, Head(chain) # UnlinkOp, Goes
    PROVE  /\ chain' \in Seq(Ops) /\ phase' \in {"start", "read"}
           /\ phase' = "read" => chain' # <<>> /\ Head(chain') \in {LoadOp(c) : c \in Callers}
           /\ InChain(chain', UnlinkOp) <=> InChain(chain, UnlinkOp)
<1>1. chain \in Seq(Ops) /\ UnlinkOp \in Ops
  BY DEF LogTypeOK, Ops
<1>2. Tail(chain) \in Seq(Ops) /\ (InChain(Tail(chain), UnlinkOp) <=> InChain(chain, UnlinkOp))
  BY <1>1, ChainSteps
<1> QED
  BY <1>1, <1>2 DEF Goes, OpDone

\* The file operations.
LEMMA FileKeepsLog ==
    ASSUME LogInv, FileStep \/ FlushFails \/ UnlinkFails
    PROVE  LogInv'
<1> USE DEF LogInv
<1>t. /\ chain \in Seq(Ops) /\ disk \in DiskState /\ pending \in Seq(Frame) /\ writing \in Seq(Frame)
      /\ cleared \in Nat /\ <<>> \in Seq(Frame)
  BY DEF LogTypeOK
<1>k. chain # <<>> => Head(chain) \in Ops
  BY <1>t, ChainSteps
<1>1. CASE FlushNothing
  <2>1. chain # <<>> /\ Head(chain) # UnlinkOp /\ Goes
    BY <1>1, <1>k, OpKinds DEF FlushNothing, Goes
  <2>2. writing = <<>> /\ UNCHANGED <<ring, attached, tombstone, stopping, pending, timer, missing,
                                      writing, disk, tails, emitted, cleared, crashed, intact>>
    BY <1>1 DEF FlushNothing, HeadRuns, serverVars, history
  <2> QED
    BY <2>1, <2>2, HeadGoes DEF LogTypeOK, HeadRuns, Forgotten
<1>2. CASE FlushTake
  <2>1. /\ chain # <<>> /\ Head(chain) # UnlinkOp /\ writing' = pending /\ pending' = <<>>
        /\ phase' = "write"
        /\ UNCHANGED <<ring, attached, tombstone, stopping, timer, missing, chain, disk, tails,
                       emitted, cleared, crashed, intact>>
    BY <1>2, <1>k, OpKinds DEF FlushTake, serverVars, history
  <2>2. LogTypeOK'
    BY <2>1 DEF LogTypeOK
  <2>3. HeadRuns' /\ Forgotten'
    BY <2>1 DEF HeadRuns, Forgotten, Above
  <2> QED
    BY <2>2, <2>3
<1>3. CASE FlushWrite \/ FlushFails
  <2>1. chain # <<>> /\ Head(chain) # UnlinkOp /\ Goes
    BY <1>3, <1>k, OpKinds DEF FlushWrite, FlushFails, Goes, HeadRuns
  <2>2. /\ disk' \in PartialWrites \cup {Compacted, Appended} /\ writing' = <<>>
        /\ missing' \in {missing, FALSE}
        /\ intact' \in {intact, FALSE}
        /\ UNCHANGED <<ring, attached, tombstone, stopping, pending, timer, tails,
                       emitted, cleared, crashed>>
    <3>1. disk \in PartialWrites
      BY DEF PartialWrites
    <3> QED
      BY <1>3, <3>1 DEF FlushWrite, FlushFails, serverVars, history
  <2>3. /\ disk' \in DiskState
        /\ Above(disk.lines, cleared) /\ Above(writing, cleared) => Above(disk'.lines, cleared)
    <3> DEFINE d == disk'
    <3>1. d \in PartialWrites \cup {Compacted, Appended, NoFile}
      BY <2>2
    <3> HIDE DEF d
    <3>2. /\ d \in DiskState
          /\ \A n \in Nat : Above(disk.lines, n) /\ Above(writing, n) => Above(d.lines, n)
      BY <3>1, PartialLines
    <3> QED
      BY <1>t, <3>2 DEF d
  <2>c. chain' \in Seq(Ops) /\ phase' \in {"start", "write", "read", "return"}
    BY <2>1, HeadGoes
  <2>4. LogTypeOK'
    BY <1>t, <2>2, <2>3, <2>c DEF LogTypeOK
  <2>5. HeadRuns'
    BY <2>1, <2>2, HeadGoes DEF HeadRuns
  <2>6. Forgotten'
    BY <2>1, <2>2, <2>3, HeadGoes DEF Forgotten, Above
  <2> QED
    BY <2>4, <2>5, <2>6
<1>4. CASE ReadTail
  <2>1. PICK c \in Callers : Head(chain) = LoadOp(c)
    BY <1>4 DEF ReadTail, HeadRuns
  <2>2. /\ missing' = (missing \/ ~disk.exists) /\ disk' = [disk EXCEPT !.torn = FALSE]
        /\ tails' = [tails EXCEPT ![c] = LastN(Capacity, disk.lines)]
        /\ phase = "read" /\ phase' = "return"
        /\ UNCHANGED <<ring, attached, tombstone, stopping, pending, timer, chain, writing,
                       emitted, cleared, crashed, intact>>
    BY <1>4, <2>1, OpKinds DEF ReadTail, serverVars, history
  <2>3. disk' \in DiskState /\ disk'.lines = disk.lines /\ missing' \in BOOLEAN
    BY <1>t, <2>2 DEF DiskState
  <2>4. tails' \in [Callers -> Seq(Frame)]
    BY <2>2, FileLines DEF LogTypeOK
  <2>5. LogTypeOK'
    BY <2>2, <2>3, <2>4 DEF LogTypeOK
  <2>6. HeadRuns' /\ Forgotten'
    BY <2>2, <2>3 DEF HeadRuns, Forgotten
  <2> QED
    BY <2>5, <2>6
<1>5. CASE HydrateReturn
  <2>1. PICK c \in Callers : chain # <<>> /\ Head(chain) = LoadOp(c)
    BY <1>5 DEF HydrateReturn, HeadRuns
  <2>2. /\ ring' = IF tails[c] = <<>> THEN ring ELSE Seeded(tails[c])
        /\ attached' \in {attached, TRUE} /\ tails' = [tails EXCEPT ![c] = <<>>]
        /\ OpDone /\ phase = "return" /\ intact' \in BOOLEAN
        /\ UNCHANGED <<tombstone, stopping, pending, timer, missing, writing, disk,
                       emitted, cleared, crashed>>
    BY <1>5, <2>1, OpKinds DEF HydrateReturn, Answered
  <2>3. Goes /\ Head(chain) # UnlinkOp
    BY <2>1, <2>2, OpKinds DEF Goes
  <2>4. ring' \in [nextSeq : Nat \ {0}, events : Seq(Frame)]
    <3>1. tails[c] \in Seq(Frame)
      BY DEF LogTypeOK
    <3>2. tails[c] # <<>> => tails[c][Len(tails[c])].seq + 1 \in Nat \ {0}
      <4>1. tails[c] # <<>> => tails[c][Len(tails[c])] \in Frame
        BY <3>1
      <4> QED
        BY <4>1 DEF Frame
    <3> QED
      BY <2>2, <3>1, <3>2 DEF LogTypeOK, Seeded
  <2>5. tails' \in [Callers -> Seq(Frame)]
    BY <1>t, <2>2 DEF LogTypeOK
  <2>6. LogTypeOK'
    BY <2>1, <2>2, <2>3, <2>4, <2>5, HeadGoes DEF LogTypeOK
  <2>7. HeadRuns' /\ Forgotten'
    BY <2>1, <2>2, <2>3, HeadGoes DEF HeadRuns, Forgotten
  <2> QED
    BY <2>6, <2>7
<1>6. CASE Unlink
  <2>1. /\ chain # <<>> /\ phase = "start" /\ disk' = NoFile /\ OpDone
        /\ UNCHANGED <<ring, attached, tombstone, stopping, pending, timer, missing, writing, tails,
                       emitted, cleared, crashed, intact>>
    BY <1>6 DEF Unlink, serverVars, history
  <2>2. chain' \in Seq(Ops) /\ phase' = "start" /\ writing = <<>> /\ disk' \in DiskState /\ disk'.lines = <<>>
    BY <1>t, <2>1, ChainSteps DEF OpDone, HeadRuns, NoFile, DiskState
  <2>3. LogTypeOK'
    BY <2>1, <2>2 DEF LogTypeOK
  <2>4. HeadRuns' /\ Forgotten'
    BY <2>1, <2>2 DEF HeadRuns, Forgotten, Above
  <2> QED
    BY <2>3, <2>4
<1>7. CASE UnlinkFails
  <2>1. /\ chain # <<>> /\ phase = "start" /\ OpDone /\ cleared' = 0
        /\ UNCHANGED <<ring, attached, tombstone, stopping, pending, timer, missing, writing, disk,
                       tails, emitted, crashed, intact>>
    BY <1>7 DEF UnlinkFails, serverVars
  <2>2. chain' \in Seq(Ops) /\ phase' = "start" /\ writing = <<>> /\ 0 \in 0..Len(emitted)
    BY <1>t, <2>1, ChainSteps DEF OpDone, HeadRuns, LogTypeOK
  <2>3. LogTypeOK'
    BY <2>1, <2>2 DEF LogTypeOK
  <2>4. \A s \in Seq(Frame) : Above(s, 0)
    BY FramesAreAbove
  <2>5. HeadRuns' /\ Forgotten'
    BY <1>t, <2>1, <2>2, <2>4 DEF HeadRuns, Forgotten, DiskState
  <2> QED
    BY <2>3, <2>5
<1> QED
  BY <1>1, <1>2, <1>3, <1>4, <1>5, <1>6, <1>7 DEF FileStep

\* The end of a process.
LEMMA EndKeepsLog ==
    ASSUME LogInv, Exit \/ Crash
    PROVE  LogInv'
<1> USE DEF LogInv
<1>e. FreshProcess
  BY DEF Exit, Crash
<1>p. pending' = <<>> /\ writing' = <<>> /\ chain' = <<>> /\ phase' = "start"
  BY <1>e DEF FreshProcess
<1>h. HeadRuns' /\ ~InChain(<<>>, UnlinkOp)
  BY <1>p DEF HeadRuns, InChain
<1>1. CASE Exit
  <2>1. chain = <<>> /\ UNCHANGED <<disk, emitted, cleared, crashed, intact>>
    BY <1>1 DEF Exit, history
  <2>2. LogTypeOK'
    BY <1>e, <2>1, FreshTypes DEF LogTypeOK
  <2>3. Forgotten'
    BY <1>p, <1>h, <2>1 DEF Forgotten, Above
  <2> QED
    BY <1>h, <2>2, <2>3
<1>2. CASE Crash
  <2>1. disk' \in CrashFiles /\ cleared' = 0 /\ crashed' = Len(emitted) /\ UNCHANGED <<emitted, intact>>
    BY <1>2 DEF Crash
  <2>2. disk' \in DiskState
    <3>1. CASE disk' \in PartialWrites \/ disk' = disk
      BY <3>1, PartialLines DEF LogTypeOK
    <3>2. CASE \E n \in 0..Len(disk.lines), t \in BOOLEAN : disk' = CutFile(n, t)
      BY <3>2, FileLines
    <3> QED
      BY <2>1, <3>1, <3>2, CrashFileCases
  <2>3. LogTypeOK'
    <3>1. 0 \in 0..Len(emitted) /\ Len(emitted) \in 0..Len(emitted)
      BY DEF LogTypeOK
    <3> QED
      BY <1>e, <2>1, <2>2, <3>1, FreshTypes DEF LogTypeOK
  <2>4. Above(disk'.lines, 0)
    BY <2>2, FramesAreAbove DEF DiskState
  <2>5. Forgotten'
    BY <1>p, <2>1, <2>4 DEF Forgotten, Above
  <2> QED
    BY <1>h, <2>3, <2>5
<1> QED
  BY <1>1, <1>2

\* A daemon that starts on no file satisfies the invariant.
LEMMA LogInvInit == Init => LogInv
<1> SUFFICES ASSUME Init PROVE LogInv
  OBVIOUS
<1>1. /\ NoStream \in [nextSeq : Nat \ {0}, events : Seq(Frame)] /\ NoFile \in DiskState
      /\ NoFile.lines = <<>>
  BY DEF NoStream, NoFile, DiskState
<1>i. /\ <<>> \in Seq(Frame) /\ <<>> \in Seq(Ops) /\ 0 \in 0..Len(<<>>)
      /\ [c \in Callers |-> <<>>] \in [Callers -> Seq(Frame)]
  OBVIOUS
<1>2. LogTypeOK
  BY <1>1, <1>i DEF Init, LogTypeOK
<1>3. HeadRuns /\ Forgotten
  BY <1>1 DEF Init, HeadRuns, Forgotten, Above
<1> QED
  BY <1>2, <1>3 DEF LogInv

\* Every step of the server, the file operations and the environment keeps it.
LEMMA LogInvNext == LogInv /\ [Next]_vars => LogInv'
BY EmitKeepsLog, ServerKeepsLog, FileKeepsLog, EndKeepsLog DEF Next

\* A deleted session does not come back from its file (NoResurrection), whatever
\* overlaps the deletion: attached writers, loads, failing writes and restarts.
THEOREM DeletedStaysDeleted == Spec => []NoResurrection
<1>1. LogInv => NoResurrection
  <2> SUFFICES ASSUME LogInv, ~InChain(chain, UnlinkOp) PROVE Above(disk.lines, cleared)
    BY DEF NoResurrection, InChain, Above
  <2> QED
    BY DEF LogInv, Forgotten
<1> QED
  BY <1>1, LogInvInit, LogInvNext, PTL DEF Spec

----------------------------------------------------------------------------
(* The file while the stream is intact *)

\* The tail a load returns with is still the file's.
TailIsFresh ==
    \A c \in Callers : phase = "return" /\ Head(chain) = LoadOp(c) =>
                           tails[c] = LastN(Capacity, disk.lines)

\* What is buffered when the daemon stops is taken by the flush at the chain's end.
LastIsFlush ==
    stopping /\ pending # <<>> =>
        chain # <<>> /\ chain[Len(chain)] = FlushOp /\ (Len(chain) = 1 => phase = "start")

\* No deletion is on its way to the file.
FileInv == LogInv /\ ~InChain(chain, UnlinkOp) /\ TailIsFresh /\ LastIsFlush

\* The steps that leave the stream intact.
Happens ==
    \/ Emit \/ Delete \/ Dispose \/ AttachUnhydrated
    \/ \E c \in Callers : HydrateNothing(c) \/ HydrateBegin(c)
    \/ FlushTimer \/ FlushNothing \/ FlushTake \/ FlushWrite \/ ReadTail \/ HydrateReturn
    \/ Stop \/ Exit \/ Crash \/ UNCHANGED vars

\* There are no others, and a stream that is not intact stays so.
LEMMA IntactSteps ==
    ASSUME LogInv, intact => FileInv, [Next]_vars, intact'
    PROVE  intact /\ FileInv /\ Happens
<1>b. intact \in BOOLEAN
  BY DEF LogInv, LogTypeOK
<1>1. ~TombstoneExpires /\ ~FlushFails
  BY Zenon DEF TombstoneExpires, FlushFails
<1>2. intact
  <2>1. CASE Emit \/ Delete
    <3>1. AppendFrame
      BY <2>1 DEF Emit, Delete
    <3> QED
      BY <3>1, Zenon DEF AppendFrame
  <2>2. CASE HydrateReturn
    BY <2>2, Zenon DEF HydrateReturn
  <2>3. CASE \/ Dispose \/ AttachUnhydrated \/ \E c \in Callers : HydrateNothing(c) \/ HydrateBegin(c)
             \/ FlushTimer \/ Stop \/ UNCHANGED vars
    <3>1. intact' = intact
      BY <2>3 DEF Dispose, AttachUnhydrated, HydrateNothing, HydrateBegin, FlushTimer, Stop, vars, history
    <3> QED
      BY <3>1, Zenon
  <2>4. CASE \/ FlushNothing \/ FlushTake \/ FlushWrite \/ ReadTail \/ Unlink \/ UnlinkFails
             \/ Exit \/ Crash
    <3>1. intact' = intact
      BY <2>4 DEF FlushNothing, FlushTake, FlushWrite, ReadTail, Unlink, UnlinkFails, Exit, Crash, history
    <3> QED
      BY <3>1, Zenon
  <2> QED
    BY <1>1, <2>1, <2>2, <2>3, <2>4, Zenon DEF Next, FileStep
<1>3. FileInv
  BY <1>2, Zenon
<1>4. ~Unlink /\ ~UnlinkFails
  <2> SUFFICES ASSUME Unlink \/ UnlinkFails PROVE FALSE
    BY Zenon
  <2>1. chain # <<>> /\ Head(chain) = UnlinkOp /\ chain \in Seq(Ops)
    BY DEF Unlink, UnlinkFails, LogInv, LogTypeOK
  <2>2. InChain(chain, Head(chain))
    BY <2>1, ChainSteps
  <2> QED
    BY <1>3, <2>1, <2>2 DEF FileInv
<1> QED
  BY <1>1, <1>2, <1>3, <1>4, Zenon DEF Next, FileStep, Happens

\* The last operation of a chain that grows at its end or loses its head.
LEMMA ChainEnds ==
    ASSUME NEW q \in Seq(Ops)
    PROVE  /\ \A op \in Ops : Append(q, op)[Len(Append(q, op))] = op /\ Len(Append(q, op)) = Len(q) + 1
           /\ Len(q) > 1 => /\ Tail(q) # <<>> /\ Tail(q)[Len(Tail(q))] = q[Len(q)]
           /\ q # <<>> => Len(q) \in Nat \ {0}
           /\ q = <<>> => Len(q) = 0
<1>1. \A op \in Ops : Append(q, op)[Len(Append(q, op))] = op /\ Len(Append(q, op)) = Len(q) + 1
  OBVIOUS
<1>2. q # <<>> => Len(q) \in Nat \ {0}
  OBVIOUS
<1>3. ASSUME Len(q) > 1 PROVE Tail(q) # <<>> /\ Tail(q)[Len(Tail(q))] = q[Len(q)]
  <2>1. q # <<>> /\ Len(q) \in Nat
    BY <1>3
  <2>2. Len(Tail(q)) = Len(q) - 1 /\ \A i \in 1..Len(Tail(q)) : Tail(q)[i] = q[i + 1]
    BY <2>1, HeadTailProperties
  <2> DEFINE n == Len(Tail(q))
  <2>3. n \in 1..n /\ n + 1 = Len(q) /\ n # 0
    <3>1. n = Len(q) - 1
      BY <2>2
    <3> HIDE DEF n
    <3> QED
      BY <1>3, <2>1, <3>1
  <2>4. Tail(q) # <<>>
    BY <2>3, EmptySeq
  <2> QED
    BY <2>2, <2>3, <2>4
<1> QED
  BY <1>1, <1>2, <1>3

\* An operation ends, or its load goes on: the flush at the chain's end is not the
\* one that ran.
LEMMA LastStays ==
    ASSUME LogTypeOK, LastIsFlush, phase # "start", Goes, phase' = "start" \/ chain' = chain,
           pending' = pending, stopping' = stopping
    PROVE  LastIsFlush'
<1> SUFFICES ASSUME stopping, pending # <<>>
             PROVE  chain' # <<>> /\ chain'[Len(chain')] = FlushOp /\ (Len(chain') = 1 => phase' = "start")
  BY DEF LastIsFlush
<1>t. chain \in Seq(Ops)
  BY DEF LogTypeOK
<1>1. chain # <<>> /\ chain[Len(chain)] = FlushOp /\ Len(chain) # 1 /\ Len(chain) \in Nat \ {0}
  BY <1>t, ChainEnds DEF LastIsFlush
<1>2. CASE chain' = chain
  BY <1>1, <1>2
<1>3. CASE chain' = Tail(chain) /\ phase' = "start"
  <2>1. Len(chain) > 1
    <3>1. \A n \in Nat \ {0} : n # 1 => n > 1
      OBVIOUS
    <3> QED
      BY <1>1, <3>1, Zenon
  <2> QED
    BY <1>t, <1>1, <1>3, <2>1, ChainEnds
<1> QED
  BY <1>2, <1>3 DEF Goes, OpDone

\* An appended frame, which a stopping daemon does not take.
LEMMA EmitKeepsFile ==
    ASSUME FileInv, Emit \/ Delete
    PROVE  FileInv'
<1> USE DEF FileInv
<1>1. LogInv'
  BY EmitKeepsLog
<1>2. AppendFrame
  BY DEF Emit, Delete
<1>3. UNCHANGED <<stopping, chain, phase, disk, tails>> /\ ~stopping
  BY <1>2 DEF AppendFrame
<1> QED
  BY <1>1, <1>3 DEF TailIsFresh, LastIsFlush, InChain

\* The operations of the server.
LEMMA ServerKeepsFile ==
    ASSUME FileInv,
           \/ Dispose \/ AttachUnhydrated \/ FlushTimer \/ Stop
           \/ \E c \in Callers : HydrateNothing(c) \/ HydrateBegin(c)
           \/ UNCHANGED vars
    PROVE  FileInv'
<1> USE DEF FileInv
<1>1. LogInv'
  BY ServerKeepsLog
<1>t. chain \in Seq(Ops) /\ pending \in Seq(Frame) /\ writing \in Seq(Frame)
  BY DEF LogInv, LogTypeOK
<1>3. CASE Dispose \/ AttachUnhydrated \/ (\E c \in Callers : HydrateNothing(c)) \/ UNCHANGED vars
  <2>1. UNCHANGED <<stopping, pending, chain, phase, disk, tails>>
    BY <1>3 DEF Dispose, AttachUnhydrated, HydrateNothing, vars, serverVars, fileVars
  <2> QED
    BY <1>1, <2>1 DEF TailIsFresh, LastIsFlush, InChain
<1>4. CASE FlushTimer \/ Stop \/ \E c \in Callers : HydrateBegin(c)
  <2>1. PICK op \in Ops : /\ op # UnlinkOp /\ chain' = Append(chain, op)
                          /\ stopping' => op = FlushOp
    <3>1. FlushOp \in Ops /\ UnlinkOp \in Ops /\ \A c \in Callers : LoadOp(c) \in Ops
      BY DEF Ops
    <3> QED
      BY <1>4, <3>1, OpKinds DEF FlushTimer, Stop, HydrateBegin, serverVars
  <2>2. UNCHANGED <<pending, phase, disk, tails>>
    BY <1>4 DEF FlushTimer, Stop, HydrateBegin
  <2>3. /\ chain' # <<>> /\ (chain # <<>> => Head(chain') = Head(chain))
        /\ InChain(chain', UnlinkOp) <=> InChain(chain, UnlinkOp)
    <3>1. UnlinkOp \in Ops
      BY DEF Ops
    <3> QED
      BY <1>t, <2>1, <3>1, ChainSteps
  <2>4. /\ chain'[Len(chain')] = op /\ Len(chain') = Len(chain) + 1 /\ Len(chain) \in Nat
        /\ (chain # <<>> => Len(chain) > 0)
    BY <1>t, <2>1, ChainEnds
  <2>5. phase # "start" => chain # <<>>
    BY DEF LogInv, LogTypeOK, HeadRuns
  <2>6. TailIsFresh'
    BY <2>2, <2>3, <2>5 DEF TailIsFresh
  <2>7. LastIsFlush'
    BY <2>1, <2>2, <2>3, <2>4, <2>5 DEF LastIsFlush
  <2> QED
    BY <1>1, <2>3, <2>6, <2>7
<1> QED
  BY <1>3, <1>4

\* The file operations.
LEMMA OperationsKeepFile ==
    ASSUME FileInv, FlushNothing \/ FlushTake \/ FlushWrite \/ ReadTail \/ HydrateReturn
    PROVE  FileInv'
<1> USE DEF FileInv
<1>1. LogInv'
  BY FileKeepsLog DEF FileStep
<1>t. /\ chain \in Seq(Ops) /\ disk \in DiskState /\ phase \in {"start", "write", "read", "return"}
      /\ LogTypeOK /\ HeadRuns
  BY DEF LogInv, LogTypeOK
<1>k. chain # <<>> => Head(chain) \in Ops
  BY <1>t, ChainSteps
<1>2. CASE FlushNothing
  <2>1. chain # <<>> /\ Head(chain) # UnlinkOp /\ Goes /\ pending = <<>> /\ pending' = <<>>
    BY <1>2, <1>k, <1>t, OpKinds DEF FlushNothing, Goes
  <2>2. phase' \in {"start", "read"} /\ (InChain(chain', UnlinkOp) <=> InChain(chain, UnlinkOp))
    BY <1>t, <2>1, HeadGoes
  <2> QED
    BY <1>1, <2>1, <2>2 DEF TailIsFresh, LastIsFlush
<1>3. CASE FlushTake
  <2>1. pending' = <<>> /\ phase' = "write" /\ chain' = chain
    BY <1>3 DEF FlushTake
  <2> QED
    BY <1>1, <2>1 DEF TailIsFresh, LastIsFlush, InChain
<1>4. CASE FlushWrite
  <2>1. /\ phase = "write" /\ chain # <<>> /\ Head(chain) # UnlinkOp /\ Goes
        /\ phase' = "start" \/ chain' = chain
        /\ UNCHANGED <<stopping, pending>>
    BY <1>4, <1>k, <1>t, OpKinds DEF FlushWrite, Goes, HeadRuns, serverVars, OpDone
  <2>2. phase' \in {"start", "read"} /\ (InChain(chain', UnlinkOp) <=> InChain(chain, UnlinkOp))
    BY <1>t, <2>1, HeadGoes
  <2>3. LastIsFlush'
    BY <1>t, <2>1, LastStays
  <2> QED
    BY <1>1, <2>2, <2>3 DEF TailIsFresh
<1>5. CASE ReadTail
  <2>1. PICK c \in Callers : Head(chain) = LoadOp(c)
    BY <1>5, <1>t DEF ReadTail, HeadRuns
  <2>2. /\ disk' = [disk EXCEPT !.torn = FALSE]
        /\ tails' = [tails EXCEPT ![c] = LastN(Capacity, disk.lines)]
        /\ phase = "read" /\ phase' = "return"
        /\ UNCHANGED <<stopping, pending, chain>>
    BY <1>5, <2>1, OpKinds DEF ReadTail, serverVars
  <2>3. disk'.lines = disk.lines
    BY <1>t, <2>2 DEF DiskState
  <2>4. TailIsFresh'
    <3>1. \A d \in Callers : Head(chain) = LoadOp(d) => d = c
      BY <2>1, OpKinds
    <3>2. tails'[c] = LastN(Capacity, disk.lines)
      BY <1>t, <2>2 DEF LogTypeOK
    <3> QED
      BY <2>2, <2>3, <3>1, <3>2 DEF TailIsFresh
  <2> QED
    BY <1>1, <2>2, <2>4 DEF LastIsFlush, InChain
<1>6. CASE HydrateReturn
  <2>1. PICK c \in Callers : chain # <<>> /\ Head(chain) = LoadOp(c)
    BY <1>6, <1>t DEF HydrateReturn, HeadRuns
  <2>2. OpDone /\ phase = "return" /\ phase' = "start" /\ UNCHANGED <<stopping, pending>>
    BY <1>6 DEF HydrateReturn, OpDone
  <2>3. Goes /\ Head(chain) # UnlinkOp
    BY <2>1, <2>2, OpKinds DEF Goes
  <2>4. InChain(chain', UnlinkOp) <=> InChain(chain, UnlinkOp)
    BY <1>t, <2>1, <2>3, HeadGoes
  <2>5. LastIsFlush'
    BY <1>t, <2>2, <2>3, LastStays
  <2> QED
    BY <1>1, <2>2, <2>4, <2>5 DEF TailIsFresh
<1> QED
  BY <1>2, <1>3, <1>4, <1>5, <1>6

\* A process that starts has only a file.
LEMMA EndKeepsFile ==
    ASSUME FileInv, Exit \/ Crash
    PROVE  FileInv'
<1>1. LogInv'
  BY EndKeepsLog DEF FileInv
<1>2. stopping' = FALSE /\ chain' = <<>> /\ phase' = "start"
  BY DEF Exit, Crash, FreshProcess
<1>3. ~InChain(<<>>, UnlinkOp)
  BY DEF InChain
<1> QED
  BY <1>1, <1>2, <1>3 DEF FileInv, TailIsFresh, LastIsFlush

\* It holds of a daemon that starts on no file.
LEMMA FileInvInit == Init => FileInv
<1> SUFFICES ASSUME Init PROVE FileInv
  OBVIOUS
<1>1. ~InChain(<<>>, UnlinkOp)
  BY DEF InChain
<1> QED
  BY <1>1, LogInvInit DEF Init, FileInv, TailIsFresh, LastIsFlush

\* Every step that leaves the stream intact keeps it.
LEMMA FileInvNext == FileInv /\ Happens => FileInv'
BY EmitKeepsFile, ServerKeepsFile, OperationsKeepFile, EndKeepsFile DEF Happens

----------------------------------------------------------------------------
(* What a step leaves of the frames on disk and on their way there *)

\* e is what compactions leave of the first m frames of d: as many of the last of
\* them as a ring holds, or all.
Kept(d, e, m) ==
    /\ m \in 0..Len(d)
    /\ Len(e) <= m /\ (Len(e) = m \/ Len(e) >= Capacity)
    /\ \A i \in 1..Len(e) : e[i] = d[m - Len(e) + i]

\* A prefix, as it is and compacted.
LEMMA KeptPrefix ==
    ASSUME NEW d \in Seq(Frame), NEW p \in Seq(Frame), Len(p) <= Len(d),
           \A i \in 1..Len(p) : p[i] = d[i]
    PROVE  Kept(d, p, Len(p)) /\ Kept(d, LastN(Keep, p), Len(p))
<1>1. Len(p) \in Nat /\ Len(d) \in Nat /\ Capacity \in Nat /\ Keep \in Nat /\ Keep >= Capacity
  BY SizeAssumption
<1>2. Kept(d, p, Len(p))
  BY <1>1 DEF Kept
<1> DEFINE t == LastN(Keep, p)
<1>3. /\ t \in Seq(Frame) /\ Len(t) = IF Len(p) > Keep THEN Keep ELSE Len(p)
      /\ \A i \in 1..Len(t) : t[i] = p[Len(p) - Len(t) + i]
  BY <1>1, LastNElements
<1> HIDE DEF t
<1>4. /\ Len(t) \in Nat /\ Len(t) <= Len(p) /\ (Len(t) = Len(p) \/ Len(t) >= Capacity)
      /\ Len(p) \in 0..Len(d) /\ \A i \in 1..Len(t) : Len(p) - Len(t) + i \in 1..Len(p)
  BY <1>1, <1>3
<1>5. \A i \in 1..Len(t) : t[i] = d[Len(p) - Len(t) + i]
  BY <1>3, <1>4
<1>6. Kept(d, t, Len(p))
  BY <1>4, <1>5 DEF Kept
<1> QED
  BY <1>2, <1>6 DEF t

\* A compaction before frames that follow.
LEMMA KeptCompacted ==
    ASSUME NEW a \in Seq(Frame), NEW b \in Seq(Frame)
    PROVE  Kept(a \o b, LastN(Keep, a) \o b, Len(a \o b))
<1>0. Len(a) \in Nat /\ Len(b) \in Nat /\ Capacity \in Nat /\ Keep \in Nat /\ Keep >= Capacity
  BY SizeAssumption
<1> DEFINE t == LastN(Keep, a)
<1>1. /\ t \in Seq(Frame) /\ Len(t) = IF Len(a) > Keep THEN Keep ELSE Len(a)
      /\ \A i \in 1..Len(t) : t[i] = a[Len(a) - Len(t) + i]
  BY <1>0, LastNElements
<1> HIDE DEF t
<1> DEFINE x == a \o b  y == t \o b
<1>2. /\ x \in Seq(Frame) /\ Len(x) = Len(a) + Len(b)
      /\ \A i \in 1..Len(a) + Len(b) : x[i] = IF i <= Len(a) THEN a[i] ELSE b[i - Len(a)]
  BY ConcatProperties
<1>3. /\ y \in Seq(Frame) /\ Len(y) = Len(t) + Len(b)
      /\ \A i \in 1..Len(t) + Len(b) : y[i] = IF i <= Len(t) THEN t[i] ELSE b[i - Len(t)]
  BY <1>1, ConcatProperties
<1> HIDE DEF x, y
<1>4. /\ Len(t) \in Nat /\ Len(t) <= Len(a) /\ Len(x) \in 0..Len(x) /\ Len(y) <= Len(x)
      /\ (Len(y) = Len(x) \/ Len(y) >= Capacity)
  BY <1>0, <1>1, <1>2, <1>3
<1>m. Len(x) = Len(a) + Len(b) /\ Len(y) = Len(t) + Len(b)
  BY <1>2, <1>3
<1>5. ASSUME NEW i \in 1..Len(y) PROVE y[i] = x[Len(x) - Len(y) + i]
  <2> DEFINE k == Len(x) - Len(y) + i
  <2>1. /\ i \in 1..Len(t) + Len(b) /\ k \in 1..Len(a) + Len(b) /\ k = i + (Len(a) - Len(t))
        /\ k \in Nat /\ i \in Nat
    BY <1>0, <1>4, <1>m
  <2> HIDE DEF k
  <2>2. CASE i <= Len(t)
    <3>1. i \in 1..Len(t) /\ k <= Len(a) /\ k = Len(a) - Len(t) + i
      BY <1>0, <1>4, <2>1, <2>2
    <3>2. y[i] = t[i] /\ t[i] = a[Len(a) - Len(t) + i]
      BY <1>1, <1>3, <2>1, <2>2, <3>1
    <3>3. x[k] = a[k]
      BY <1>2, <2>1, <3>1
    <3> QED
      BY <3>1, <3>2, <3>3 DEF k
  <2>3. CASE ~(i <= Len(t))
    <3>1. ~(k <= Len(a)) /\ k - Len(a) = i - Len(t)
      BY <1>0, <1>4, <2>1, <2>3
    <3>2. y[i] = b[i - Len(t)] /\ x[k] = b[k - Len(a)]
      BY <1>2, <1>3, <2>1, <2>3, <3>1
    <3> QED
      BY <3>1, <3>2 DEF k
  <2> QED
    BY <2>2, <2>3
<1>6. Kept(x, y, Len(x))
  BY <1>4, <1>5 DEF Kept
<1> QED
  BY <1>6 DEF x, y, t

\* The window of what is kept: its positions in the stream before.
LEMMA KeptWindow ==
    ASSUME NEW d \in Seq(Frame), NEW e \in Seq(Frame), NEW m \in 0..Len(d), Kept(d, e, m)
    PROVE  LET w == IF m > Capacity THEN Capacity ELSE m
           IN  /\ LastN(Capacity, e) \in Seq(Frame) /\ Len(LastN(Capacity, e)) = w
               /\ w \in Nat /\ w <= m /\ (m > 0 => w > 0)
               /\ \A i \in 1..w : LastN(Capacity, e)[i] = d[m - w + i]
<1> DEFINE w == IF m > Capacity THEN Capacity ELSE m
           u == LastN(Capacity, e)
<1>0. Capacity \in Nat /\ Capacity > 0 /\ m \in Nat /\ Len(e) \in Nat /\ Len(d) \in Nat
  BY SizeAssumption
<1>1. /\ u \in Seq(Frame) /\ Len(u) = IF Len(e) > Capacity THEN Capacity ELSE Len(e)
      /\ \A i \in 1..Len(u) : u[i] = e[Len(e) - Len(u) + i]
  BY <1>0, LastNElements
<1> HIDE DEF u
<1>k. Len(e) <= m /\ (Len(e) = m \/ Len(e) >= Capacity)
  BY DEF Kept
<1>2. Len(u) = w /\ w \in Nat /\ w <= m /\ (m > 0 => w > 0) /\ w <= Len(e)
  BY <1>0, <1>1, <1>k
<1> HIDE DEF w
<1>3. ASSUME NEW i \in 1..w PROVE u[i] = d[m - w + i]
  <2> DEFINE j == Len(e) - w + i
  <2>1. j \in 1..Len(e) /\ m - Len(e) + j = m - w + i
    BY <1>0, <1>2
  <2>2. u[i] = e[j]
    BY <1>1, <1>2
  <2> HIDE DEF j
  <2>3. e[j] = d[m - Len(e) + j]
    BY <2>1 DEF Kept
  <2> QED
    BY <2>1, <2>2, <2>3
<1>4. /\ u \in Seq(Frame) /\ Len(u) = w /\ w \in Nat /\ w <= m /\ (m > 0 => w > 0)
      /\ \A i \in 1..w : u[i] = d[m - w + i]
  BY <1>1, <1>2, <1>3
<1> QED
  BY <1>4 DEF u, w

LastSeqOf(d) == IF d = <<>> THEN 0 ELSE d[Len(d)].seq

\* What is kept of everything has the same window and the same last number.
LEMMA KeptAll ==
    ASSUME NEW d \in Seq(Frame), NEW e \in Seq(Frame), Kept(d, e, Len(d))
    PROVE  /\ LastN(Capacity, e) = LastN(Capacity, d)
           /\ e = <<>> <=> d = <<>>
           /\ LastSeqOf(e) = LastSeqOf(d)
<1>0. Capacity \in Nat /\ Capacity > 0 /\ Len(d) \in Nat /\ Len(e) \in Nat /\ Len(d) \in 0..Len(d)
  BY SizeAssumption
<1>1. Kept(d, d, Len(d))
  BY <1>0, KeptPrefix
<1> DEFINE u == LastN(Capacity, e)  v == LastN(Capacity, d)
           w == IF Len(d) > Capacity THEN Capacity ELSE Len(d)
<1>2. u \in Seq(Frame) /\ Len(u) = w /\ \A i \in 1..w : u[i] = d[Len(d) - w + i]
  BY <1>0, KeptWindow
<1>3. v \in Seq(Frame) /\ Len(v) = w /\ \A i \in 1..w : v[i] = d[Len(d) - w + i]
  BY <1>0, <1>1, KeptWindow
<1>4. u = v
  <2> HIDE DEF u, v, w
  <2>1. \A i \in 1..Len(u) : u[i] = v[i]
    BY <1>2, <1>3
  <2> QED
    BY <1>2, <1>3, <2>1, SeqEqual
<1>5. Len(e) = 0 <=> Len(d) = 0
  BY <1>0 DEF Kept
<1>6. e = <<>> <=> d = <<>>
  BY <1>0, <1>5, EmptySeq
<1>7. ASSUME e # <<>> PROVE e[Len(e)] = d[Len(d)]
  <2>1. Len(e) \in 1..Len(e) /\ Len(d) - Len(e) + Len(e) = Len(d)
    BY <1>0, <1>7, EmptySeq
  <2>2. e[Len(e)] = d[Len(d) - Len(e) + Len(e)]
    BY <2>1 DEF Kept
  <2> QED
    BY <2>1, <2>2
<1> HIDE DEF u, v, w
<1> QED
  BY <1>4, <1>6, <1>7 DEF LastSeqOf, u, v

\* Sequences of frames in a row.
LEMMA InARow ==
    ASSUME NEW a \in Seq(Frame), NEW b \in Seq(Frame), NEW p \in Seq(Frame)
    PROVE  /\ a \o b \in Seq(Frame) /\ Len(a \o b) = Len(a) + Len(b)
           /\ (a \o b) \o p \in Seq(Frame) /\ Len((a \o b) \o p) = Len(a) + Len(b) + Len(p)
           /\ \A i \in 1..Len(a) : (a \o b)[i] = a[i]
           /\ \A i \in 1..Len(a \o b) : ((a \o b) \o p)[i] = (a \o b)[i]
           /\ (a \o b) \o p = <<>> => a = <<>>
           /\ b = <<>> => a \o b = a
           /\ p = <<>> => (a \o b) \o p = a \o b
<1>1. /\ a \o b \in Seq(Frame) /\ Len(a \o b) = Len(a) + Len(b)
      /\ \A i \in 1..Len(a) : (a \o b)[i] = a[i]
  OBVIOUS
<1> DEFINE c == a \o b
<1> HIDE DEF c
<1>2. c \in Seq(Frame) /\ Len(c) = Len(a) + Len(b)
  BY <1>1 DEF c
<1>3. /\ c \o p \in Seq(Frame) /\ Len(c \o p) = Len(c) + Len(p)
      /\ \A i \in 1..Len(c) : (c \o p)[i] = c[i]
  <2>1. /\ c \o p \in Seq(Frame) /\ Len(c \o p) = Len(c) + Len(p) /\ Len(c) \in Nat /\ Len(p) \in Nat
        /\ \A i \in 1..Len(c) + Len(p) : (c \o p)[i] = IF i <= Len(c) THEN c[i] ELSE p[i - Len(c)]
    <3>1. c \in Seq(Frame)
      BY <1>2
    <3>2. Len(c) \in Nat /\ Len(p) \in Nat
      BY <3>1
    <3>3. /\ c \o p \in Seq(Frame) /\ Len(c \o p) = Len(c) + Len(p)
          /\ \A i \in 1..Len(c) + Len(p) : (c \o p)[i] = IF i <= Len(c) THEN c[i] ELSE p[i - Len(c)]
      BY <3>1, ConcatProperties
    <3> QED
      BY <3>2, <3>3
  <2>2. \A i \in 1..Len(c) : i \in 1..Len(c) + Len(p) /\ i <= Len(c)
    BY <2>1
  <2> QED
    BY <2>1, <2>2
<1>4. c \o p = <<>> => a = <<>>
  <2>1. c \o p = <<>> => Len(c) + Len(p) = 0
    BY <1>3, EmptySeq
  <2>2. Len(c) + Len(p) = 0 => Len(a) = 0
    BY <1>2
  <2> QED
    BY <2>1, <2>2, EmptySeq
<1>5. (b = <<>> => a \o b = a) /\ (p = <<>> => c \o p = c)
  BY <1>2, ConcatEmptySeq
<1>6. Len(c \o p) = Len(a) + Len(b) + Len(p)
  BY <1>2, <1>3
<1> QED
  BY <1>1, <1>3, <1>4, <1>5, <1>6 DEF c

\* The frames on disk and on their way, in the states of the log.
LEMMA DurableType ==
    ASSUME LogTypeOK
    PROVE  /\ disk.lines \in Seq(Frame) /\ writing \in Seq(Frame) /\ pending \in Seq(Frame)
           /\ Durable \in Seq(Frame) /\ Durable = (disk.lines \o writing) \o pending
<1>1. disk.lines \in Seq(Frame) /\ writing \in Seq(Frame) /\ pending \in Seq(Frame)
  BY DEF LogTypeOK, DiskState
<1> QED
  BY <1>1 DEF Durable

\* A batch that is appended or compacted, or not begun, keeps the frames.
LEMMA WriteKeepsFrames ==
    ASSUME LogInv, FlushTake \/ FlushWrite
    PROVE  Kept(Durable, Durable', Len(Durable))
<1>t. LogTypeOK /\ HeadRuns
  BY DEF LogInv
<1> DEFINE a == disk.lines  b == writing  p == pending
<1>1. /\ a \in Seq(Frame) /\ b \in Seq(Frame) /\ p \in Seq(Frame)
      /\ Durable = (a \o b) \o p /\ Durable \in Seq(Frame)
  BY <1>t, DurableType
<1>2. Durable' = (disk'.lines \o writing') \o pending'
  BY DEF Durable
<1> HIDE DEF a, b, p
<1>3. \A s \in Seq(Frame) : Kept(s, s, Len(s))
  <2> TAKE s \in Seq(Frame)
  <2>1. Len(s) <= Len(s)
    OBVIOUS
  <2> QED
    BY <2>1, KeptPrefix
<1>4. \A s \in Seq(Frame) : s \o <<>> = s /\ <<>> \o s = s
  BY ConcatEmptySeq
<1>5. CASE FlushTake
  <2>1. disk' = disk /\ writing' = pending /\ pending' = <<>> /\ writing = <<>>
    BY <1>5, <1>t DEF FlushTake, HeadRuns
  <2>2. Durable' = (a \o p) \o <<>> /\ Durable = (a \o <<>>) \o p
    BY <1>1, <1>2, <2>1 DEF a, b, p
  <2>3. a \o p \in Seq(Frame)
    BY <1>1
  <2>4. Durable' = Durable
    BY <1>1, <1>4, <2>2, <2>3
  <2> QED
    BY <1>1, <1>3, <2>4
<1>6. CASE FlushWrite
  <2>1. /\ disk' = Compacted \/ disk' = Appended
        /\ writing' = <<>> /\ pending' = pending
    BY <1>6 DEF FlushWrite
  <2>2. Compacted.lines = LastN(Keep, a \o b) /\ Appended.lines = a \o b
    BY DEF Compacted, Appended, a, b
  <2> DEFINE c == a \o b
  <2>c. c \in Seq(Frame)
    BY <1>1
  <2> HIDE DEF c
  <2>3. c \in Seq(Frame) /\ LastN(Keep, c) \in Seq(Frame)
    BY <2>c, LastNElements, SizeAssumption
  <2>4. CASE disk' = Appended
    <3>1. Durable' = (c \o <<>>) \o p
      BY <1>2, <2>1, <2>2, <2>4 DEF c, p
    <3>2. Durable' = Durable
      BY <1>1, <1>4, <2>3, <3>1 DEF c
    <3> QED
      BY <1>1, <1>3, <3>2
  <2>5. CASE disk' = Compacted
    <3>1. Durable' = (LastN(Keep, c) \o <<>>) \o p
      BY <1>2, <2>1, <2>2, <2>5 DEF c, p
    <3>2. Durable' = LastN(Keep, c) \o p
      BY <1>4, <2>3, <3>1
    <3> QED
      BY <1>1, <2>3, <3>2, KeptCompacted DEF c
  <2> QED
    BY <2>1, <2>4, <2>5
<1> QED
  BY <1>5, <1>6

\* A crash leaves a prefix of the frames, perhaps compacted.
LEMMA CrashKeepsPrefix ==
    ASSUME LogInv, Crash
    PROVE  \E m \in 0..Len(Durable) : Kept(Durable, Durable', m)
<1>t. LogTypeOK /\ LogTypeOK'
  BY EndKeepsLog DEF LogInv
<1> DEFINE a == disk.lines  b == writing  p == pending  d == disk'
<1>1. /\ a \in Seq(Frame) /\ b \in Seq(Frame) /\ p \in Seq(Frame)
      /\ Durable = (a \o b) \o p /\ Durable \in Seq(Frame) /\ Len(Durable) \in Nat
  BY <1>t, DurableType
<1>2. writing' = <<>> /\ pending' = <<>> /\ disk' \in CrashFiles
  BY DEF Crash, FreshProcess
<1>3. d.lines \in Seq(Frame)
  BY <1>t DEF LogTypeOK, DiskState
<1>4. Durable' = d.lines
  <2>1. Durable' = (d.lines \o <<>>) \o <<>>
    BY <1>2 DEF Durable
  <2> HIDE DEF d
  <2> QED
    BY <1>3, <2>1, ConcatEmptySeq
<1>5. disk \in DiskState
  BY <1>t DEF LogTypeOK
<1>d. d \in CrashFiles
  BY <1>2
<1>c. Compacted.lines = LastN(Keep, a \o b)
  BY DEF Compacted
<1>w. \A n \in 0..Len(writing), t \in BOOLEAN :
        [exists |-> TRUE, lines |-> disk.lines \o SubSeq(writing, 1, n), torn |-> t].lines
            = a \o SubSeq(b, 1, n)
  OBVIOUS
<1>r. \A n \in 0..Len(disk.lines), t \in BOOLEAN : CutFile(n, t).lines = SubSeq(a, 1, n)
  BY <1>5 DEF CutFile, DiskState
<1>6. \/ d = disk \/ d = Compacted
      \/ \E n \in 0..Len(writing), t \in BOOLEAN :
           d = [exists |-> TRUE, lines |-> disk.lines \o SubSeq(writing, 1, n), torn |-> t]
      \/ \E n \in 0..Len(disk.lines), t \in BOOLEAN : d = CutFile(n, t)
  <2> HIDE DEF d
  <2> QED
    BY <1>d, CrashFileCases, PartialWriteCases
<1> DEFINE Goal == \E m \in 0..Len(Durable) : Kept(Durable, d.lines, m)
<1>7. ASSUME NEW s \in Seq(Frame), Len(s) <= Len(Durable), \A i \in 1..Len(s) : s[i] = Durable[i],
             d.lines = s \/ d.lines = LastN(Keep, s)
      PROVE  Goal
  <2>1. Len(s) \in 0..Len(Durable)
    BY <1>1, <1>7
  <2>2. Kept(Durable, s, Len(s)) /\ Kept(Durable, LastN(Keep, s), Len(s))
    BY <1>1, <1>7, KeptPrefix
  <2> HIDE DEF d
  <2> QED
    BY <1>7, <2>1, <2>2
<1> HIDE DEF Goal
<1>8. /\ a \o b \in Seq(Frame) /\ Len(a \o b) = Len(a) + Len(b)
      /\ Len(Durable) = Len(a) + Len(b) + Len(p)
      /\ \A i \in 1..Len(a) : (a \o b)[i] = a[i]
      /\ \A i \in 1..Len(a \o b) : Durable[i] = (a \o b)[i]
  <2> HIDE DEF a, b, p
  <2> QED
    BY <1>1, InARow
<1>9. ASSUME d = disk PROVE Goal
  <2>1. d.lines = a
    BY <1>9
  <2> HIDE DEF a, b, p, d
  <2>2. Len(a) <= Len(Durable) /\ \A i \in 1..Len(a) : i \in 1..Len(a \o b)
    BY <1>1, <1>8
  <2>3. \A i \in 1..Len(a) : a[i] = Durable[i]
    BY <1>8, <2>2
  <2> QED
    BY <1>1, <1>7, <2>1, <2>2, <2>3
<1>10. ASSUME d = Compacted PROVE Goal
  <2>1. d.lines = LastN(Keep, a \o b)
    BY <1>10, <1>c
  <2> HIDE DEF a, b, p, d
  <2> DEFINE c == a \o b
  <2>2. c \in Seq(Frame) /\ Len(c) <= Len(Durable) /\ \A i \in 1..Len(c) : c[i] = Durable[i]
    BY <1>1, <1>8
  <2> HIDE DEF c
  <2> QED
    BY <1>7, <2>1, <2>2 DEF c
<1>11. ASSUME NEW n \in 0..Len(writing), NEW t \in BOOLEAN,
              d = [exists |-> TRUE, lines |-> disk.lines \o SubSeq(writing, 1, n), torn |-> t]
       PROVE  Goal
  <2>1. d.lines = a \o SubSeq(b, 1, n) /\ n \in 0..Len(b)
    BY <1>11, <1>w
  <2> HIDE DEF a, b, p, d
  <2> DEFINE r == SubSeq(b, 1, n)
  <2>2. r \in Seq(Frame) /\ Len(r) = n /\ \A i \in 1..n : r[i] = b[i]
    BY <1>1, <2>1
  <2> HIDE DEF r
  <2>3. /\ a \o r \in Seq(Frame) /\ Len(a \o r) = Len(a) + Len(r)
        /\ \A i \in 1..Len(a) + Len(r) : (a \o r)[i] = IF i <= Len(a) THEN a[i] ELSE r[i - Len(a)]
    BY <1>1, <2>2, ConcatProperties
  <2>4. \A i \in 1..Len(a) + Len(b) : (a \o b)[i] = IF i <= Len(a) THEN a[i] ELSE b[i - Len(a)]
    BY <1>1, ConcatProperties
  <2> DEFINE s == a \o r  c == a \o b
  <2> HIDE DEF s, c
  <2>5. s \in Seq(Frame) /\ Len(s) = Len(a) + n /\ Len(s) <= Len(c) /\ Len(c) <= Len(Durable)
    BY <1>1, <1>8, <2>1, <2>2, <2>3 DEF s, c
  <2>6. ASSUME NEW i \in 1..Len(s) PROVE s[i] = c[i]
    <3>1. i \in 1..Len(a) + Len(r) /\ i \in 1..Len(a) + Len(b)
      BY <1>1, <1>8, <2>1, <2>2, <2>5
    <3>2. CASE i <= Len(a)
      BY <2>3, <2>4, <3>1, <3>2 DEF s, c
    <3>3. CASE ~(i <= Len(a))
      <4>1. i - Len(a) \in 1..n
        BY <1>1, <2>2, <3>1, <3>3
      <4> QED
        BY <2>2, <2>3, <2>4, <3>1, <3>3, <4>1 DEF s, c
    <3> QED
      BY <3>2, <3>3
  <2>7. \A i \in 1..Len(s) : s[i] = Durable[i]
    <3>1. \A i \in 1..Len(s) : i \in 1..Len(c)
      BY <2>5, <1>8, <1>1 DEF c
    <3> QED
      BY <1>8, <2>6, <3>1 DEF c
  <2>8. Len(s) <= Len(Durable)
    BY <1>1, <1>8, <2>5 DEF c
  <2>9. d.lines = s
    BY <2>1 DEF s, r
  <2> QED
    BY <1>7, <2>5, <2>7, <2>8, <2>9
<1>12. ASSUME NEW n \in 0..Len(disk.lines), NEW t \in BOOLEAN, d = CutFile(n, t)
       PROVE  Goal
  <2>1. d.lines = SubSeq(a, 1, n) /\ n \in 0..Len(a)
    BY <1>12, <1>r
  <2> HIDE DEF a, b, p, d
  <2> DEFINE s == SubSeq(a, 1, n)
  <2>2. s \in Seq(Frame) /\ Len(s) = n /\ \A i \in 1..n : s[i] = a[i]
    BY <1>1, <2>1
  <2> HIDE DEF s
  <2>3. Len(s) <= Len(Durable) /\ \A i \in 1..Len(s) : i \in 1..Len(a) /\ i \in 1..Len(a \o b)
    BY <1>1, <1>8, <2>1, <2>2
  <2>4. \A i \in 1..Len(s) : s[i] = Durable[i]
    BY <1>8, <2>2, <2>3
  <2>5. d.lines = s
    BY <2>1 DEF s
  <2> QED
    BY <1>7, <2>2, <2>3, <2>4, <2>5
<1>13. Goal
  <2> HIDE DEF d
  <2> QED
    BY <1>6, <1>9, <1>10, <1>11, <1>12
<1> QED
  BY <1>4, <1>13 DEF Goal

----------------------------------------------------------------------------
(* The inductive invariant of the stream *)

Consecutive(d) == \A i \in 1..Len(d) : d[i].seq = d[1].seq + (i - 1)

\* A ring is the end of what is durable and numbers on from there.
RingIsEnd ==
    /\ ring.events = <<>> => ring.nextSeq = 1
    /\ ring.events # <<>> => /\ ring.events = LastN(Capacity, Durable)
                             /\ ring.nextSeq = LastSeqOf(Durable) + 1

\* A frame's id is its place in the history.
IdsArePlaces == \A i \in 1..Len(emitted) : emitted[i].id = i

\* The frames since the last crash are numbered up to the last durable one.
SinceCrash ==
    \A i \in crashed + 1..Len(emitted) : emitted[i].seq + (Len(emitted) - i) = LastSeqOf(Durable)

\* Whatever came after a frame that is durable has a higher number.
LaterIsHigher ==
    \A k \in 1..Len(Durable), j \in 1..Len(emitted) :
        Durable[k].id < j => Durable[k].seq < emitted[j].seq

Whole == FileInv /\ Consecutive(Durable) /\ RingIsEnd /\ SinceCrash /\ LaterIsHigher

StreamInv == LogInv /\ IdsArePlaces /\ (intact => Whole)

\* An appended frame is appended to what is durable.
LEMMA AppendIsDurable ==
    ASSUME LogTypeOK, AppendFrame
    PROVE  Durable' = Append(Durable, NextFrame)
<1>d. /\ disk.lines \in Seq(Frame) /\ writing \in Seq(Frame)
      /\ pending \in Seq(Frame) /\ Durable = (disk.lines \o writing) \o pending
      /\ Durable' = (disk'.lines \o writing') \o pending'
  BY DurableType DEF Durable
<1>2. pending' = Append(pending, NextFrame) /\ disk' = disk /\ writing' = writing /\ NextFrame \in Frame
  BY AppendSteps
<1> DEFINE c == disk.lines \o writing  f == NextFrame  p == pending
<1>3. c \in Seq(Frame) /\ f \in Frame /\ p \in Seq(Frame) /\ <<f>> \in Seq(Frame)
  BY <1>d, <1>2
<1>4. Durable' = c \o Append(p, f) /\ Durable = c \o p
  BY <1>d, <1>2
<1> HIDE DEF c, f, p
<1>5. c \o Append(p, f) = Append(c \o p, f)
  <2>1. Append(p, f) = p \o <<f>>
    BY <1>3, AppendIsConcat
  <2>2. c \o p \in Seq(Frame)
    BY <1>3
  <2>3. Append(c \o p, f) = (c \o p) \o <<f>>
    BY <1>3, <2>2, AppendIsConcat
  <2> QED
    BY <1>3, <2>1, <2>3, ConcatAssociative
<1> QED
  BY <1>4, <1>5 DEF f

\* What a step that leaves the stream intact does to the frames that are durable.
LEMMA DurableSteps ==
    ASSUME FileInv, Happens
    PROVE  \/ AppendFrame /\ Durable' = Append(Durable, NextFrame)
           \/ /\ ~(Emit \/ Delete \/ Crash)
              /\ Kept(Durable, Durable', Len(Durable)) /\ emitted' = emitted /\ crashed' = crashed
           \/ /\ Crash /\ emitted' = emitted /\ crashed' = Len(emitted)
              /\ \E m \in 0..Len(Durable) : Kept(Durable, Durable', m)
<1>t. LogInv /\ LogTypeOK /\ HeadRuns /\ disk \in DiskState
  BY DEF FileInv, LogInv, LogTypeOK
<1>d. /\ Durable \in Seq(Frame) /\ disk.lines \in Seq(Frame) /\ writing \in Seq(Frame)
      /\ pending \in Seq(Frame) /\ Durable = (disk.lines \o writing) \o pending
      /\ Durable' = (disk'.lines \o writing') \o pending'
  BY <1>t, DurableType DEF Durable
<1>k. Kept(Durable, Durable, Len(Durable))
  <2>1. Len(Durable) <= Len(Durable)
    BY <1>d
  <2> QED
    BY <1>d, <2>1, KeptPrefix
<1>1. CASE Emit \/ Delete
  <2>1. AppendFrame
    BY <1>1 DEF Emit, Delete
  <2> QED
    BY <1>t, <2>1, AppendIsDurable
<1>c. CASE Crash
  BY <1>c, <1>t, CrashKeepsPrefix DEF Crash
<1> SUFFICES ASSUME ~Emit, ~Delete, ~Crash
             PROVE  Kept(Durable, Durable', Len(Durable)) /\ emitted' = emitted /\ crashed' = crashed
  BY <1>1, <1>c
<1>2. CASE FlushTake \/ FlushWrite
  BY <1>2, <1>t, WriteKeepsFrames DEF FlushTake, FlushWrite, history
<1>4. CASE Exit
  <2>1. chain = <<>> /\ stopping /\ pending' = <<>> /\ writing' = <<>> /\ disk' = disk
        /\ UNCHANGED <<emitted, crashed>>
    BY <1>4 DEF Exit, FreshProcess, history
  <2>2. pending = <<>> /\ writing = <<>>
    BY <1>t, <2>1 DEF FileInv, LastIsFlush, HeadRuns, LogTypeOK
  <2>3. Durable' = Durable
    BY <1>d, <2>1, <2>2
  <2> QED
    BY <1>k, <2>1, <2>3
<1>5. CASE ReadTail
  <2>1. disk' = [disk EXCEPT !.torn = FALSE] /\ UNCHANGED <<pending, writing, emitted, crashed>>
    BY <1>5 DEF ReadTail, history
  <2>2. disk'.lines = disk.lines
    BY <1>t, <2>1 DEF DiskState
  <2>3. Durable' = Durable
    BY <1>d, <2>1, <2>2
  <2> QED
    BY <1>k, <2>1, <2>3
<1>6. CASE \/ Dispose \/ AttachUnhydrated \/ FlushTimer \/ FlushNothing \/ HydrateReturn \/ Stop
           \/ \E c \in Callers : HydrateNothing(c) \/ HydrateBegin(c)
           \/ UNCHANGED vars
  <2>1. UNCHANGED <<disk, pending, writing, emitted, crashed>>
    BY <1>6 DEF Dispose, AttachUnhydrated, FlushTimer, FlushNothing, HydrateReturn, Stop, HydrateNothing,
                HydrateBegin, vars, fileVars, history
  <2>3. Durable' = Durable
    BY <1>d, <2>1
  <2> QED
    BY <1>k, <2>1, <2>3
<1> QED
  BY <1>2, <1>4, <1>5, <1>6 DEF Happens

\* The end of an empty stream.
LEMMA EmptyWindow == LastN(Capacity, <<>>) = <<>>
<1>1. <<>> \in Seq(Frame) /\ Len(<<>>) = 0 /\ Capacity \in Nat
  BY SizeAssumption
<1> DEFINE z == <<>>
<1>z. z \in Seq(Frame) /\ Len(z) = 0
  BY <1>1
<1> HIDE DEF z
<1>2. LastN(Capacity, z) \in Seq(Frame) /\ Len(LastN(Capacity, z)) = 0
  <2>1. /\ LastN(Capacity, z) \in Seq(Frame)
        /\ Len(LastN(Capacity, z)) = IF Len(z) > Capacity THEN Capacity ELSE Len(z)
    BY <1>1, <1>z, LastNElements
  <2>2. ~(0 > Capacity)
    BY <1>1
  <2> QED
    BY <1>z, <2>1, <2>2
<1>3. LastN(Capacity, z) = <<>>
  BY <1>2, EmptySeq
<1> QED
  BY <1>3 DEF z

\* A frame that leaves the stream intact is numbered one past the last durable one.
LEMMA NextNumber ==
    ASSUME Whole, AppendFrame, intact'
    PROVE  /\ NextFrame \in Frame /\ NextFrame.seq = LastSeqOf(Durable) + 1
           /\ ring.events = LastN(Capacity, Durable)
<1>t. LogTypeOK /\ RingIsEnd
  BY DEF Whole, FileInv, LogInv
<1>1. NextFrame \in Frame /\ NextFrame.seq = ring.nextSeq
  BY <1>t, AppendSteps
<1>2. CASE ring.events # <<>>
  BY <1>1, <1>2, <1>t DEF RingIsEnd
<1>3. CASE ring.events = <<>>
  <2>1. Durable = <<>>
    BY <1>3, Zenon DEF AppendFrame
  <2>2. LastN(Capacity, <<>>) = <<>>
    BY EmptyWindow
  <2> QED
    BY <1>1, <1>3, <1>t, <2>1, <2>2 DEF LastSeqOf, RingIsEnd
<1> QED
  BY <1>2, <1>3

\* The stream with one more frame.
LEMMA AppendedStream ==
    ASSUME NEW d \in Seq(Frame), NEW f \in Frame, Consecutive(d), f.seq = LastSeqOf(d) + 1
    PROVE  /\ Append(d, f) \in Seq(Frame) /\ Append(d, f) # <<>>
           /\ Consecutive(Append(d, f)) /\ LastSeqOf(Append(d, f)) = f.seq
           /\ LastN(Capacity, Append(LastN(Capacity, d), f)) = LastN(Capacity, Append(d, f))
           /\ LastN(Capacity, Append(d, f)) # <<>>
<1> DEFINE e == Append(d, f)
<1>1. /\ e \in Seq(Frame) /\ Len(e) = Len(d) + 1 /\ e[Len(d) + 1] = f /\ Len(d) \in Nat
      /\ \A i \in 1..Len(d) : e[i] = d[i]
  BY AppendProperties
<1>2. e # <<>>
  BY <1>1
<1>c. Capacity \in Nat /\ Capacity > 0 /\ Capacity <= Capacity
  BY SizeAssumption
<1>3. LastN(Capacity, Append(LastN(Capacity, d), f)) = LastN(Capacity, e)
  <2> DEFINE t == LastN(Capacity, d)
  <2>1. t \in Seq(Frame) /\ <<f>> \in Seq(Frame)
    BY <1>c, LastNElements
  <2> HIDE DEF t
  <2>2. Append(t, f) = t \o <<f>> /\ e = d \o <<f>>
    BY <2>1, AppendIsConcat
  <2>3. LastN(Capacity, LastN(Capacity, d) \o <<f>>) = LastN(Capacity, d \o <<f>>)
    BY <1>c, <2>1, LastNOfCompacted
  <2> QED
    BY <2>2, <2>3 DEF t
<1> HIDE DEF e
<1>4. LastN(Capacity, e) # <<>>
  <2>1. Len(LastN(Capacity, e)) > 0
    BY <1>1, <1>c, LastNElements
  <2> QED
    BY <2>1
<1>5. LastSeqOf(e) = f.seq
  BY <1>1, <1>2 DEF LastSeqOf
<1>6. Consecutive(e)
  <2>1. CASE d = <<>>
    <3>1. Len(e) = 1 /\ e[1].seq \in Nat
      BY <1>1, <2>1 DEF Frame
    <3>2. ASSUME NEW i \in 1..Len(e) PROVE e[i].seq = e[1].seq + (i - 1)
      <4>1. i = 1
        BY <3>1
      <4> QED
        BY <3>1, <4>1
    <3> QED
      BY <3>2 DEF Consecutive
  <2>2. CASE d # <<>>
    <3>1. Len(d) \in 1..Len(d) /\ 1 \in 1..Len(d)
      BY <1>1, <2>2, EmptySeq
    <3>2. e[1] = d[1] /\ d[1] \in Frame
      BY <1>1, <3>1
    <3>n. d[1].seq \in Nat
      BY <3>2 DEF Frame
    <3>3. f.seq = d[1].seq + (Len(d) - 1) + 1
      BY <2>2, <3>1 DEF Consecutive, LastSeqOf
    <3>4. ASSUME NEW i \in 1..Len(e) PROVE e[i].seq = e[1].seq + (i - 1)
      <4>1. CASE i \in 1..Len(d)
        BY <1>1, <3>2, <4>1 DEF Consecutive
      <4>2. CASE i = Len(d) + 1
        BY <1>1, <3>2, <3>3, <3>n, <4>2
      <4> QED
        BY <1>1, <4>1, <4>2
    <3> QED
      BY <3>4 DEF Consecutive
  <2> QED
    BY <2>1, <2>2
<1> QED
  BY <1>1, <1>2, <1>3, <1>4, <1>5, <1>6 DEF e

\* What is kept of a stream is a stream.
LEMMA KeptStream ==
    ASSUME NEW d \in Seq(Frame), NEW e \in Seq(Frame), NEW m \in 0..Len(d), Kept(d, e, m), Consecutive(d)
    PROVE  Consecutive(e)
<1>0. Len(d) \in Nat /\ Len(e) \in Nat /\ m \in Nat /\ Len(e) <= m /\ m <= Len(d)
  BY DEF Kept
<1> SUFFICES ASSUME NEW i \in 1..Len(e) PROVE e[i].seq = e[1].seq + (i - 1)
  BY DEF Consecutive
<1> DEFINE o == m - Len(e)
<1>1. o \in Nat /\ o + i \in 1..Len(d) /\ o + 1 \in 1..Len(d) /\ 1 \in 1..Len(e) /\ 1 \in 1..Len(d)
  BY <1>0
<1>2. e[i] = d[o + i] /\ e[1] = d[o + 1]
  BY <1>1 DEF Kept
<1>3. d[1] \in Frame
  BY <1>1
<1> HIDE DEF o
<1> DEFINE j == o + i  k == o + 1  b == d[1].seq
<1>n. b \in Nat
  BY <1>3 DEF Frame
<1>4. j \in 1..Len(d) /\ k \in 1..Len(d) /\ (j - 1) = (k - 1) + (i - 1) /\ j \in Nat /\ k \in Nat /\ i \in Nat
  BY <1>0, <1>1
<1>5. e[i] = d[j] /\ e[1] = d[k]
  BY <1>2
<1> HIDE DEF j, k
<1>6. d[j].seq = b + (j - 1) /\ d[k].seq = b + (k - 1)
  BY <1>4 DEF Consecutive
<1> HIDE DEF b
<1>7. b + (j - 1) = (b + (k - 1)) + (i - 1)
  BY <1>4, <1>n
<1> QED
  BY <1>5, <1>6, <1>7

\* The ring after a step that leaves the stream intact and appends nothing.
LEMMA RingKept ==
    ASSUME Whole, Happens, intact', ~Emit, ~Delete, ~Crash,
           Kept(Durable, Durable', Len(Durable)), Durable' \in Seq(Frame)
    PROVE  RingIsEnd'
<1>t. LogTypeOK /\ HeadRuns /\ Durable \in Seq(Frame) /\ RingIsEnd /\ TailIsFresh
  BY DurableType DEF Whole, FileInv, LogInv
<1>k. LastN(Capacity, Durable') = LastN(Capacity, Durable) /\ LastSeqOf(Durable') = LastSeqOf(Durable)
  <2> DEFINE e == Durable'
  <2>1. e \in Seq(Frame) /\ Kept(Durable, e, Len(Durable))
    OBVIOUS
  <2> HIDE DEF e
  <2>2. LastN(Capacity, e) = LastN(Capacity, Durable) /\ LastSeqOf(e) = LastSeqOf(Durable)
    BY <1>t, <2>1, KeptAll
  <2> QED
    BY <2>2 DEF e
<1>r. ASSUME ring' = ring PROVE RingIsEnd'
  BY <1>k, <1>r, <1>t DEF RingIsEnd
<1>n. ASSUME ring' = NoStream PROVE RingIsEnd'
  BY <1>n DEF RingIsEnd, NoStream
<1>1. CASE Dispose \/ Exit
  BY <1>1, <1>n DEF Dispose, Exit, FreshProcess
<1>5. CASE HydrateReturn
  <2>1. PICK c \in Callers : chain # <<>> /\ Head(chain) = LoadOp(c)
    BY <1>5, <1>t DEF HydrateReturn, HeadRuns
  <2>2. /\ ring' = IF tails[c] = <<>> THEN ring ELSE Seeded(tails[c])
        /\ phase = "return"
    BY <1>5, <2>1, OpKinds DEF HydrateReturn
  <2>i. tails[c] = <<>> \/ pending = <<>>
    <3>1. c = Head(chain).by
      BY <2>1, OpKinds
    <3> QED
      BY <1>5, <3>1, Zenon DEF HydrateReturn
  <2>7. CASE tails[c] = <<>>
    BY <1>r, <2>2, <2>7
  <2>8. CASE tails[c] # <<>>
    <3>1. tails[c] = LastN(Capacity, disk.lines)
      BY <1>t, <2>1, <2>2 DEF TailIsFresh
    <3>2. Durable = disk.lines /\ disk.lines \in Seq(Frame)
      <4>1. pending = <<>> /\ writing = <<>>
        BY <1>t, <2>2, <2>8, <2>i DEF HeadRuns
      <4> QED
        BY <1>t, <4>1, DurableType, ConcatEmptySeq
    <3> DEFINE w == LastN(Capacity, Durable)
    <3>3. /\ w \in Seq(Frame) /\ Len(w) = IF Len(Durable) > Capacity THEN Capacity ELSE Len(Durable)
          /\ \A i \in 1..Len(w) : w[i] = Durable[Len(Durable) - Len(w) + i]
          /\ Capacity > 0 /\ Capacity \in Nat /\ Len(Durable) \in Nat
      <4>1. Capacity > 0 /\ Capacity \in Nat /\ Durable \in Seq(Frame)
        BY <1>t, SizeAssumption
      <4>2. Len(Durable) \in Nat
        BY <4>1
      <4> QED
        BY <4>1, <4>2, LastNElements
    <3> HIDE DEF w
    <3>4. ring' = [nextSeq |-> w[Len(w)].seq + 1, events |-> w] /\ w # <<>>
      BY <2>2, <2>8, <3>1, <3>2 DEF Seeded, w
    <3>5. Len(w) \in 1..Len(w) /\ Len(Durable) > 0
      <4>1. Len(w) > 0
        BY <3>3, <3>4, EmptySeq
      <4> QED
        BY <3>3, <4>1
    <3>6. w[Len(w)] = Durable[Len(Durable)]
      <4>1. Len(Durable) - Len(w) + Len(w) = Len(Durable)
        BY <3>3, <3>5
      <4> QED
        BY <3>3, <3>5, <4>1
    <3>7. Durable # <<>>
      BY <3>5
    <3>8. ring'.events = w /\ ring'.nextSeq = LastSeqOf(Durable) + 1
      BY <3>4, <3>6, <3>7 DEF LastSeqOf
    <3> QED
      BY <1>k, <3>4, <3>8 DEF RingIsEnd, w
  <2> QED
    BY <2>7, <2>8
<1>6. CASE \/ FlushTimer \/ FlushNothing \/ FlushTake \/ FlushWrite \/ ReadTail \/ Stop
           \/ AttachUnhydrated \/ UNCHANGED vars
           \/ \E c \in Callers : HydrateNothing(c) \/ HydrateBegin(c)
  <2>1. ring' = ring
    BY <1>6 DEF FlushTimer, FlushNothing, FlushTake, FlushWrite, ReadTail, Stop, AttachUnhydrated,
                HydrateNothing, HydrateBegin, vars, serverVars
  <2> QED
    BY <1>r, <2>1
<1> QED
  BY <1>1, <1>5, <1>6 DEF Happens

\* The ids are the places in the history, whatever happens.
LEMMA IdsStayPlaces ==
    ASSUME LogInv, IdsArePlaces, [Next]_vars
    PROVE  IdsArePlaces'
<1>t. LogTypeOK /\ emitted \in Seq(Frame)
  BY DEF LogInv, LogTypeOK
<1>1. CASE emitted' = emitted
  BY <1>1 DEF IdsArePlaces
<1>2. CASE AppendFrame
  <2>1. emitted' = Append(emitted, NextFrame) /\ NextFrame.id = Len(emitted) + 1
    BY <1>2 DEF AppendFrame, NextFrame
  <2> DEFINE f == NextFrame
  <2>f. f \in Frame /\ f.id = Len(emitted) + 1 /\ emitted' = Append(emitted, f)
    BY <1>2, <1>t, <2>1, AppendSteps
  <2> HIDE DEF f
  <2>2. /\ Len(emitted') = Len(emitted) + 1 /\ Len(emitted) \in Nat
        /\ emitted'[Len(emitted) + 1] = f /\ \A i \in 1..Len(emitted) : emitted'[i] = emitted[i]
    BY <1>t, <2>f, AppendProperties
  <2>3. ASSUME NEW i \in 1..Len(emitted') PROVE emitted'[i].id = i
    <3>1. CASE i \in 1..Len(emitted)
      BY <2>2, <3>1 DEF IdsArePlaces
    <3>2. CASE i = Len(emitted) + 1
      BY <2>2, <2>f, <3>2
    <3> QED
      BY <2>2, <3>1, <3>2
  <2> QED
    BY <2>3 DEF IdsArePlaces
<1>3. AppendFrame \/ emitted' = emitted
  <2>1. CASE Emit \/ Delete
    BY <2>1 DEF Emit, Delete
  <2>2. CASE \/ TombstoneExpires \/ Dispose \/ AttachUnhydrated \/ FlushTimer \/ Stop
             \/ \E c \in Callers : HydrateNothing(c) \/ HydrateBegin(c)
             \/ UNCHANGED vars
    BY <2>2 DEF TombstoneExpires, Dispose, AttachUnhydrated, FlushTimer, Stop, HydrateNothing,
                HydrateBegin, vars, history
  <2>3. CASE \/ FlushNothing \/ FlushTake \/ FlushWrite \/ ReadTail \/ HydrateReturn \/ Unlink
             \/ FlushFails \/ UnlinkFails \/ Exit \/ Crash
    BY <2>3 DEF FlushNothing, FlushTake, FlushWrite, ReadTail, HydrateReturn, Unlink, FlushFails,
                UnlinkFails, Exit, Crash, history
  <2> QED
    BY <2>1, <2>2, <2>3 DEF Next, FileStep
<1> QED
  BY <1>1, <1>2, <1>3

\* Frames of a stream are numbered below what follows its last one.
LEMMA LastIsHighest ==
    ASSUME NEW d \in Seq(Frame), Consecutive(d), NEW k \in 1..Len(d)
    PROVE  d[k].seq <= LastSeqOf(d) /\ d[k].seq \in Nat /\ LastSeqOf(d) \in Nat
<1>1. d # <<>> /\ Len(d) \in 1..Len(d) /\ 1 \in 1..Len(d) /\ Len(d) \in Nat
  OBVIOUS
<1> DEFINE b == d[1].seq  n == Len(d)
<1>2. b \in Nat
  <2>1. d[1] \in Frame
    BY <1>1
  <2> QED
    BY <2>1 DEF Frame
<1>3. d[k].seq = b + (k - 1) /\ d[n].seq = b + (n - 1) /\ LastSeqOf(d) = d[n].seq
  BY <1>1 DEF Consecutive, LastSeqOf
<1>4. k \in Nat /\ k >= 1 /\ n >= k /\ n \in Nat
  BY <1>1
<1> HIDE DEF b, n
<1> QED
  BY <1>2, <1>3, <1>4

\* Frames that are kept come after none that they did not come after before.
LEMMA KeptIsLower ==
    ASSUME LaterIsHigher, emitted' = emitted, NEW m \in 0..Len(Durable), Kept(Durable, Durable', m),
           Durable \in Seq(Frame), Durable' \in Seq(Frame)
    PROVE  LaterIsHigher'
<1> DEFINE d == Durable  e == Durable'
<1>1. ASSUME NEW k \in 1..Len(e), NEW j \in 1..Len(emitted), e[k].id < j
      PROVE  e[k].seq < emitted[j].seq
  <2>d. d \in Seq(Frame) /\ e \in Seq(Frame) /\ m \in 0..Len(d) /\ Kept(d, e, m)
    OBVIOUS
  <2>l. \A i \in 1..Len(d) : d[i].id < j => d[i].seq < emitted[j].seq
    BY DEF LaterIsHigher
  <2> HIDE DEF d, e
  <2>1. m - Len(e) + k \in 1..Len(d)
    BY <2>d DEF Kept
  <2>2. e[k] = d[m - Len(e) + k]
    BY <2>d DEF Kept
  <2> QED
    BY <1>1, <2>1, <2>2, <2>l
<1> QED
  BY <1>1 DEF LaterIsHigher

\* A frame that leaves the stream intact.
LEMMA EmitKeepsStream ==
    ASSUME LogInv, IdsArePlaces, Whole, AppendFrame, intact', Durable' = Append(Durable, NextFrame)
    PROVE  Consecutive(Durable)' /\ RingIsEnd' /\ SinceCrash' /\ LaterIsHigher'
<1>t. LogTypeOK /\ Durable \in Seq(Frame) /\ emitted \in Seq(Frame) /\ crashed \in 0..Len(emitted)
  BY DurableType DEF LogInv, LogTypeOK
<1> DEFINE d == Durable  e == Durable'  f == NextFrame
<1>1. f \in Frame /\ f.seq = LastSeqOf(d) + 1 /\ ring.events = LastN(Capacity, d)
  BY NextNumber
<1>2. /\ ring' = [nextSeq |-> ring.nextSeq + 1, events |-> LastN(Capacity, Append(ring.events, f))]
      /\ emitted' = Append(emitted, f) /\ crashed' = crashed /\ f.seq = ring.nextSeq
      /\ f.id = Len(emitted) + 1
  BY <1>t, AppendSteps DEF AppendFrame, NextFrame
<1>d. d \in Seq(Frame) /\ Consecutive(d) /\ e = Append(d, f)
  BY <1>t DEF Whole
<1>s. /\ \A i \in crashed + 1..Len(emitted) : emitted[i].seq + (Len(emitted) - i) = LastSeqOf(d)
      /\ \A k \in 1..Len(d), j \in 1..Len(emitted) : d[k].id < j => d[k].seq < emitted[j].seq
  BY DEF Whole, SinceCrash, LaterIsHigher
<1> HIDE DEF d, f
<1>a. /\ Append(d, f) # <<>> /\ Consecutive(Append(d, f)) /\ LastSeqOf(Append(d, f)) = f.seq
      /\ LastN(Capacity, Append(LastN(Capacity, d), f)) = LastN(Capacity, Append(d, f))
      /\ LastN(Capacity, Append(d, f)) # <<>>
  BY <1>1, <1>d, AppendedStream
<1> HIDE DEF e
<1>3. /\ e # <<>> /\ Consecutive(e) /\ LastSeqOf(e) = f.seq
      /\ LastN(Capacity, Append(LastN(Capacity, d), f)) = LastN(Capacity, e)
      /\ LastN(Capacity, e) # <<>>
  BY <1>a, <1>d
<1>4. ring'.events = LastN(Capacity, e) /\ ring'.nextSeq = LastSeqOf(e) + 1 /\ ring'.events # <<>>
  BY <1>1, <1>2, <1>3
<1>5. RingIsEnd'
  BY <1>4 DEF RingIsEnd, e
<1>6. Consecutive(Durable)'
  BY <1>3 DEF e, Consecutive
<1>h. /\ emitted' \in Seq(Frame) /\ Len(emitted') = Len(emitted) + 1 /\ Len(emitted) \in Nat
      /\ emitted'[Len(emitted) + 1] = f /\ \A i \in 1..Len(emitted) : emitted'[i] = emitted[i]
  BY <1>t, <1>1, <1>2, AppendProperties
<1>n. LastSeqOf(d) \in Nat /\ \A i \in 1..Len(emitted) : emitted[i].seq \in Nat
  <2>1. f.seq \in Nat /\ ring.nextSeq \in Nat
    BY <1>1, <1>2 DEF Frame
  <2>2. d = <<>> => LastSeqOf(d) = 0
    BY DEF LastSeqOf
  <2>3. d # <<>> => Len(d) \in 1..Len(d)
    BY <1>d
  <2>4. d # <<>> => LastSeqOf(d) \in Nat
    BY <1>d, <2>3, LastIsHighest
  <2>5. \A i \in 1..Len(emitted) : emitted[i] \in Frame
    BY <1>t
  <2> QED
    BY <2>2, <2>4, <2>5 DEF Frame
<1>7. ASSUME NEW i \in crashed + 1..Len(emitted')
      PROVE  emitted'[i].seq + (Len(emitted') - i) = LastSeqOf(e)
  <2>c. crashed \in Nat
    BY <1>t
  <2>1. CASE i = Len(emitted) + 1
    <3>1. emitted'[i].seq = LastSeqOf(d) + 1 /\ Len(emitted') - i = 0 /\ LastSeqOf(e) = LastSeqOf(d) + 1
      BY <1>1, <1>3, <1>h, <2>1
    <3> QED
      BY <1>n, <3>1
  <2>2. CASE i # Len(emitted) + 1
    <3>1. i \in crashed + 1..Len(emitted) /\ i \in 1..Len(emitted)
      BY <1>h, <2>c, <2>2
    <3>2. emitted[i].seq + (Len(emitted) - i) = LastSeqOf(d) /\ emitted'[i] = emitted[i]
      BY <1>h, <1>s, <3>1
    <3>3. Len(emitted') - i = (Len(emitted) - i) + 1 /\ LastSeqOf(e) = LastSeqOf(d) + 1 /\ i \in Nat
      BY <1>1, <1>3, <1>h, <3>1
    <3> QED
      BY <1>h, <1>n, <3>1, <3>2, <3>3
  <2> QED
    BY <2>1, <2>2
<1>8. SinceCrash'
  BY <1>2, <1>7 DEF SinceCrash, e
<1>9. ASSUME NEW k \in 1..Len(e), NEW j \in 1..Len(emitted'), e[k].id < j
      PROVE  e[k].seq < emitted'[j].seq
  <2>1. /\ Len(e) = Len(d) + 1 /\ e[Len(d) + 1] = f /\ \A i \in 1..Len(d) : e[i] = d[i] /\ Len(d) \in Nat
    BY <1>1, <1>d, AppendProperties
  <2>2. CASE k = Len(d) + 1
    <3>1. e[k].id = Len(emitted) + 1 /\ j <= Len(emitted) + 1
      BY <1>2, <1>h, <2>1, <2>2
    <3> QED
      BY <1>9, <1>h, <3>1
  <2>3. CASE k \in 1..Len(d)
    <3>0. e[k] = d[k]
      BY <2>1, <2>3
    <3>1. CASE j \in 1..Len(emitted)
      BY <1>9, <1>h, <1>s, <2>3, <3>0, <3>1
    <3>2. CASE j = Len(emitted) + 1
      <4>1. d[k].seq <= LastSeqOf(d) /\ d[k].seq \in Nat
        BY <1>d, <2>3, LastIsHighest
      <4>2. emitted'[j].seq = LastSeqOf(d) + 1
        BY <1>1, <1>h, <3>2
      <4> QED
        BY <1>n, <3>0, <4>1, <4>2
    <3> QED
      BY <1>h, <3>1, <3>2
  <2>4. k = Len(d) + 1 \/ k \in 1..Len(d)
    BY <2>1
  <2> QED
    BY <2>2, <2>3, <2>4
<1>10. LaterIsHigher'
  BY <1>9 DEF LaterIsHigher, e
<1> QED
  BY <1>5, <1>6, <1>8, <1>10

\* The invariant of the stream is kept.
LEMMA StreamInvNext == StreamInv /\ [Next]_vars => StreamInv'
<1> SUFFICES ASSUME StreamInv, [Next]_vars PROVE StreamInv'
  OBVIOUS
<1>1. LogInv /\ LogInv' /\ IdsArePlaces /\ IdsArePlaces'
  BY LogInvNext, IdsStayPlaces DEF StreamInv
<1> SUFFICES ASSUME intact' PROVE Whole'
  BY <1>1, Zenon DEF StreamInv
<1>2. intact /\ FileInv /\ Happens
  BY <1>1, IntactSteps, Zenon DEF StreamInv, Whole
<1>u. Whole
  BY <1>2, Zenon DEF StreamInv
<1>3. FileInv'
  BY <1>2, FileInvNext
<1>t. LogTypeOK /\ Durable \in Seq(Frame) /\ Durable' \in Seq(Frame) /\ Len(emitted) \in Nat
  <2>0. emitted \in Seq(Frame)
    BY <1>1 DEF LogInv, LogTypeOK
  <2>1. LogTypeOK /\ LogTypeOK'
    BY <1>1 DEF LogInv
  <2>2. Durable' \in Seq(Frame)
    <3>1. disk'.lines \in Seq(Frame) /\ writing' \in Seq(Frame) /\ pending' \in Seq(Frame)
      BY <2>1 DEF LogTypeOK, DiskState
    <3> QED
      BY <3>1 DEF Durable
  <2>3. Durable \in Seq(Frame)
    BY <2>1, DurableType
  <2>4. Len(emitted) \in Nat
    BY <2>0
  <2> QED
    BY <2>1, <2>2, <2>3, <2>4
<1> DEFINE d == Durable  e == Durable'
<1>4. CASE AppendFrame /\ e = Append(d, NextFrame)
  <2>1. Consecutive(Durable)' /\ RingIsEnd' /\ SinceCrash' /\ LaterIsHigher'
    BY <1>1, <1>4, <1>u, EmitKeepsStream
  <2> QED
    BY <1>3, <2>1 DEF Whole
<1>5. CASE /\ ~(Emit \/ Delete \/ Crash)
           /\ Kept(d, e, Len(d)) /\ emitted' = emitted /\ crashed' = crashed
  <2>1. RingIsEnd'
    BY <1>2, <1>5, <1>t, <1>u, RingKept
  <2>d. d \in Seq(Frame) /\ e \in Seq(Frame) /\ Consecutive(d) /\ Len(d) \in 0..Len(d)
    BY <1>t, <1>u DEF Whole
  <2>4. LaterIsHigher'
    BY <1>5, <1>t, <1>u, <2>d, KeptIsLower DEF Whole
  <2> HIDE DEF d, e
  <2>2. Consecutive(e) /\ LastSeqOf(e) = LastSeqOf(d)
    BY <1>5, <2>d, KeptStream, KeptAll
  <2>3. SinceCrash'
    BY <1>5, <1>u, <2>2 DEF Whole, SinceCrash, d, e
  <2>5. Consecutive(Durable)'
    BY <2>2 DEF e, Consecutive
  <2> QED
    BY <1>3, <2>1, <2>3, <2>4, <2>5 DEF Whole
<1>6. ASSUME Crash, emitted' = emitted, crashed' = Len(emitted), NEW m \in 0..Len(d), Kept(d, e, m)
      PROVE  Whole'
  <2>1. RingIsEnd'
    BY <1>6 DEF Crash, FreshProcess, RingIsEnd, NoStream
  <2>d. d \in Seq(Frame) /\ e \in Seq(Frame) /\ Consecutive(d) /\ m \in 0..Len(d) /\ Kept(d, e, m)
    BY <1>t, <1>u, <1>6 DEF Whole
  <2>2. LaterIsHigher'
    BY <1>6, <1>t, <1>u, KeptIsLower DEF Whole
  <2>3. SinceCrash'
    <3>1. crashed' + 1..Len(emitted') = {}
      BY <1>6, <1>t
    <3> QED
      BY <3>1 DEF SinceCrash
  <2> HIDE DEF d, e
  <2>4. Consecutive(e)
    BY <2>d, KeptStream
  <2>5. Consecutive(Durable)'
    BY <2>4 DEF e, Consecutive
  <2> QED
    BY <1>3, <2>1, <2>2, <2>3, <2>5 DEF Whole
<1>7. \/ AppendFrame /\ e = Append(d, NextFrame)
      \/ /\ ~(Emit \/ Delete \/ Crash)
         /\ Kept(d, e, Len(d)) /\ emitted' = emitted /\ crashed' = crashed
      \/ /\ Crash /\ emitted' = emitted /\ crashed' = Len(emitted)
         /\ \E m \in 0..Len(d) : Kept(d, e, m)
  BY <1>2, DurableSteps
<1> HIDE DEF d, e
<1> QED
  BY <1>4, <1>5, <1>6, <1>7

\* The stream of a daemon that starts on no file is empty.
LEMMA StreamInvInit == Init => StreamInv
<1> SUFFICES ASSUME Init PROVE StreamInv
  OBVIOUS
<1>1. LogInv /\ FileInv
  BY LogInvInit, FileInvInit
<1>2. disk.lines = <<>> /\ writing = <<>> /\ pending = <<>> /\ emitted = <<>> /\ ring = NoStream
      /\ crashed = 0
  BY DEF Init, NoFile
<1>3. Durable = <<>>
  BY <1>2, ConcatEmptySeq DEF Durable
<1>z. Len(<<>>) = 0 /\ 1..0 = {}
  OBVIOUS
<1>4. Consecutive(Durable)
  BY <1>3, <1>z DEF Consecutive
<1>5. RingIsEnd
  BY <1>2, <1>3 DEF RingIsEnd, NoStream
<1>6. SinceCrash /\ LaterIsHigher /\ IdsArePlaces
  BY <1>2, <1>3, <1>z DEF SinceCrash, LaterIsHigher, IdsArePlaces
<1> QED
  BY <1>1, <1>4, <1>5, <1>6 DEF StreamInv, Whole

----------------------------------------------------------------------------
(* What the log promises *)

\* A live ring is what a hydrate() after a graceful restart restores
\* (TailHoldsRing), for every capacity, compaction size and number of callers.
THEOREM RingSurvivesRestart == Spec => []TailHoldsRing
<1>1. StreamInv => TailHoldsRing
  <2>1. RingIsEnd /\ ring.events # <<>> => ring.events = LastN(Capacity, Durable)
    BY DEF RingIsEnd
  <2> QED
    BY <2>1, Zenon DEF StreamInv, Whole, TailHoldsRing
<1> QED
  BY <1>1, StreamInvInit, StreamInvNext, PTL DEF Spec

\* A number given twice was lost in a crash (SeqNeverReused): restarts, disposals
\* and compactions repeat none, and a number the log still has is not given again.
THEOREM NumbersAreUnique == Spec => []SeqNeverReused
<1>1. ASSUME StreamInv PROVE SeqNeverReused
  <2> SUFFICES ASSUME intact, NEW i \in 1..Len(emitted), NEW j \in 1..Len(emitted),
                      i < j, emitted[i].seq = emitted[j].seq
               PROVE  i <= crashed /\ \A k \in 1..Len(Durable) : Durable[k] # emitted[i]
    BY Zenon DEF SeqNeverReused
  <2>1. LogTypeOK /\ IdsArePlaces /\ SinceCrash /\ LaterIsHigher
    BY <1>1, Zenon DEF StreamInv, Whole, LogInv
  <2>2. /\ emitted \in Seq(Frame) /\ crashed \in Nat /\ Len(emitted) \in Nat /\ i \in Nat /\ j \in Nat
        /\ i <= Len(emitted) /\ j <= Len(emitted)
    BY <2>1 DEF LogTypeOK
  <2>3. emitted[i].seq \in Nat /\ emitted[i].id = i
    <3>1. emitted[i] \in Frame
      BY <2>2
    <3> QED
      BY <2>1, <3>1 DEF IdsArePlaces, Frame
  <2>4. i <= crashed
    <3> SUFFICES ASSUME crashed < i PROVE FALSE
      BY <2>2
    <3>1. i \in crashed + 1..Len(emitted) /\ j \in crashed + 1..Len(emitted)
      BY <2>2
    <3>2. emitted[i].seq + (Len(emitted) - i) = emitted[j].seq + (Len(emitted) - j)
      BY <2>1, <3>1 DEF SinceCrash
    <3> DEFINE a == emitted[i].seq  b == emitted[j].seq
    <3>3. a \in Nat /\ a = b /\ a + (Len(emitted) - i) = b + (Len(emitted) - j)
      BY <2>3, <3>2
    <3> HIDE DEF a, b
    <3> QED
      BY <2>2, <3>3
  <2>5. ASSUME NEW k \in 1..Len(Durable), Durable[k] = emitted[i] PROVE FALSE
    <3>1. Durable[k].id < j
      BY <2>3, <2>5
    <3>2. Durable[k].seq < emitted[j].seq
      BY <2>1, <3>1 DEF LaterIsHigher
    <3> DEFINE a == emitted[i].seq  b == emitted[j].seq
    <3>3. a \in Nat /\ a = b /\ a < b
      BY <2>3, <2>5, <3>2
    <3> HIDE DEF a, b
    <3> QED
      BY <3>3
  <2> QED
    BY <2>4, <2>5
<1> QED
  BY <1>1, StreamInvInit, StreamInvNext, PTL DEF Spec

\* The ring's frames have consecutive numbers up to the last one given.
LEMMA RingInARow ==
    ASSUME LogTypeOK, Whole, ring.events # <<>>
    PROVE  /\ Len(ring.events) \in Nat /\ Len(ring.events) > 0 /\ ring.events[1].seq \in Nat
           /\ \A i \in 1..Len(ring.events) : ring.events[i].seq = ring.events[1].seq + (i - 1)
           /\ ring.nextSeq = ring.events[1].seq + Len(ring.events)
<1>t. Durable \in Seq(Frame) /\ ring.events \in Seq(Frame) /\ RingIsEnd /\ Consecutive(Durable)
  BY DurableType DEF Whole, LogTypeOK
<1> DEFINE w == ring.events  d == Durable  b == w[1].seq
<1>2. w = LastN(Capacity, d) /\ ring.nextSeq = LastSeqOf(d) + 1
  BY <1>t DEF RingIsEnd
<1>k. w \in Seq(Frame) /\ d \in Seq(Frame) /\ Consecutive(d) /\ w # <<>>
  BY <1>t
<1> HIDE DEF w, d
<1>4. /\ Len(w) = IF Len(d) > Capacity THEN Capacity ELSE Len(d)
      /\ \A i \in 1..Len(w) : w[i] = d[Len(d) - Len(w) + i]
  BY <1>2, <1>k, LastNElements, SizeAssumption
<1>n. Len(w) \in Nat /\ Len(d) \in Nat /\ Len(w) > 0 /\ Len(w) <= Len(d) /\ d # <<>>
  <2>1. Len(w) \in Nat /\ Len(d) \in Nat /\ Len(w) > 0
    BY <1>k, EmptySeq
  <2>2. Len(w) <= Len(d)
    BY <1>4, <2>1, SizeAssumption
  <2>3. Len(d) # 0
    BY <2>1, <2>2
  <2> QED
    BY <2>1, <2>2, <2>3, EmptySeq
<1>5. Kept(d, w, Len(d))
  <2>1. Capacity \in Nat /\ (Len(w) = Len(d) \/ Len(w) >= Capacity)
    BY <1>4, <1>n, SizeAssumption
  <2>2. Len(d) \in 0..Len(d)
    BY <1>n
  <2> QED
    BY <1>4, <1>n, <2>1, <2>2 DEF Kept
<1>6. \A i \in 1..Len(w) : w[i].seq = b + (i - 1)
  <2>1. Len(d) \in 0..Len(d)
    BY <1>n
  <2>2. Consecutive(w)
    BY <1>5, <1>k, <2>1, KeptStream
  <2> QED
    BY <2>2 DEF Consecutive
<1>7. LastSeqOf(d) = b + (Len(w) - 1)
  <2>1. LastSeqOf(w) = LastSeqOf(d)
    BY <1>5, <1>k, KeptAll
  <2>2. Len(w) \in 1..Len(w)
    BY <1>n
  <2> QED
    BY <1>k, <1>6, <2>1, <2>2 DEF LastSeqOf
<1>8. b \in Nat
  <2>1. 1 \in 1..Len(w)
    BY <1>n
  <2>2. w[1] \in Frame
    BY <1>k, <2>1
  <2> QED
    BY <2>2 DEF Frame
<1>9. ring.nextSeq = b + Len(w)
  <2> HIDE DEF b
  <2> QED
    BY <1>2, <1>7, <1>8, <1>n
<1> QED
  BY <1>6, <1>8, <1>9, <1>n DEF w

\* A replay() of an intact stream that does not ask for a reset returns every frame
\* after the cursor, once and in order (ReplayHasNoHoles), through crashes and torn
\* tails too.
THEOREM ReplaysAreComplete == Spec => []ReplayHasNoHoles
<1>1. ASSUME StreamInv PROVE ReplayHasNoHoles
  <2> SUFFICES ASSUME intact, NEW afterSeq \in 0..MaxFrames, ~ReplayReset(afterSeq)
               PROVE  /\ \A s \in afterSeq + 1..ring.nextSeq - 1 :
                             \E i \in DOMAIN ReplayEvents(afterSeq) : ReplayEvents(afterSeq)[i].seq = s
                      /\ \A i, j \in DOMAIN ReplayEvents(afterSeq) :
                             i < j => ReplayEvents(afterSeq)[j].seq = ReplayEvents(afterSeq)[i].seq + (j - i)
    BY Zenon DEF ReplayHasNoHoles
  <2> DEFINE w == ring.events  b == w[1].seq  r == ReplayEvents(afterSeq)  n == Len(w)
  <2>a. afterSeq \in Nat
    BY BoundAssumption
  <2>i. LogTypeOK /\ Whole
    BY <1>1, Zenon DEF StreamInv, LogInv
  <2>w. w \in Seq(Frame) /\ RingIsEnd
    BY <2>i DEF Whole, LogTypeOK
  <2>1. /\ DOMAIN r = {k \in DOMAIN w : w[k].seq > afterSeq}
        /\ \A i \in DOMAIN r : r[i] = w[i]
    BY DEF ReplayEvents
  <2>2. CASE w = <<>>
    <3>1. ring.nextSeq = 1 /\ DOMAIN w = {}
      BY <2>2, <2>w DEF RingIsEnd
    <3>2. afterSeq + 1..ring.nextSeq - 1 = {}
      BY <2>a, <3>1
    <3>3. DOMAIN r = {}
      BY <2>1, <3>1
    <3> QED
      BY <3>2, <3>3
  <2>3. CASE w # <<>>
    <3>1. /\ n \in Nat /\ n > 0 /\ b \in Nat /\ ring.nextSeq = b + n
          /\ \A i \in 1..n : w[i].seq = b + (i - 1)
      BY <2>i, <2>3, RingInARow
    <3>2. ~(afterSeq < b - 1) /\ DOMAIN w = 1..n
      BY <2>3, <2>w DEF ReplayReset
    <3> HIDE DEF w, b, r, n
    <3>3. ASSUME NEW s \in afterSeq + 1..ring.nextSeq - 1 PROVE \E i \in DOMAIN r : r[i].seq = s
      <4> DEFINE i == s - b + 1
      <4>1. i \in 1..n /\ b + (i - 1) = s /\ s > afterSeq
        BY <2>a, <3>1, <3>2
      <4> HIDE DEF i
      <4>2. w[i].seq = s
        BY <3>1, <4>1
      <4> QED
        BY <2>1, <3>2, <4>1, <4>2
    <3>4. ASSUME NEW i \in DOMAIN r, NEW j \in DOMAIN r PROVE r[j].seq = r[i].seq + (j - i)
      <4>1. i \in 1..n /\ j \in 1..n /\ r[i] = w[i] /\ r[j] = w[j]
        BY <2>1, <3>2
      <4>2. r[i].seq = b + (i - 1) /\ r[j].seq = b + (j - 1)
        BY <3>1, <4>1
      <4> QED
        BY <3>1, <4>1, <4>2
    <3> QED
      BY <3>3, <3>4 DEF r
  <2> QED
    BY <2>2, <2>3
<1> QED
  BY <1>1, StreamInvInit, StreamInvNext, PTL DEF Spec

\* A step that loses frames is a Shrink of the abstract stream, or not seen.
LEMMA ShrinkStep ==
    ASSUME NEW d \in Seq(Frame), NEW e \in Seq(Frame), NEW m \in 0..Len(d), Kept(d, e, m), Consecutive(d)
    PROVE  LET v == LastN(Capacity, d)  u == LastN(Capacity, e)
           IN  \/ u = v
               \/ /\ LastSeqOf(u) < LastSeqOf(v)
                  /\ \A i \in 1..Len(u) :
                       /\ u[i].seq = u[1].seq + i - 1
                       /\ \A j \in 1..Len(v) : u[i].seq = v[j].seq => u[i] = v[j]
<1> DEFINE v == LastN(Capacity, d)  u == LastN(Capacity, e)
           w == IF m > Capacity THEN Capacity ELSE m
           x == IF Len(d) > Capacity THEN Capacity ELSE Len(d)
<1>0. Len(d) \in Nat /\ Len(d) \in 0..Len(d) /\ m \in Nat /\ m <= Len(d)
  OBVIOUS
<1>k. Kept(d, d, Len(d))
  BY <1>0, KeptPrefix
<1>1. /\ u \in Seq(Frame) /\ Len(u) = w /\ w \in Nat /\ w <= m /\ (m > 0 => w > 0)
      /\ \A i \in 1..w : u[i] = d[m - w + i]
  BY KeptWindow
<1>2. /\ v \in Seq(Frame) /\ Len(v) = x /\ x \in Nat /\ x <= Len(d) /\ (Len(d) > 0 => x > 0)
      /\ \A i \in 1..x : v[i] = d[Len(d) - x + i]
  BY <1>0, <1>k, KeptWindow
<1>3. CASE m = Len(d)
  BY <1>3, KeptAll
<1>4. CASE m # Len(d)
  <2> HIDE DEF u, v, w, x
  <2>1. m < Len(d) /\ Len(d) > 0 /\ 1 \in 1..Len(d)
    BY <1>0, <1>4
  <2> DEFINE b == d[1].seq
  <2>2. b \in Nat \ {0}
    <3>1. d[1] \in Frame
      BY <2>1
    <3> QED
      BY <3>1 DEF Frame
  <2>3. \A i \in 1..Len(d) : d[i].seq = b + (i - 1)
    BY DEF Consecutive
  <2> HIDE DEF b
  <2>4. \A i, j \in 1..Len(d) : d[i].seq = d[j].seq => i = j
    BY <1>0, <2>2, <2>3
  <2>5. LastSeqOf(v) = b + (Len(d) - 1)
    <3>1. x \in 1..x /\ Len(d) - x + x = Len(d) /\ Len(d) \in 1..Len(d)
      BY <1>0, <1>2, <2>1
    <3>2. v # <<>>
      BY <1>2, <3>1, EmptySeq
    <3>3. v[Len(v)] = d[Len(d)]
      BY <1>2, <3>1
    <3> QED
      BY <2>3, <3>1, <3>2, <3>3 DEF LastSeqOf
  <2>6. LastSeqOf(u) < LastSeqOf(v)
    <3>1. CASE m = 0
      <4>1. Len(u) = 0
        BY <1>1, <3>1
      <4>2. LastSeqOf(u) = 0
        BY <1>1, <4>1, EmptySeq DEF LastSeqOf
      <4> QED
        BY <1>0, <2>1, <2>2, <2>5, <4>2
    <3>2. CASE m # 0
      <4>1. w \in 1..w /\ m - w + w = m /\ m \in 1..Len(d)
        BY <1>0, <1>1, <2>1, <3>2
      <4>2. u # <<>>
        BY <1>1, <4>1, EmptySeq
      <4>3. u[Len(u)] = d[m]
        BY <1>1, <4>1
      <4>4. LastSeqOf(u) = b + (m - 1)
        BY <2>3, <4>1, <4>2, <4>3 DEF LastSeqOf
      <4> QED
        BY <1>0, <2>1, <2>2, <2>5, <4>4
    <3> QED
      BY <3>1, <3>2
  <2>7. ASSUME NEW i \in 1..Len(u)
        PROVE  /\ u[i].seq = u[1].seq + i - 1
               /\ \A j \in 1..Len(v) : u[i].seq = v[j].seq => u[i] = v[j]
    <3>1. m - w + i \in 1..Len(d) /\ m - w + 1 \in 1..Len(d) /\ i \in 1..w /\ 1 \in 1..w
      BY <1>0, <1>1
    <3>2. u[i] = d[m - w + i] /\ u[1] = d[m - w + 1]
      BY <1>1, <3>1
    <3> DEFINE p == m - w + i  q == m - w + 1
    <3>3. p \in 1..Len(d) /\ q \in 1..Len(d) /\ p - 1 = (q - 1) + (i - 1) /\ p \in Nat /\ q \in Nat /\ i \in Nat
      BY <1>0, <1>1, <3>1
    <3> HIDE DEF p, q
    <3>4. d[p].seq = b + (p - 1) /\ d[q].seq = b + (q - 1)
      BY <2>3, <3>3
    <3>5. b + (p - 1) = b + (q - 1) + i - 1
      BY <2>2, <3>3
    <3>6. u[i].seq = u[1].seq + i - 1
      BY <3>2, <3>4, <3>5 DEF p, q
    <3>7. ASSUME NEW j \in 1..Len(v), u[i].seq = v[j].seq PROVE u[i] = v[j]
      <4> DEFINE k == Len(d) - x + j
      <4>1. k \in 1..Len(d)
        BY <1>0, <1>2
      <4>2. v[j] = d[k]
        BY <1>2
      <4> HIDE DEF k
      <4>3. p = k
        BY <2>4, <3>2, <3>3, <3>7, <4>1, <4>2 DEF p
      <4> QED
        BY <3>2, <4>2, <4>3 DEF p
    <3> QED
      BY <3>6, <3>7
  <2> QED
    BY <2>6, <2>7 DEF u, v
<1> QED
  BY <1>3, <1>4

\* While it is intact the log is a bounded window of consecutive frames that only a
\* crash shortens (ImplementsStream): what is durable, cut to the capacity, with
\* intact for the promise, refines PushStream.
THEOREM LogImplementsStream == Spec => ImplementsStream
<1>1. Init => Stream!Init
  <2> SUFFICES ASSUME Init PROVE LastN(Capacity, Durable) = <<>> /\ intact = TRUE
    BY DEF Stream!Init
  <2>1. disk.lines = <<>> /\ writing = <<>> /\ pending = <<>>
    BY DEF Init, NoFile
  <2>2. Durable = <<>>
    BY <2>1, ConcatEmptySeq DEF Durable
  <2> QED
    BY <2>2, EmptyWindow DEF Init
<1>2. ASSUME StreamInv, [Next]_vars, intact'
      PROVE  intact /\ (LastN(Capacity, Durable)' = LastN(Capacity, Durable) \/ Stream!Grow \/ Stream!Shrink)
  <2> DEFINE d == Durable  e == Durable'  f == NextFrame  v == LastN(Capacity, d)  u == LastN(Capacity, e)
  <2>i. intact /\ FileInv /\ Happens
    BY <1>2, IntactSteps, Zenon DEF StreamInv, Whole
  <2>w. LogTypeOK /\ Whole
    BY <1>2, <2>i, Zenon DEF StreamInv, LogInv
  <2>t. d \in Seq(Frame) /\ e \in Seq(Frame) /\ Consecutive(d)
    <3>1. StreamInv'
      BY <1>2, StreamInvNext
    <3>2. LogTypeOK'
      BY <3>1 DEF StreamInv, LogInv
    <3>3. disk'.lines \in Seq(Frame) /\ writing' \in Seq(Frame) /\ pending' \in Seq(Frame)
      BY <3>2 DEF LogTypeOK, DiskState
    <3>4. e \in Seq(Frame)
      BY <3>3 DEF Durable
    <3> QED
      BY <2>w, <3>4, DurableType DEF Whole
  <2>p. LastN(Capacity, Durable)' = u
    OBVIOUS
  <2>l. \A w \in Seq(Frame) : Stream!LastSeq(w) = LastSeqOf(w)
    BY DEF Stream!LastSeq, LastSeqOf
  <2>v. v \in Seq(Frame) /\ u \in Seq(Frame) /\ LastSeqOf(v) = LastSeqOf(d)
    <3> HIDE DEF d, e
    <3>1. Len(d) \in 0..Len(d) /\ Len(d) <= Len(d)
      BY <2>t
    <3>2. Kept(d, v, Len(d))
      <4>1. v \in Seq(Frame) /\ Len(v) = (IF Len(d) > Capacity THEN Capacity ELSE Len(d))
            /\ \A i \in 1..Len(v) : v[i] = d[Len(d) - Len(v) + i]
        BY <2>t, LastNElements, SizeAssumption
      <4>2. Capacity \in Nat /\ Len(d) \in Nat
        BY <2>t, SizeAssumption
      <4> HIDE DEF v
      <4>3. Len(v) <= Len(d) /\ (Len(v) = Len(d) \/ Len(v) >= Capacity)
        BY <4>1, <4>2
      <4> QED
        BY <3>1, <4>1, <4>3 DEF Kept
    <3>3. v \in Seq(Frame) /\ u \in Seq(Frame)
      BY <2>t, LastNElements, SizeAssumption
    <3> HIDE DEF v, u
    <3> QED
      BY <2>t, <3>2, <3>3, KeptAll
  <2>1. CASE AppendFrame /\ e = Append(d, f)
    <3>1. f \in Frame /\ f.seq = LastSeqOf(d) + 1
      BY <1>2, <2>1, <2>w, NextNumber
    <3>2. f = [seq |-> Stream!LastSeq(v) + 1, id |-> Len(emitted) + 1]
      <4>1. f = [seq |-> ring.nextSeq, id |-> Len(emitted) + 1]
        BY DEF NextFrame
      <4>2. f.seq = ring.nextSeq
        BY <4>1
      <4>3. f.seq = Stream!LastSeq(v) + 1
        BY <2>l, <2>v, <3>1
      <4> QED
        BY <4>1, <4>2, <4>3
    <3>3. Len(emitted) + 1 \in 1..MaxFrames
      <4>1. Len(emitted) < MaxFrames /\ emitted \in Seq(Frame)
        BY <2>1, <2>w DEF AppendFrame, LogTypeOK
      <4> QED
        BY <4>1, BoundAssumption
    <3>4. u = LastN(Capacity, Append(v, f))
      <4> HIDE DEF d, e, f
      <4> QED
        BY <2>1, <2>t, <3>1, AppendedStream
    <3>5. u = Stream!LastN(Capacity, Append(v, [seq |-> Stream!LastSeq(v) + 1, id |-> Len(emitted) + 1]))
      BY <3>2, <3>4 DEF Stream!LastN, LastN
    <3>6. Stream!Grow
      BY <3>3, <3>5 DEF Stream!Grow
    <3> QED
      BY <2>i, <3>6
  <2>2. ASSUME NEW m \in 0..Len(d), Kept(d, e, m) PROVE u = v \/ Stream!Shrink
    <3>1. \/ u = v
          \/ /\ LastSeqOf(u) < LastSeqOf(v)
             /\ \A i \in 1..Len(u) :
                  /\ u[i].seq = u[1].seq + i - 1
                  /\ \A j \in 1..Len(v) : u[i].seq = v[j].seq => u[i] = v[j]
      <4> HIDE DEF d, e
      <4> QED
        BY <2>2, <2>t, ShrinkStep
    <3> QED
      BY <2>l, <2>v, <3>1 DEF Stream!Shrink
  <2>3. Len(d) \in 0..Len(d)
    BY <2>t
  <2>4. CASE \E m \in 0..Len(d) : Kept(d, e, m)
    BY <2>2, <2>4, <2>i, <2>p
  <2>5. \/ AppendFrame /\ e = Append(d, f)
        \/ Kept(d, e, Len(d))
        \/ \E m \in 0..Len(d) : Kept(d, e, m)
    BY <2>i, DurableSteps
  <2> HIDE DEF d, e, f, u, v
  <2> QED
    BY <2>1, <2>3, <2>4, <2>5
<1>3. ASSUME StreamInv, [Next]_vars
      PROVE  [Stream!Next]_<<LastN(Capacity, Durable), intact>>
  <2>1. intact' \in BOOLEAN /\ intact \in BOOLEAN
    BY <1>3, StreamInvNext DEF StreamInv, LogInv, LogTypeOK
  <2>2. CASE ~intact'
    BY <2>1, <2>2 DEF Stream!Next, Stream!Break
  <2>3. CASE intact'
    <3>1. intact /\ (LastN(Capacity, Durable)' = LastN(Capacity, Durable) \/ Stream!Grow \/ Stream!Shrink)
      BY <1>2, <1>3, <2>3
    <3>2. intact' = intact
      BY <2>1, <2>3, <3>1
    <3> QED
      BY <2>3, <3>1, <3>2 DEF Stream!Next
  <2> QED
    BY <2>2, <2>3
<1> QED
  BY <1>1, <1>3, StreamInvInit, StreamInvNext, PTL DEF Spec, ImplementsStream, Stream!Spec
=============================================================================
