---------------------------- MODULE LogStreamProofs ----------------------------
(***************************************************************************)
(* Proofs about LogStream, for any writers, clients, lines, clocks and     *)
(* capacity.  The table is sorted by time, and by number for each writer   *)
(* (StoredInv).  What a subscribed client has been sent, and is going to   *)
(* be, is a part of the table followed by a part of what was published     *)
(* since it subscribed: the numbers up to the one that each writer was     *)
(* then at, and the numbers from there on, each at most once (LiveInv).    *)
(***************************************************************************)
EXTENDS LogStream, SequenceTheorems, FiniteSetTheorems, TLAPS

(* The lines of each writer are in their order, and each comes once.       *)
InOrder(s) == \A i, k \in 1 .. Len(s) : i < k /\ s[i].by = s[k].by => s[i].nr < s[k].nr

(* No line comes before it is stamped.                                     *)
Stamped(s) == \A i \in 1 .. Len(s) : s[i].nr <= line[s[i].by].nr

StoredInv ==
  /\ InOrder(stored) /\ Stamped(stored)
  /\ \A i, k \in 1 .. Len(stored) : i < k => stored[i].ts <= stored[k].ts
  /\ \A i \in 1 .. Len(stored) :
       /\ stored[i].ts <= line[stored[i].by].ts
       /\ appending[stored[i].by] = "stamped" => stored[i].nr < line[stored[i].by].nr
  /\ \A w \in Writers : line[w].ts <= clock /\ line[w].by = w

(* A part of the table that has been read, with what is due of it.         *)
ReplayInv(c, s) ==
  /\ InOrder(s) /\ Stamped(s)
  /\ \A l \in due[c] : Published(l.by, l.nr) /\ \E i \in 1 .. Len(s) : s[i] = l

Missed(c, w, n) == \E l \in dropped[c] : l.by = w /\ l.nr = n

(* The first h entries of s are of the table, the others were published.   *)
LiveInv(c, s, h) ==
  /\ \A i, k \in 1 .. Len(s) :
       i < k /\ s[i].by = s[k].by /\ (k <= h \/ h < i) => s[i].nr < s[k].nr
  /\ \A i \in 1 .. Len(s) : i <= h => s[i].nr <= begun[c][s[i].by]
  /\ \A i \in 1 .. Len(s) : h < i =>
       /\ begun[c][s[i].by] <= s[i].nr /\ Published(s[i].by, s[i].nr)
       /\ \A l \in due[c] : l.by = s[i].by => l.nr # s[i].nr
  /\ \A l \in due[c] : Published(l.by, l.nr) /\ \E i \in 1 .. Len(s) : i <= h /\ s[i] = l
  /\ \A w \in Writers : \A n \in (begun[c][w] + 1) .. line[w].nr :
       Published(w, n) => Missed(c, w, n)
                          \/ \E i \in 1 .. Len(s) : h < i /\ s[i].by = w /\ s[i].nr = n

ClientInv(c) ==
  /\ phase[c] = "live" <=> c \in streams
  /\ phase[c] = "live" => c \notin closed
  /\ phase[c] # "live" => buf[c] = <<>>
  /\ phase[c] \notin {"replayed", "live"} => received[c] = <<>>
  /\ \A w \in Writers : begun[c][w] <= line[w].nr
  /\ phase[c] = "listed" => ReplayInv(c, history[c])
  /\ phase[c] = "replayed" => ReplayInv(c, received[c])
  /\ phase[c] = "live" => \E h \in 0 .. Len(Sent(c)) : LiveInv(c, Sent(c), h)

IInv == TypeOK /\ StoredInv /\ \A c \in Clients : ClientInv(c)

-----------------------------------------------------------------------------
(* Sequences.                                                              *)

LEMMA InsertAtParts ==
  ASSUME NEW S, NEW s \in Seq(S), NEW i \in 1 .. Len(s) + 1, NEW e \in S
  PROVE  /\ InsertAt(s, i, e) \in Seq(S) /\ Len(InsertAt(s, i, e)) = Len(s) + 1
         /\ \A j \in 1 .. Len(s) + 1 :
              /\ j < i => InsertAt(s, i, e)[j] = s[j]
              /\ j = i => InsertAt(s, i, e)[j] = e
              /\ j > i => InsertAt(s, i, e)[j] = s[j - 1]
<1> DEFINE front == SubSeq(s, 1, i - 1)
           back  == SubSeq(s, i, Len(s))
<1>0. Len(s) \in Nat /\ \A j \in 1 .. Len(s) : s[j] \in S
  BY LenProperties
<1>1. /\ front \in Seq(S) /\ Len(front) = i - 1 /\ \A j \in 1 .. i - 1 : front[j] = s[j]
  <2>1. \A j \in 1 .. i - 1 : s[j] \in S
    BY <1>0
  <2> QED BY <1>0, <2>1, SubSeqProperties
<1>2. /\ back \in Seq(S) /\ Len(back) = Len(s) - i + 1
      /\ \A j \in 1 .. Len(s) - i + 1 : back[j] = s[i + j - 1]
  <2>1. \A j \in i .. Len(s) : s[j] \in S
    BY <1>0
  <2> QED BY <1>0, <2>1, SubSeqProperties
<1>3. <<e>> \in Seq(S) /\ Len(<<e>>) = 1 /\ <<e>>[1] = e
  OBVIOUS
<1> HIDE DEF front, back
<1> DEFINE left == front \o <<e>>
<1>4. /\ left \in Seq(S) /\ Len(left) = i
      /\ \A j \in 1 .. i : left[j] = IF j <= i - 1 THEN front[j] ELSE <<e>>[j - (i - 1)]
  <2>1. /\ left \in Seq(S) /\ Len(left) = Len(front) + Len(<<e>>)
        /\ \A j \in 1 .. Len(front) + Len(<<e>>) :
             left[j] = IF j <= Len(front) THEN front[j] ELSE <<e>>[j - Len(front)]
    BY <1>1, <1>3, ConcatProperties
  <2>2. Len(front) = i - 1 /\ Len(front) + Len(<<e>>) = i
    BY <1>0, <1>1, <1>3
  <2> HIDE DEF left
  <2> QED BY <2>1, <2>2
<1> HIDE DEF left
<1>5. /\ left \o back \in Seq(S) /\ Len(left \o back) = Len(s) + 1
      /\ \A j \in 1 .. Len(s) + 1 :
           (left \o back)[j] = IF j <= i THEN left[j] ELSE back[j - i]
  <2>1. /\ left \o back \in Seq(S) /\ Len(left \o back) = Len(left) + Len(back)
        /\ \A j \in 1 .. Len(left) + Len(back) :
             (left \o back)[j] = IF j <= Len(left) THEN left[j] ELSE back[j - Len(left)]
    BY <1>2, <1>4, ConcatProperties
  <2>2. Len(left) = i /\ Len(left) + Len(back) = Len(s) + 1
    BY <1>0, <1>2, <1>4
  <2> QED BY <2>1, <2>2
<1>6. InsertAt(s, i, e) = left \o back
  BY DEF InsertAt, left, front, back
<1>7. ASSUME NEW j \in 1 .. Len(s) + 1
      PROVE  /\ j < i => (left \o back)[j] = s[j]
             /\ j = i => (left \o back)[j] = e
             /\ j > i => (left \o back)[j] = s[j - 1]
  <2>1. CASE j < i
    <3>1. left[j] = front[j] /\ front[j] = s[j]
      BY <1>1, <1>4, <1>0, <2>1
    <3> QED BY <1>0, <1>5, <2>1, <3>1
  <2>2. CASE j = i
    <3>1. left[j] = <<e>>[1]
      BY <1>0, <1>4, <2>2
    <3> QED BY <1>0, <1>3, <1>5, <2>2, <3>1
  <2>3. CASE j > i
    <3>1. j - i \in 1 .. Len(s) - i + 1 /\ i + (j - i) - 1 = j - 1
      BY <1>0, <2>3
    <3>2. back[j - i] = s[j - 1]
      BY <1>2, <3>1
    <3> QED BY <1>0, <1>5, <2>3, <3>2
  <2> QED BY <2>1, <2>2, <2>3
<1> QED BY <1>0, <1>5, <1>6, <1>7

LEMMA AppendParts ==
  ASSUME NEW S, NEW s \in Seq(S), NEW e \in S
  PROVE  /\ Append(s, e) \in Seq(S) /\ Len(Append(s, e)) = Len(s) + 1
         /\ \A i \in 1 .. Len(s) : Append(s, e)[i] = s[i]
         /\ Append(s, e)[Len(s) + 1] = e
OBVIOUS

LEMMA SentParts ==
  ASSUME TypeOK, NEW c \in Clients
  PROVE  /\ Sent(c) \in Seq(Lines) /\ Len(Sent(c)) = Len(received[c]) + Len(buf[c])
         /\ \A i \in 1 .. Len(Sent(c)) :
              Sent(c)[i] = IF i <= Len(received[c]) THEN received[c][i]
                           ELSE buf[c][i - Len(received[c])]
BY ConcatProperties DEF TypeOK, Sent

LEMMA InitInv == Init => IInv
<1> SUFFICES ASSUME Init PROVE IInv
  OBVIOUS
<1>1. TypeOK
  BY LogStreamAssumption DEF Init, TypeOK, Lines
<1>2. StoredInv
  BY LogStreamAssumption DEF Init, StoredInv, InOrder, Stamped
<1>3. \A c \in Clients : ClientInv(c)
  BY DEF Init, ClientInv
<1> QED BY <1>1, <1>2, <1>3 DEF IInv

-----------------------------------------------------------------------------
(* Clients that a step does not touch.                                     *)

LEMMA LinesTyped ==
  ASSUME TypeOK
  PROVE  /\ \A l \in Lines : l.by \in Writers /\ l.nr \in 0 .. MaxLines /\ l.ts \in 0 .. MaxClock
         /\ \A w \in Writers : line[w] \in Lines /\ line[w].nr \in Nat /\ line[w].ts \in Nat
         /\ \A c \in Clients : \A w \in Writers : begun[c][w] \in Nat
         /\ \A c \in Clients : \A l \in due[c] : l \in Lines
BY LogStreamAssumption DEF TypeOK, Lines

LEMMA ClientKept ==
  ASSUME TypeOK, NEW c \in Clients, ClientInv(c),
         \A w \in Writers : line[w].nr <= line'[w].nr /\ line'[w].nr \in Nat,
         \A w \in Writers, n \in Nat : Published(w, n) => Published(w, n)',
         phase[c] = "live" => \A w \in Writers, n \in Nat :
           Published(w, n)' /\ n <= line'[w].nr => Published(w, n) /\ n <= line[w].nr,
         phase'[c] = phase[c], c \in streams' <=> c \in streams, c \in closed' => c \in closed,
         buf'[c] = buf[c], received'[c] = received[c], history'[c] = history[c],
         due'[c] = due[c], begun'[c] = begun[c], dropped'[c] = dropped[c]
  PROVE  ClientInv(c)'
<1>1. Sent(c)' = Sent(c)
  BY DEF Sent
<1>2. ASSUME NEW s \in Seq(Lines) PROVE ReplayInv(c, s) => ReplayInv(c, s)'
  <2>1. \A i \in 1 .. Len(s) : s[i].by \in Writers /\ s[i].nr \in Nat
    BY <1>2, LinesTyped, ElementOfSeq, LogStreamAssumption
  <2>2. Stamped(s) => Stamped(s)'
    BY <2>1, LinesTyped DEF Stamped
  <2>3. \A l \in due[c] : Published(l.by, l.nr) => Published(l.by, l.nr)'
    BY LinesTyped, LogStreamAssumption
  <2> QED BY <2>2, <2>3 DEF ReplayInv, InOrder
<1>3. ASSUME NEW s \in Seq(Lines), NEW h \in 0 .. Len(s), phase[c] = "live", LiveInv(c, s, h)
      PROVE  LiveInv(c, s, h)'
  <2>1. \A i \in 1 .. Len(s) : s[i].by \in Writers /\ s[i].nr \in Nat
    BY <1>3, LinesTyped, ElementOfSeq, LogStreamAssumption
  <2>2. \A l \in due[c] : Published(l.by, l.nr) => Published(l.by, l.nr)'
    BY LinesTyped, LogStreamAssumption
  <2>3. \A i \in 1 .. Len(s) : h < i =>
          /\ begun[c][s[i].by] <= s[i].nr /\ Published(s[i].by, s[i].nr)'
          /\ \A l \in due[c] : l.by = s[i].by => l.nr # s[i].nr
    BY <1>3, <2>1 DEF LiveInv
  <2>4. ASSUME NEW w \in Writers, NEW n \in (begun[c][w] + 1) .. line'[w].nr, Published(w, n)'
        PROVE  Missed(c, w, n) \/ \E i \in 1 .. Len(s) : h < i /\ s[i].by = w /\ s[i].nr = n
    <3>1. n \in Nat /\ n <= line'[w].nr
      BY <2>4, LinesTyped
    <3>2. Published(w, n) /\ n \in (begun[c][w] + 1) .. line[w].nr
      BY <1>3, <2>4, <3>1, LinesTyped
    <3> QED BY <1>3, <3>2 DEF LiveInv
  <2> QED BY <1>3, <2>2, <2>3, <2>4 DEF LiveInv, Missed
<1>4. history[c] \in Seq(Lines) /\ received[c] \in Seq(Lines) /\ Sent(c) \in Seq(Lines)
  BY SentParts DEF TypeOK
<1>5. \A w \in Writers : begun'[c][w] <= line'[w].nr
  BY LinesTyped DEF ClientInv
<1>6. phase'[c] = "live" => \E h \in 0 .. Len(Sent(c)') : LiveInv(c, Sent(c), h)'
  BY <1>1, <1>3, <1>4 DEF ClientInv
<1>7. /\ phase'[c] = "listed" => ReplayInv(c, history[c])'
      /\ phase'[c] = "replayed" => ReplayInv(c, received[c])'
  <2>1. /\ phase[c] = "listed" => ReplayInv(c, history[c])
        /\ phase[c] = "replayed" => ReplayInv(c, received[c])
    BY DEF ClientInv
  <2>2. PICK s \in Seq(Lines), t \in Seq(Lines) : s = history[c] /\ t = received[c]
    BY <1>4
  <2>3. (ReplayInv(c, s) => ReplayInv(c, s)') /\ (ReplayInv(c, t) => ReplayInv(c, t)')
    BY <1>2
  <2>4. (phase'[c] = "listed" => ReplayInv(c, s)') /\ (phase'[c] = "replayed" => ReplayInv(c, t)')
    BY <2>1, <2>2, <2>3
  <2> QED BY <2>2, <2>4 DEF ReplayInv, InOrder, Stamped
<1> QED BY <1>5, <1>6, <1>7 DEF ClientInv

-----------------------------------------------------------------------------
(* The writers.                                                            *)

LEMMA StampInv ==
  ASSUME IInv, NEW w \in Writers, Stamp(w)
  PROVE  IInv'
<1>0. TypeOK /\ StoredInv /\ line \in [Writers -> Lines] /\ stored \in Seq(Lines)
      /\ appending \in [Writers -> {"idle", "stamped", "inserted"}] /\ clock \in 0 .. MaxClock
  BY DEF IInv, TypeOK
<1>1. /\ appending[w] = "idle" /\ line[w].nr < MaxLines
      /\ appending' = [appending EXCEPT ![w] = "stamped"]
      /\ clock' \in 0 .. MaxClock /\ clock <= clock'
      /\ UNCHANGED <<stored, channel, session>>
  BY <1>0, LogStreamAssumption DEF Stamp
<1>2. PICK new : new = [line[w] EXCEPT !.nr = @ + 1, !.ts = clock]
  OBVIOUS
<1>3. line' = [line EXCEPT ![w] = new]
  BY <1>0, <1>2 DEF Stamp
<1>4. new \in Lines /\ new.by = line[w].by /\ new.nr = line[w].nr + 1 /\ new.ts = clock
  <2>1. PICK l \in Lines : l = line[w]
    BY <1>0
  <2>2. new = [l EXCEPT !.nr = @ + 1, !.ts = clock] /\ l.nr < MaxLines
    BY <1>1, <1>2, <2>1
  <2>3. /\ new = [by |-> l.by, nr |-> l.nr + 1, ts |-> clock] /\ l.by \in Writers
        /\ l.nr \in 0 .. MaxLines
    BY <2>2 DEF Lines
  <2>4. l.nr + 1 \in 0 .. MaxLines
    BY <2>2, <2>3, LogStreamAssumption
  <2> QED BY <1>0, <2>1, <2>3, <2>4 DEF Lines
<1>5. /\ line'[w] = new /\ \A v \in Writers : v # w => line'[v] = line[v]
      /\ appending'[w] = "stamped"
      /\ \A v \in Writers : v # w => appending'[v] = appending[v]
  BY <1>0, <1>1, <1>3
<1>6. TypeOK'
  BY <1>0, <1>1, <1>3, <1>4 DEF TypeOK, channel, session
<1>7. \A v \in Writers : line[v].nr <= line'[v].nr /\ line[v].ts <= line'[v].ts
                         /\ line[v].nr \in Nat /\ line'[v].nr \in Nat
                         /\ line[v].ts \in Nat /\ line'[v].ts \in Nat
  BY <1>0, <1>4, <1>5, LinesTyped DEF StoredInv
<1>8. StoredInv'
  <2>1. ASSUME NEW i \in 1 .. Len(stored)
        PROVE  /\ stored[i].nr <= line'[stored[i].by].nr
               /\ stored[i].ts <= line'[stored[i].by].ts
               /\ appending'[stored[i].by] = "stamped" => stored[i].nr < line'[stored[i].by].nr
    <3>1. stored[i].by \in Writers /\ stored[i].nr \in Nat /\ stored[i].ts \in Nat
      BY <1>0, <2>1, LinesTyped, ElementOfSeq, LogStreamAssumption
    <3>2. /\ stored[i].nr <= line[stored[i].by].nr /\ stored[i].ts <= line[stored[i].by].ts
          /\ appending[stored[i].by] = "stamped" => stored[i].nr < line[stored[i].by].nr
      BY <1>0, <2>1 DEF StoredInv, Stamped
    <3>3. CASE stored[i].by = w
      <4>1. /\ line'[stored[i].by].nr = line[w].nr + 1 /\ line[w].nr \in Nat
            /\ line'[stored[i].by].ts \in Nat /\ line[w].ts <= line'[stored[i].by].ts
            /\ line[w].ts \in Nat
        BY <1>4, <1>5, <1>7, <3>3
      <4>2. stored[i].nr <= line[w].nr /\ stored[i].ts <= line[w].ts
        BY <3>2, <3>3
      <4> QED BY <3>1, <4>1, <4>2
    <3>4. CASE stored[i].by # w
      BY <1>5, <1>7, <3>1, <3>2, <3>4
    <3> QED BY <3>3, <3>4
  <2>2. \A v \in Writers : line'[v].ts <= clock' /\ line'[v].by = v
    BY <1>0, <1>1, <1>4, <1>5, <1>7, LogStreamAssumption DEF StoredInv
  <2>3. stored' = stored
    BY <1>1
  <2> QED BY <1>0, <2>1, <2>2, <2>3 DEF StoredInv, InOrder, Stamped
<1>9. ASSUME NEW c \in Clients PROVE ClientInv(c)'
  <2>1. ASSUME NEW v \in Writers, NEW n \in Nat
        PROVE  /\ Published(v, n) => Published(v, n)'
               /\ Published(v, n)' /\ n <= line'[v].nr => Published(v, n) /\ n <= line[v].nr
    <3>1. CASE v = w
      BY <1>1, <1>4, <1>5, <1>7, <3>1 DEF Published
    <3>2. CASE v # w
      BY <1>5, <1>7, <3>2 DEF Published
    <3> QED BY <3>1, <3>2
  <2>2. ClientInv(c)
    BY DEF IInv
  <2> QED BY <1>0, <1>1, <1>7, <2>1, <2>2, ClientKept DEF channel, session
<1> QED BY <1>6, <1>8, <1>9 DEF IInv

(* The rows that are not younger are the first ones.                       *)
LEMMA OlderRows ==
  ASSUME TypeOK, StoredInv, NEW t \in Nat
  PROVE  LET older == {i \in DOMAIN stored : stored[i].ts <= t} IN
         /\ Cardinality(older) \in 0 .. Len(stored)
         /\ \A i \in 1 .. Len(stored) : stored[i].ts <= t <=> i <= Cardinality(older)
<1> DEFINE older == {i \in DOMAIN stored : stored[i].ts <= t}
           m == Cardinality(older)
<1>1. /\ Len(stored) \in Nat /\ DOMAIN stored = 1 .. Len(stored)
      /\ \A i \in 1 .. Len(stored) : stored[i].ts \in Nat
  BY LinesTyped, ElementOfSeq, LogStreamAssumption DEF TypeOK
<1>2. \A n \in Nat : IsFiniteSet(1 .. n) /\ Cardinality(1 .. n) = n
  BY FS_Interval
<1>3. IsFiniteSet(older) /\ m \in Nat /\ m <= Len(stored)
  <2>1. older \in SUBSET (1 .. Len(stored))
    BY <1>1
  <2>2. IsFiniteSet(older) /\ Cardinality(older) <= Cardinality(1 .. Len(stored))
    BY <1>1, <1>2, <2>1, FS_Subset
  <2> QED BY <1>1, <1>2, <2>2, FS_CardinalityType
<1>4. ASSUME NEW i \in older PROVE i \in 1 .. m
  <2>1. (1 .. i) \in SUBSET older /\ i \in Nat
    <3>1. \A k \in 1 .. i : k \in 1 .. Len(stored) /\ (k = i \/ k < i)
      BY <1>1
    <3>2. \A k \in 1 .. i : stored[k].ts <= stored[i].ts
      BY <1>1, <3>1 DEF StoredInv
    <3> QED BY <1>1, <3>1, <3>2
  <2>2. Cardinality(1 .. i) <= m
    BY <1>3, <2>1, FS_Subset
  <2> QED BY <1>1, <1>2, <1>3, <2>1, <2>2
<1>5. older = 1 .. m
  <2>1. older \in SUBSET (1 .. m)
    BY <1>4
  <2> HIDE DEF older
  <2> QED BY <1>2, <1>3, <2>1, FS_Subset
<1>6. \A i \in 1 .. Len(stored) : stored[i].ts <= t <=> i \in 1 .. m
  BY <1>1, <1>5
<1> QED BY <1>1, <1>3, <1>6

LEMMA InsertInv ==
  ASSUME IInv, NEW w \in Writers, Insert(w)
  PROVE  IInv'
<1> DEFINE older == {i \in DOMAIN stored : stored[i].ts <= line[w].ts}
           p == Cardinality(older) + 1
<1>0. /\ TypeOK /\ StoredInv /\ line \in [Writers -> Lines] /\ stored \in Seq(Lines)
      /\ appending \in [Writers -> {"idle", "stamped", "inserted"}]
  BY DEF IInv, TypeOK
<1>1. /\ appending[w] = "stamped" /\ appending' = [appending EXCEPT ![w] = "inserted"]
      /\ stored' = InsertAt(stored, p, line[w]) \/ stored' = stored
      /\ UNCHANGED <<clock, line, channel, session>>
  BY DEF Insert
<1>2. /\ line[w] \in Lines /\ line[w].by = w /\ line[w].nr \in Nat /\ line[w].ts \in Nat
      /\ Len(stored) \in Nat
      /\ \A i \in 1 .. Len(stored) :
           /\ stored[i].by \in Writers /\ stored[i].nr \in Nat /\ stored[i].ts \in Nat
           /\ line[stored[i].by].nr \in Nat /\ line[stored[i].by].ts \in Nat
  BY <1>0, LinesTyped, ElementOfSeq, LogStreamAssumption DEF StoredInv
<1>3. /\ p \in 1 .. Len(stored) + 1
      /\ \A i \in 1 .. Len(stored) : stored[i].ts <= line[w].ts <=> i < p
  <2>1. /\ Cardinality(older) \in 0 .. Len(stored)
        /\ \A i \in 1 .. Len(stored) : stored[i].ts <= line[w].ts <=> i <= Cardinality(older)
    BY <1>0, <1>2, OlderRows
  <2>2. PICK m \in 0 .. Len(stored) : m = Cardinality(older)
    BY <2>1
  <2>3. p = m + 1 /\ \A i \in 1 .. Len(stored) : stored[i].ts <= line[w].ts <=> i <= m
    BY <2>1, <2>2
  <2> HIDE DEF older, p
  <2>4. m \in Nat /\ m <= Len(stored) /\ \A i \in 1 .. Len(stored) : i <= m <=> i < m + 1
    BY <1>2
  <2>5. m + 1 \in 1 .. Len(stored) + 1
    BY <1>2, <2>4
  <2>6. \A i \in 1 .. Len(stored) : stored[i].ts <= line[w].ts <=> i < m + 1
    BY <2>3, <2>4, Zenon
  <2> QED BY <2>3, <2>5, <2>6, Zenon
<1> HIDE DEF p
<1>4. stored' \in Seq(Lines)
  BY <1>0, <1>1, <1>2, <1>3, InsertAtParts
<1>5. TypeOK'
  BY <1>0, <1>1, <1>4 DEF TypeOK, channel, session
<1>6. \A v \in Writers : appending'[v] = "stamped" => appending[v] = "stamped" /\ v # w
  BY <1>0, <1>1
<1>7. \A i \in 1 .. Len(stored) :
        /\ stored[i].by = w => stored[i].nr < line[w].nr /\ i < p
        /\ stored[i].nr <= line[stored[i].by].nr /\ stored[i].ts <= line[stored[i].by].ts
        /\ appending'[stored[i].by] = "stamped" => stored[i].nr < line[stored[i].by].nr
  BY <1>0, <1>1, <1>2, <1>3, <1>6 DEF StoredInv, Stamped
<1>8. StoredInv'
  <2>1. CASE stored' = stored
    BY <1>0, <1>1, <1>7, <2>1 DEF StoredInv, InOrder, Stamped
  <2>2. CASE stored' = InsertAt(stored, p, line[w])
    <3>1. /\ Len(stored') = Len(stored) + 1
          /\ \A j \in 1 .. Len(stored) + 1 :
               /\ j < p => stored'[j] = stored[j]
               /\ j = p => stored'[j] = line[w]
               /\ j > p => stored'[j] = stored[j - 1]
      <4>1. /\ Len(InsertAt(stored, p, line[w])) = Len(stored) + 1
            /\ \A j \in 1 .. Len(stored) + 1 :
                 /\ j < p => InsertAt(stored, p, line[w])[j] = stored[j]
                 /\ j = p => InsertAt(stored, p, line[w])[j] = line[w]
                 /\ j > p => InsertAt(stored, p, line[w])[j] = stored[j - 1]
        <5>1. stored \in Seq(Lines) /\ line[w] \in Lines /\ p \in 1 .. Len(stored) + 1
          BY <1>0, <1>2, <1>3
        <5>2. PICK t \in Seq(Lines), e \in Lines, q \in 1 .. Len(stored) + 1 :
                t = stored /\ e = line[w] /\ q = p
          BY <5>1
        <5>3. q \in 1 .. Len(t) + 1
          BY <5>2
        <5>4. /\ Len(InsertAt(t, q, e)) = Len(t) + 1
              /\ \A j \in 1 .. Len(t) + 1 :
                   /\ j < q => InsertAt(t, q, e)[j] = t[j]
                   /\ j = q => InsertAt(t, q, e)[j] = e
                   /\ j > q => InsertAt(t, q, e)[j] = t[j - 1]
          BY <5>3, InsertAtParts
        <5> QED BY <5>2, <5>4, Zenon
      <4> QED BY <2>2, <4>1
    <3>2. ASSUME NEW i \in 1 .. Len(stored'), NEW k \in 1 .. Len(stored'), i < k
          PROVE  /\ stored'[i].by = stored'[k].by => stored'[i].nr < stored'[k].nr
                 /\ stored'[i].ts <= stored'[k].ts
      <4>1. CASE k = p
        <5>1. /\ stored'[i] = stored[i] /\ stored'[k] = line[w]
              /\ i \in 1 .. Len(stored) /\ i < p
          BY <1>2, <1>3, <3>1, <3>2, <4>1
        <5> QED BY <1>2, <1>3, <1>7, <5>1
      <4>2. CASE i = p
        <5>1. /\ stored'[i] = line[w] /\ stored'[k] = stored[k - 1]
              /\ k - 1 \in 1 .. Len(stored) /\ ~(k - 1 < p)
          BY <1>2, <1>3, <3>1, <3>2, <4>2
        <5>2. stored[k - 1].by # w /\ ~(stored[k - 1].ts <= line[w].ts)
          BY <1>3, <1>7, <5>1
        <5>3. line[w].ts <= stored[k - 1].ts
          BY <1>2, <5>1, <5>2
        <5> QED BY <1>2, <5>1, <5>2, <5>3
      <4>3. CASE i # p /\ k # p
        <5>1. PICK a \in 1 .. Len(stored), b \in 1 .. Len(stored) :
                a < b /\ stored'[i] = stored[a] /\ stored'[k] = stored[b]
          <6>1. CASE k < p
            <7>1. /\ i \in 1 .. Len(stored) /\ k \in 1 .. Len(stored)
                  /\ stored'[i] = stored[i] /\ stored'[k] = stored[k]
              BY <1>2, <1>3, <3>1, <3>2, <6>1
            <7> QED BY <3>2, <7>1
          <6>2. CASE p < i
            <7>1. /\ i - 1 \in 1 .. Len(stored) /\ k - 1 \in 1 .. Len(stored) /\ i - 1 < k - 1
                  /\ stored'[i] = stored[i - 1] /\ stored'[k] = stored[k - 1]
              BY <1>2, <1>3, <3>1, <3>2, <6>2
            <7> QED BY <7>1
          <6>3. CASE i < p /\ p < k
            <7>1. /\ i \in 1 .. Len(stored) /\ k - 1 \in 1 .. Len(stored) /\ i < k - 1
                  /\ stored'[i] = stored[i] /\ stored'[k] = stored[k - 1]
              BY <1>2, <1>3, <3>1, <3>2, <6>3
            <7> QED BY <7>1
          <6>4. k < p \/ p < i \/ (i < p /\ p < k)
            BY <1>2, <1>3, <3>1, <3>2, <4>3
          <6> QED BY <6>1, <6>2, <6>3, <6>4
        <5> QED BY <1>0, <5>1 DEF StoredInv, InOrder
      <4> QED BY <4>1, <4>2, <4>3
    <3>3. ASSUME NEW i \in 1 .. Len(stored')
          PROVE  /\ stored'[i].nr <= line[stored'[i].by].nr
                 /\ stored'[i].ts <= line[stored'[i].by].ts
                 /\ appending'[stored'[i].by] = "stamped" =>
                      stored'[i].nr < line[stored'[i].by].nr
      <4>1. CASE i = p
        BY <1>2, <1>3, <1>6, <3>1, <4>1
      <4>2. CASE i # p
        <5>1. PICK a \in 1 .. Len(stored) : stored'[i] = stored[a]
          <6>1. CASE i < p
            BY <1>2, <1>3, <3>1, <3>3, <6>1
          <6>2. CASE p < i
            <7>1. i - 1 \in 1 .. Len(stored) /\ stored'[i] = stored[i - 1]
              BY <1>2, <1>3, <3>1, <3>3, <6>2
            <7> QED BY <7>1
          <6> QED BY <1>2, <1>3, <3>1, <3>3, <4>2, <6>1, <6>2
        <5> QED BY <1>7, <5>1
      <4> QED BY <4>1, <4>2
    <3> QED BY <1>0, <1>1, <3>2, <3>3 DEF StoredInv, InOrder, Stamped
  <2> QED BY <1>1, <2>1, <2>2
<1>9. ASSUME NEW c \in Clients PROVE ClientInv(c)'
  <2>1. ASSUME NEW v \in Writers, NEW n \in Nat PROVE Published(v, n)' <=> Published(v, n)
    BY <1>0, <1>1 DEF Published
  <2>2. ClientInv(c)
    BY DEF IInv
  <2>3. \A v \in Writers : line'[v].nr = line[v].nr /\ line[v].nr \in Nat
    BY <1>0, <1>1, LinesTyped
  <2> QED BY <1>0, <1>1, <2>1, <2>2, <2>3, ClientKept DEF channel, session
<1> QED BY <1>5, <1>8, <1>9 DEF IInv

LEMMA ConcatAppend ==
  ASSUME NEW S, NEW s \in Seq(S), NEW t \in Seq(S), NEW e \in S
  PROVE  s \o Append(t, e) = Append(s \o t, e)
<1>1. s \o t \in Seq(S) /\ Append(t, e) \in Seq(S)
  BY ConcatProperties, AppendParts
<1>2. s \o Append(t, e) \in Seq(S) /\ Append(s \o t, e) \in Seq(S)
  BY <1>1, ConcatProperties, AppendParts
<1>3. Len(s \o Append(t, e)) = Len(s) + Len(t) + 1 /\ Len(Append(s \o t, e)) = Len(s) + Len(t) + 1
  BY <1>1, ConcatProperties, AppendParts, LenProperties
<1>4. ASSUME NEW i \in 1 .. Len(s) + Len(t) + 1
      PROVE  (s \o Append(t, e))[i] = Append(s \o t, e)[i]
  <2>0. Len(s) \in Nat /\ Len(t) \in Nat
    BY LenProperties
  <2>1. CASE i <= Len(s)
    BY <1>1, <1>3, <2>0, <2>1, ConcatProperties, AppendParts
  <2>2. CASE Len(s) < i /\ i <= Len(s) + Len(t)
    BY <1>1, <1>3, <2>0, <2>2, ConcatProperties, AppendParts
  <2>3. CASE i = Len(s) + Len(t) + 1
    BY <1>1, <1>3, <2>0, <2>3, ConcatProperties, AppendParts
  <2> QED BY <2>0, <2>1, <2>2, <2>3
<1> QED BY <1>2, <1>3, <1>4, SeqEqual

(* A published line gets to a subscribed client, or is missed.             *)
LEMMA LiveGrows ==
  ASSUME TypeOK, StoredInv, NEW c \in Clients, NEW w \in Writers,
         appending[w] = "inserted", appending' = [appending EXCEPT ![w] = "idle"],
         UNCHANGED <<line, begun, due>>, begun[c][w] <= line[w].nr,
         NEW s \in Seq(Lines), NEW h \in 0 .. Len(s), LiveInv(c, s, h), NEW t,
         \/ t = Append(s, line[w]) /\ dropped'[c] = dropped[c]
         \/ t = s /\ dropped'[c] = dropped[c] \union {line[w]}
  PROVE  LiveInv(c, t, h)'
<1> DEFINE n == line[w].nr
<1>1. /\ line[w] \in Lines /\ line[w].by = w /\ n \in Nat
      /\ \A v \in Writers : line[v].nr \in Nat /\ begun[c][v] \in Nat
      /\ Len(s) \in Nat /\ \A i \in 1 .. Len(s) : s[i].by \in Writers /\ s[i].nr \in Nat
  BY LinesTyped, ElementOfSeq, LogStreamAssumption DEF StoredInv
<1>2. ASSUME NEW v \in Writers, NEW k \in Nat
      PROVE  /\ Published(v, k) => Published(v, k)'
             /\ Published(v, k)' => Published(v, k) \/ (v = w /\ k = n)
             /\ v = w /\ Published(v, k) => k < n
             /\ Published(w, n)'
  BY <1>1 DEF TypeOK, Published
<1>3. \A l \in due[c] : l.by \in Writers /\ l.nr \in Nat /\ Published(l.by, l.nr)
  BY LinesTyped, LogStreamAssumption DEF LiveInv
<1>4. /\ Len(t) \in Nat /\ Len(s) <= Len(t) /\ \A i \in 1 .. Len(s) : t[i] = s[i]
      /\ \A i \in 1 .. Len(t) : i \in 1 .. Len(s) \/ (t[i] = line[w] /\ h < i /\ Len(s) < i)
      /\ t = s \/ (Len(s) + 1 \in 1 .. Len(t) /\ h < Len(s) + 1 /\ t[Len(s) + 1] = line[w])
  BY <1>1, AppendParts
<1>5. \A i, k \in 1 .. Len(t) : i < k => i \in 1 .. Len(s)
  BY <1>1, AppendParts
<1>6. ASSUME NEW i \in 1 .. Len(t), NEW k \in 1 .. Len(t), i < k, t[i].by = t[k].by,
             k <= h \/ h < i
      PROVE  t[i].nr < t[k].nr
  <2>1. i \in 1 .. Len(s) /\ t[i] = s[i]
    BY <1>4, <1>5, <1>6
  <2>2. CASE k \in 1 .. Len(s)
    BY <1>4, <1>6, <2>1, <2>2 DEF LiveInv
  <2>3. CASE k \notin 1 .. Len(s)
    <3>1. t[k] = line[w] /\ h < k
      BY <1>4, <2>3
    <3>2. h < i
      BY <1>1, <1>6, <3>1
    <3>3. Published(s[i].by, s[i].nr) /\ s[i].by = w
      BY <1>1, <1>6, <2>1, <3>1, <3>2 DEF LiveInv
    <3> QED BY <1>1, <1>2, <2>1, <3>1, <3>3
  <2> QED BY <2>2, <2>3
<1>7. \A i \in 1 .. Len(t) : i <= h => t[i].nr <= begun[c][t[i].by]
  BY <1>1, <1>4 DEF LiveInv
<1>8. ASSUME NEW i \in 1 .. Len(t), h < i
      PROVE  /\ begun[c][t[i].by] <= t[i].nr /\ Published(t[i].by, t[i].nr)'
             /\ \A l \in due[c] : l.by = t[i].by => l.nr # t[i].nr
  <2>1. CASE i \in 1 .. Len(s)
    BY <1>1, <1>2, <1>4, <1>8, <2>1 DEF LiveInv
  <2>2. CASE i \notin 1 .. Len(s)
    <3>1. t[i] = line[w]
      BY <1>4, <2>2
    <3>2. \A l \in due[c] : l.by = w => l.nr # n
      BY <1>1, <1>2, <1>3
    <3> QED BY <1>1, <1>2, <3>1, <3>2
  <2> QED BY <2>1, <2>2
<1>9. \A l \in due[c] : Published(l.by, l.nr)' /\ \E i \in 1 .. Len(t) : i <= h /\ t[i] = l
  <2>1. \A l \in due[c] : Published(l.by, l.nr)'
    BY <1>2, <1>3
  <2>2. \A l \in due[c] : \E i \in 1 .. Len(s) : i <= h /\ s[i] = l
    BY DEF LiveInv
  <2> QED BY <1>1, <1>4, <2>1, <2>2
<1>10. ASSUME NEW v \in Writers, NEW k \in (begun[c][v] + 1) .. line[v].nr, Published(v, k)'
       PROVE  Missed(c, v, k)' \/ \E i \in 1 .. Len(t) : h < i /\ t[i].by = v /\ t[i].nr = k
  <2>1. k \in Nat
    BY <1>1
  <2>2. Missed(c, v, k) => Missed(c, v, k)'
    BY DEF Missed
  <2>3. CASE Published(v, k)
    <3>1. Missed(c, v, k) \/ \E i \in 1 .. Len(s) : h < i /\ s[i].by = v /\ s[i].nr = k
      BY <2>3, <1>10 DEF LiveInv
    <3> QED BY <1>1, <1>4, <2>2, <3>1
  <2>4. CASE v = w /\ k = n
    <3>1. CASE t = s
      <4>1. line[w] \in dropped'[c]
        BY <3>1, <1>1, AppendParts
      <4> QED BY <1>1, <2>4, <4>1 DEF Missed
    <3>2. CASE t # s
      BY <1>1, <1>4, <2>4, <3>2
    <3> QED BY <3>1, <3>2
  <2> QED BY <1>2, <1>10, <2>1, <2>3, <2>4
<1> QED BY <1>6, <1>7, <1>8, <1>9, <1>10 DEF LiveInv

LEMMA PublishInv ==
  ASSUME IInv, NEW w \in Writers, Publish(w)
  PROVE  IInv'
<1>0. /\ TypeOK /\ StoredInv /\ line \in [Writers -> Lines] /\ stored \in Seq(Lines)
      /\ appending \in [Writers -> {"idle", "stamped", "inserted"}]
      /\ buf \in [Clients -> Seq(Lines)] /\ received \in [Clients -> Seq(Lines)]
      /\ line[w] \in Lines
      /\ \A c \in Clients : ClientInv(c)
  BY DEF IInv, TypeOK
<1>1. /\ appending[w] = "inserted" /\ appending' = [appending EXCEPT ![w] = "idle"]
      /\ UNCHANGED <<table, line, streams, closed, session>>
  BY DEF Publish
<1>2. ASSUME NEW c \in Clients
      PROVE  /\ c \in streams /\ ~Full(c) =>
                  buf'[c] = Append(buf[c], line[w]) /\ dropped'[c] = dropped[c]
             /\ c \in streams /\ Full(c) =>
                  buf'[c] = buf[c] /\ dropped'[c] = dropped[c] \union {line[w]}
             /\ c \notin streams => buf'[c] = buf[c] /\ dropped'[c] = dropped[c]
  BY DEF Publish
<1>3. TypeOK'
  <2>1. ASSUME NEW c \in Clients
        PROVE  buf'[c] \in Seq(Lines) /\ Len(buf'[c]) <= Buffer /\ dropped'[c] \in SUBSET Lines
    <3>1. Len(buf[c]) \in Nat /\ Len(buf[c]) <= Buffer /\ dropped[c] \in SUBSET Lines
      BY <1>0, LenProperties DEF TypeOK
    <3>2. CASE c \in streams /\ ~Full(c)
      <4>1. Len(buf[c]) + 1 <= Buffer
        BY <3>1, <3>2, LogStreamAssumption DEF Full
      <4>2. /\ Append(buf[c], line[w]) \in Seq(Lines)
            /\ Len(Append(buf[c], line[w])) = Len(buf[c]) + 1
        BY <1>0, AppendParts
      <4>3. buf'[c] = Append(buf[c], line[w]) /\ dropped'[c] = dropped[c]
        BY <1>2, <3>2
      <4> QED BY <3>1, <4>1, <4>2, <4>3
    <3>3. CASE c \in streams /\ Full(c)
      BY <1>0, <1>2, <3>1, <3>3
    <3>4. CASE c \notin streams
      BY <1>0, <1>2, <3>1, <3>4
    <3> QED BY <3>2, <3>3, <3>4
  <2>2. buf' \in [Clients -> Seq(Lines)] /\ dropped' \in [Clients -> SUBSET Lines]
    <3>1. DOMAIN buf' = Clients /\ buf' = [c \in Clients |-> buf'[c]]
          /\ dropped' = [c \in Clients |-> dropped'[c]]
      BY DEF Publish
    <3> QED BY <2>1, <3>1
  <2> QED BY <1>0, <1>1, <2>1, <2>2 DEF TypeOK, table, session
<1>4. StoredInv'
  <2>1. \A v \in Writers : appending'[v] = "stamped" => appending[v] = "stamped"
    BY <1>0, <1>1
  <2>2. \A i \in 1 .. Len(stored) : stored[i].by \in Writers
    BY <1>0, LinesTyped, ElementOfSeq
  <2> QED BY <1>0, <1>1, <2>1, <2>2 DEF StoredInv, InOrder, Stamped, table
<1>5. ASSUME NEW c \in Clients PROVE ClientInv(c)'
  <2>1. CASE c \notin streams
    <3>1. \A v \in Writers, n \in Nat : Published(v, n) => Published(v, n)'
      BY <1>0, <1>1 DEF Published
    <3>2. \A v \in Writers : line'[v].nr = line[v].nr /\ line[v].nr \in Nat
      BY <1>0, <1>1, LinesTyped
    <3>3. phase[c] # "live"
      BY <1>0, <2>1 DEF ClientInv
    <3>4. /\ streams' = streams /\ closed' = closed /\ phase' = phase /\ received' = received
          /\ history' = history /\ due' = due /\ begun' = begun
          /\ buf'[c] = buf[c] /\ dropped'[c] = dropped[c]
      BY <1>1, <1>2, <2>1 DEF session
    <3>5. TypeOK /\ ClientInv(c)
      BY <1>0
    <3>6. \A v \in Writers : line[v].nr <= line'[v].nr /\ line'[v].nr \in Nat
      BY <3>2
    <3> QED BY <3>1, <3>3, <3>4, <3>5, <3>6, ClientKept
  <2>2. CASE c \in streams
    <3>1. /\ phase[c] = "live" /\ c \notin closed /\ begun[c][w] <= line[w].nr
          /\ Sent(c) \in Seq(Lines)
      BY <1>0, <2>2, SentParts DEF ClientInv
    <3>2. PICK h \in 0 .. Len(Sent(c)) : LiveInv(c, Sent(c), h)
      BY <1>0, <3>1 DEF ClientInv
    <3>3. PICK s \in Seq(Lines) : s = Sent(c)
      BY <3>1
    <3>4. PICK t : t = Sent(c)'
      OBVIOUS
    <3>5. \/ t = Append(s, line[w]) /\ dropped'[c] = dropped[c]
          \/ t = s /\ dropped'[c] = dropped[c] \union {line[w]}
      <4>1. CASE Full(c)
        BY <1>1, <1>2, <2>2, <3>3, <3>4, <4>1 DEF Sent, session
      <4>2. CASE ~Full(c)
        <5>1. t = received[c] \o Append(buf[c], line[w])
          BY <1>1, <1>2, <2>2, <3>4, <4>2 DEF Sent, session
        <5>2. received[c] \o Append(buf[c], line[w]) = Append(received[c] \o buf[c], line[w])
          BY <1>0, ConcatAppend
        <5> QED BY <1>2, <2>2, <3>3, <4>2, <5>1, <5>2 DEF Sent
      <4> QED BY <4>1, <4>2
    <3>6. LiveInv(c, s, h) /\ h \in 0 .. Len(s)
      BY <3>2, <3>3
    <3>7. LiveInv(c, t, h)'
      BY <1>0, <1>1, <3>1, <3>5, <3>6, LiveGrows DEF session
    <3>8. h \in 0 .. Len(t)
      BY <1>0, <3>5, <3>6, AppendParts, LenProperties
    <3>10. LiveInv(c, Sent(c), h)'
      BY <3>4, <3>7 DEF LiveInv
    <3>9. \E k \in 0 .. Len(Sent(c)') : LiveInv(c, Sent(c), k)'
      BY <3>4, <3>8, <3>10
    <3> QED BY <1>0, <1>1, <2>2, <3>1, <3>9 DEF ClientInv, session
  <2> QED BY <2>1, <2>2
<1> QED BY <1>3, <1>4, <1>5 DEF IInv

-----------------------------------------------------------------------------
(* The clients.                                                            *)

(* A step of one client leaves the lines, and the other clients, as they   *)
(* are.                                                                    *)
LEMMA ClientStep ==
  ASSUME IInv, TypeOK', NEW c \in Clients, UNCHANGED <<table, writers>>,
         \A d \in Clients \ {c} :
           /\ phase'[d] = phase[d] /\ buf'[d] = buf[d] /\ received'[d] = received[d]
           /\ (d \in streams' <=> d \in streams) /\ (d \in closed' => d \in closed)
           /\ history'[d] = history[d] /\ due'[d] = due[d] /\ begun'[d] = begun[d]
           /\ dropped'[d] = dropped[d],
         ClientInv(c)'
  PROVE  IInv'
<1>0. TypeOK /\ StoredInv /\ line' = line /\ appending' = appending
  BY DEF IInv, writers
<1>1. StoredInv'
  BY <1>0 DEF StoredInv, InOrder, Stamped, table
<1>2. \A v \in Writers, n \in Nat : Published(v, n)' <=> Published(v, n)
  BY <1>0 DEF Published
<1>3. \A v \in Writers : line'[v].nr = line[v].nr /\ line[v].nr \in Nat
  BY <1>0, LinesTyped
<1>4. ASSUME NEW d \in Clients \ {c} PROVE ClientInv(d)'
  <2>1. ClientInv(d)
    BY DEF IInv
  <2> QED BY <1>0, <1>2, <1>3, <2>1, ClientKept
<1> QED BY <1>1, <1>4 DEF IInv

LEMMA EmptyParts ==
  ASSUME NEW S
  PROVE  /\ <<>> \in Seq(S) /\ Len(<<>>) = 0
         /\ \A s \in Seq(S) : s \o <<>> = s
OBVIOUS

LEMMA SuffixParts ==
  ASSUME NEW S, NEW s \in Seq(S), NEW a \in 1 .. Len(s) + 1
  PROVE  /\ SubSeq(s, a, Len(s)) \in Seq(S) /\ Len(SubSeq(s, a, Len(s))) = Len(s) - a + 1
         /\ \A i \in 1 .. Len(SubSeq(s, a, Len(s))) :
              i + a - 1 \in 1 .. Len(s) /\ SubSeq(s, a, Len(s))[i] = s[i + a - 1]
<1>0. Len(s) \in Nat /\ \A j \in 1 .. Len(s) : s[j] \in S
  BY LenProperties
<1>1. \A j \in a .. Len(s) : s[j] \in S
  BY <1>0
<1>2. /\ SubSeq(s, a, Len(s)) \in Seq(S) /\ Len(SubSeq(s, a, Len(s))) = Len(s) - a + 1
      /\ \A j \in 1 .. Len(s) - a + 1 : SubSeq(s, a, Len(s))[j] = s[a + j - 1]
  BY <1>0, <1>1, SubSeqProperties
<1>3. ASSUME NEW i \in 1 .. Len(s) - a + 1
      PROVE  i + a - 1 \in 1 .. Len(s) /\ a + i - 1 = i + a - 1
  BY <1>0
<1> QED BY <1>2, <1>3

LEMMA ListInv ==
  ASSUME IInv, NEW c \in Clients, List(c)
  PROVE  IInv'
<1>0. /\ TypeOK /\ StoredInv /\ ClientInv(c) /\ stored \in Seq(Lines)
      /\ phase \in [Clients -> {"away", "listed", "replayed", "live", "leaving"}]
      /\ history \in [Clients -> Seq(Lines)] /\ conns \in [Clients -> 0 .. MaxConns]
      /\ due \in [Clients -> SUBSET Lines]
  BY DEF IInv, TypeOK
<1>1. /\ phase[c] = "away" /\ phase' = [phase EXCEPT ![c] = "listed"]
      /\ conns[c] < MaxConns /\ conns' = [conns EXCEPT ![c] = @ + 1]
      /\ UNCHANGED <<table, writers, channel, received, begun>>
  BY DEF List
<1>2. PICK lastId \in LastIds, listed \in {stored, <<>>} :
        /\ history' = [history EXCEPT ![c] =
             SubSeq(listed, StartIndex(lastId, Len(listed)) + 1, Len(listed))]
        /\ due' = [due EXCEPT ![c] =
             {l \in ToSet(history'[c]) : Published(l.by, l.nr)}]
  BY DEF List
<1>3. listed \in Seq(Lines) /\ InOrder(listed) /\ Stamped(listed)
  <2>1. InOrder(stored) /\ Stamped(stored)
    BY <1>0 DEF StoredInv
  <2>2. InOrder(<<>>) /\ Stamped(<<>>) /\ <<>> \in Seq(Lines)
    BY EmptyParts DEF InOrder, Stamped
  <2> QED BY <1>0, <1>2, <2>1, <2>2
<1>4. StartIndex(lastId, Len(listed)) + 1 \in 1 .. Len(listed) + 1
  <2>1. lastId \in Nat /\ Len(listed) \in Nat
    BY <1>2, <1>3, LogStreamAssumption, LenProperties
  <2> QED BY <2>1 DEF StartIndex
<1>5. PICK a \in 1 .. Len(listed) + 1 : a = StartIndex(lastId, Len(listed)) + 1
  BY <1>4
<1>6. PICK s : s = SubSeq(listed, a, Len(listed))
  OBVIOUS
<1>7. /\ s \in Seq(Lines)
      /\ \A i \in 1 .. Len(s) : i + a - 1 \in 1 .. Len(listed) /\ s[i] = listed[i + a - 1]
  BY <1>3, <1>6, SuffixParts
<1>8. history' = [history EXCEPT ![c] = s] /\ history'[c] = s
  BY <1>0, <1>2, <1>5, <1>6
<1>9. /\ DOMAIN s = 1 .. Len(s) /\ Len(s) \in Nat
      /\ due' = [due EXCEPT ![c] = {l \in ToSet(s) : Published(l.by, l.nr)}]
      /\ due'[c] = {l \in ToSet(s) : Published(l.by, l.nr)}
  BY <1>0, <1>2, <1>7, <1>8, LenProperties
<1>10. ToSet(s) \in SUBSET Lines /\ \A l \in ToSet(s) : \E i \in 1 .. Len(s) : s[i] = l
  BY <1>7, <1>9, ElementOfSeq DEF ToSet
<1>11. TypeOK'
  <2>1. history' \in [Clients -> Seq(Lines)]
    BY <1>0, <1>7, <1>8
  <2>2. due' \in [Clients -> SUBSET Lines]
    BY <1>0, <1>9, <1>10
  <2>3. conns' \in [Clients -> 0 .. MaxConns]
    BY <1>0, <1>1, LogStreamAssumption
  <2>4. phase' \in [Clients -> {"away", "listed", "replayed", "live", "leaving"}]
    BY <1>0, <1>1
  <2> QED BY <1>0, <1>1, <2>1, <2>2, <2>3, <2>4 DEF TypeOK, table, writers, channel
<1>12. ReplayInv(c, s)'
  <2>1. InOrder(s)
    <3>1. ASSUME NEW i \in 1 .. Len(s), NEW k \in 1 .. Len(s), i < k, s[i].by = s[k].by
          PROVE  s[i].nr < s[k].nr
      <4>1. i + a - 1 < k + a - 1
        BY <1>9, <3>1
      <4> QED BY <1>3, <1>7, <3>1, <4>1 DEF InOrder
    <3> QED BY <3>1 DEF InOrder
  <2>2. Stamped(s)
    BY <1>3, <1>7 DEF Stamped
  <2>3. \A l \in due'[c] : Published(l.by, l.nr) /\ \E i \in 1 .. Len(s) : s[i] = l
    BY <1>9, <1>10
  <2>4. line' = line /\ appending' = appending
    BY <1>1 DEF writers
  <2> QED BY <2>1, <2>2, <2>3, <2>4 DEF ReplayInv, InOrder, Stamped, Published
<1>13. ReplayInv(c, history[c])'
  BY <1>8, <1>12 DEF ReplayInv, InOrder, Stamped
<1>14. ClientInv(c)'
  <2>1. phase'[c] = "listed"
    BY <1>0, <1>1
  <2>2. /\ streams' = streams /\ buf' = buf /\ received' = received /\ begun' = begun
        /\ line' = line
    BY <1>1 DEF writers, channel
  <2> QED BY <1>0, <1>1, <1>13, <2>1, <2>2 DEF ClientInv
<1>15. \A d \in Clients \ {c} :
         phase'[d] = phase[d] /\ history'[d] = history[d] /\ due'[d] = due[d]
  BY <1>0, <1>1, <1>8, <1>9
<1> QED BY <1>1, <1>11, <1>14, <1>15, ClientStep DEF channel

LEMMA ReplayStepInv ==
  ASSUME IInv, NEW c \in Clients, Replay(c)
  PROVE  IInv'
<1>0. /\ TypeOK /\ ClientInv(c)
      /\ phase \in [Clients -> {"away", "listed", "replayed", "live", "leaving"}]
      /\ history \in [Clients -> Seq(Lines)] /\ received \in [Clients -> Seq(Lines)]
      /\ due \in [Clients -> SUBSET Lines]
  BY DEF IInv, TypeOK
<1>1. /\ phase[c] = "listed" /\ history' = [history EXCEPT ![c] = <<>>]
      /\ UNCHANGED <<table, writers, channel, conns, begun>>
  BY DEF Replay
<1>2. \/ /\ received' = [received EXCEPT ![c] = history[c]]
         /\ phase' = [phase EXCEPT ![c] = "replayed"] /\ due' = due
      \/ /\ due' = [due EXCEPT ![c] = {}]
         /\ phase' = [phase EXCEPT ![c] = "away"] /\ received' = received
  BY DEF Replay
<1>3. TypeOK'
  <2>1. history' \in [Clients -> Seq(Lines)]
    BY <1>0, <1>1, EmptyParts
  <2>2. received' \in [Clients -> Seq(Lines)]
    BY <1>0, <1>2
  <2>3. due' \in [Clients -> SUBSET Lines]
    BY <1>0, <1>2
  <2>4. phase' \in [Clients -> {"away", "listed", "replayed", "live", "leaving"}]
    BY <1>0, <1>2
  <2> QED BY <1>0, <1>1, <2>1, <2>2, <2>3, <2>4 DEF TypeOK, table, writers, channel
<1>4. /\ streams' = streams /\ buf' = buf /\ begun' = begun /\ line' = line
      /\ appending' = appending /\ closed' = closed
  BY <1>1 DEF writers, channel
<1>5. ClientInv(c)'
  <2>1. CASE phase' = [phase EXCEPT ![c] = "replayed"]
    <3>1. phase'[c] = "replayed" /\ due' = due /\ received'[c] = history[c]
      BY <1>0, <1>2, <2>1
    <3>2. ReplayInv(c, history[c])
      BY <1>0, <1>1 DEF ClientInv
    <3>3. ReplayInv(c, received[c])'
      BY <1>4, <3>1, <3>2 DEF ReplayInv, InOrder, Stamped, Published
    <3> QED BY <1>0, <1>1, <1>4, <3>1, <3>3 DEF ClientInv
  <2>2. CASE phase' = [phase EXCEPT ![c] = "away"]
    <3>1. phase'[c] = "away" /\ received' = received
      BY <1>0, <1>2, <2>2
    <3> QED BY <1>0, <1>1, <1>4, <3>1 DEF ClientInv
  <2> QED BY <1>2, <2>1, <2>2
<1>6. \A d \in Clients \ {c} :
        /\ phase'[d] = phase[d] /\ history'[d] = history[d] /\ due'[d] = due[d]
        /\ received'[d] = received[d]
  BY <1>0, <1>1, <1>2
<1> QED BY <1>1, <1>3, <1>4, <1>5, <1>6, ClientStep DEF channel

LEMMA SubscribeInv ==
  ASSUME IInv, NEW c \in Clients, Subscribe(c)
  PROVE  IInv'
<1>0. /\ TypeOK /\ ClientInv(c) /\ streams \subseteq Clients /\ closed \subseteq Clients
      /\ phase \in [Clients -> {"away", "listed", "replayed", "live", "leaving"}]
      /\ received \in [Clients -> Seq(Lines)] /\ buf \in [Clients -> Seq(Lines)]
      /\ begun \in [Clients -> [Writers -> 0 .. MaxLines]]
      /\ dropped \in [Clients -> SUBSET Lines] /\ line \in [Writers -> Lines]
  BY DEF IInv, TypeOK
<1>1. /\ phase[c] = "replayed" /\ phase' = [phase EXCEPT ![c] = "live"]
      /\ streams' = streams \union {c} /\ closed' = closed \ {c}
      /\ buf' = [buf EXCEPT ![c] = <<>>] /\ dropped' = [dropped EXCEPT ![c] = {}]
      /\ begun' = [begun EXCEPT ![c] = [w \in Writers |-> line[w].nr]]
      /\ UNCHANGED <<table, writers, history, received, conns, due>>
  BY DEF Subscribe
<1>2. [w \in Writers |-> line[w].nr] \in [Writers -> 0 .. MaxLines]
  BY <1>0, LinesTyped
<1>3. TypeOK'
  <2>1. buf' \in [Clients -> Seq(Lines)] /\ \A d \in Clients : Len(buf'[d]) <= Buffer
    <3>1. \A d \in Clients : Len(buf[d]) <= Buffer
      BY <1>0 DEF TypeOK
    <3>2. ASSUME NEW d \in Clients PROVE buf'[d] \in Seq(Lines) /\ Len(buf'[d]) <= Buffer
      <4>1. CASE d = c
        BY <1>0, <1>1, <4>1, EmptyParts, LogStreamAssumption
      <4>2. CASE d # c
        BY <1>0, <1>1, <3>1, <4>2
      <4> QED BY <4>1, <4>2
    <3> QED BY <1>0, <1>1, <3>2, EmptyParts
  <2>2. dropped' \in [Clients -> SUBSET Lines]
    BY <1>0, <1>1
  <2>3. begun' \in [Clients -> [Writers -> 0 .. MaxLines]]
    BY <1>0, <1>1, <1>2
  <2>4. phase' \in [Clients -> {"away", "listed", "replayed", "live", "leaving"}]
    BY <1>0, <1>1
  <2>5. streams' \subseteq Clients /\ closed' \subseteq Clients
    BY <1>0, <1>1
  <2> QED BY <1>0, <1>1, <2>1, <2>2, <2>3, <2>4, <2>5 DEF TypeOK, table, writers
<1>4. /\ phase'[c] = "live" /\ c \in streams' /\ c \notin closed' /\ buf'[c] = <<>>
      /\ received' = received /\ due' = due /\ line' = line /\ appending' = appending
      /\ \A w \in Writers : begun'[c][w] = line[w].nr
  BY <1>0, <1>1 DEF writers
<1>5. PICK s \in Seq(Lines) : s = received[c]
  BY <1>0
<1>6. Sent(c)' = s
  <2>1. Sent(c)' = s \o <<>>
    BY <1>4, <1>5 DEF Sent
  <2> QED BY <1>5, <2>1, EmptyParts
<1>7. /\ InOrder(s) /\ Stamped(s)
      /\ \A l \in due[c] : Published(l.by, l.nr) /\ \E i \in 1 .. Len(s) : s[i] = l
  BY <1>0, <1>1, <1>5 DEF ClientInv, ReplayInv
<1>8. /\ Len(s) \in Nat /\ \A w \in Writers : line[w].nr \in Nat
      /\ \A i \in 1 .. Len(s) : s[i].by \in Writers
  BY <1>0, <1>5, LinesTyped, LenProperties, ElementOfSeq
<1>9. LiveInv(c, s, Len(s))'
  <2>1. \A i \in 1 .. Len(s) : s[i].nr <= begun'[c][s[i].by]
    BY <1>4, <1>7, <1>8 DEF Stamped
  <2>2. \A i \in 1 .. Len(s) : i <= Len(s) /\ ~(Len(s) < i)
    BY <1>8
  <2>3. \A l \in due'[c] : Published(l.by, l.nr)' /\ \E i \in 1 .. Len(s) : i <= Len(s) /\ s[i] = l
    BY <1>4, <1>7, <2>2 DEF Published
  <2>4. \A w \in Writers : \A n \in (begun'[c][w] + 1) .. line'[w].nr : FALSE
    BY <1>4, <1>8
  <2> QED BY <1>7, <2>1, <2>2, <2>3, <2>4 DEF LiveInv, InOrder
<1>10. ClientInv(c)'
  <2>1. LiveInv(c, Sent(c), Len(s))'
    BY <1>6, <1>9 DEF LiveInv
  <2>2. \E h \in 0 .. Len(Sent(c)') : LiveInv(c, Sent(c), h)'
    BY <1>6, <1>8, <2>1
  <2>3. \A w \in Writers : begun'[c][w] <= line'[w].nr
    BY <1>4, <1>8
  <2> QED BY <1>4, <2>2, <2>3 DEF ClientInv
<1>11. \A d \in Clients \ {c} :
         /\ phase'[d] = phase[d] /\ buf'[d] = buf[d] /\ begun'[d] = begun[d]
         /\ dropped'[d] = dropped[d]
         /\ (d \in streams' <=> d \in streams) /\ (d \in closed' => d \in closed)
  BY <1>0, <1>1
<1> QED BY <1>1, <1>3, <1>10, <1>11, ClientStep

LEMMA HeadMoves ==
  ASSUME NEW S, NEW s \in Seq(S), NEW t \in Seq(S), t # <<>>
  PROVE  /\ Append(s, Head(t)) \in Seq(S) /\ Tail(t) \in Seq(S) /\ Len(Tail(t)) = Len(t) - 1
         /\ Append(s, Head(t)) \o Tail(t) = s \o t
<1>0. Len(s) \in Nat /\ Len(t) \in Nat \ {0}
  BY LenProperties
<1>1. /\ Tail(t) \in Seq(S) /\ Len(Tail(t)) = Len(t) - 1 /\ Head(t) \in S /\ Head(t) = t[1]
      /\ \A i \in 1 .. Len(Tail(t)) : Tail(t)[i] = t[i + 1]
  BY <1>0, HeadTailProperties, ElementOfSeq
<1>2. PICK u \in Seq(S), v \in Seq(S) : u = Append(s, Head(t)) /\ v = Tail(t)
  BY <1>1, AppendParts
<1>3. /\ Len(u) = Len(s) + 1 /\ u[Len(s) + 1] = t[1] /\ \A i \in 1 .. Len(s) : u[i] = s[i]
      /\ Len(v) = Len(t) - 1 /\ \A i \in 1 .. Len(v) : v[i] = t[i + 1]
  BY <1>1, <1>2, AppendParts
<1>4. /\ u \o v \in Seq(S) /\ Len(u \o v) = Len(s) + Len(t)
      /\ s \o t \in Seq(S) /\ Len(s \o t) = Len(s) + Len(t)
  <2>1. u \o v \in Seq(S) /\ Len(u \o v) = Len(u) + Len(v)
    BY ConcatProperties
  <2>2. s \o t \in Seq(S) /\ Len(s \o t) = Len(s) + Len(t)
    BY ConcatProperties
  <2>3. Len(u) + Len(v) = Len(s) + Len(t)
    BY <1>0, <1>3
  <2> QED BY <2>1, <2>2, <2>3
<1>5. /\ Len(u) + Len(v) = Len(s) + Len(t)
      /\ \A i \in 1 .. Len(s) + Len(t) : (u \o v)[i] = IF i <= Len(u) THEN u[i] ELSE v[i - Len(u)]
      /\ \A i \in 1 .. Len(s) + Len(t) : (s \o t)[i] = IF i <= Len(s) THEN s[i] ELSE t[i - Len(s)]
  <2>1. Len(u) + Len(v) = Len(s) + Len(t)
    BY <1>0, <1>3
  <2>2. \A i \in 1 .. Len(u) + Len(v) : (u \o v)[i] = IF i <= Len(u) THEN u[i] ELSE v[i - Len(u)]
    BY ConcatProperties
  <2>3. \A i \in 1 .. Len(s) + Len(t) : (s \o t)[i] = IF i <= Len(s) THEN s[i] ELSE t[i - Len(s)]
    BY ConcatProperties
  <2> QED BY <2>1, <2>2, <2>3
<1>7. ASSUME NEW i \in 1 .. Len(s) + Len(t) PROVE (u \o v)[i] = (s \o t)[i]
  <2>1. CASE i <= Len(s)
    BY <1>0, <1>3, <1>5, <2>1
  <2>2. CASE i = Len(s) + 1
    <3>1. (u \o v)[i] = u[i] /\ u[i] = t[1]
      BY <1>0, <1>3, <1>5, <2>2
    <3>2. (s \o t)[i] = t[i - Len(s)] /\ i - Len(s) = 1
      BY <1>0, <1>5, <2>2
    <3> QED BY <3>1, <3>2
  <2>3. CASE Len(s) + 1 < i
    <3>1. /\ i - Len(u) \in 1 .. Len(v) /\ (i - Len(u)) + 1 = i - Len(s)
          /\ ~(i <= Len(u)) /\ ~(i <= Len(s))
      BY <1>0, <1>3, <2>3
    <3>2. (u \o v)[i] = v[i - Len(u)] /\ (s \o t)[i] = t[i - Len(s)]
      BY <1>5, <3>1
    <3>3. v[i - Len(u)] = t[(i - Len(u)) + 1]
      BY <1>3, <3>1
    <3> QED BY <3>1, <3>2, <3>3
  <2>4. i <= Len(s) \/ i = Len(s) + 1 \/ Len(s) + 1 < i
    BY <1>0
  <2> QED BY <2>1, <2>2, <2>3, <2>4
<1>6. u \o v = s \o t
  BY <1>4, <1>7, SeqEqual
<1> QED BY <1>1, <1>2, <1>6

LEMMA DeliverInv ==
  ASSUME IInv, NEW c \in Clients, Deliver(c)
  PROVE  IInv'
<1>0. /\ TypeOK /\ ClientInv(c)
      /\ received \in [Clients -> Seq(Lines)] /\ buf \in [Clients -> Seq(Lines)]
      /\ \A d \in Clients : Len(buf[d]) <= Buffer /\ Len(buf[d]) \in Nat
  BY LenProperties DEF IInv, TypeOK
<1>1. /\ phase[c] = "live" /\ buf[c] # <<>>
      /\ received' = [received EXCEPT ![c] = Append(received[c], Head(buf[c]))]
      /\ buf' = [buf EXCEPT ![c] = Tail(buf[c])]
      /\ UNCHANGED <<table, writers, streams, closed, dropped, phase, history, conns, due, begun>>
  BY DEF Deliver
<1>2. PICK s \in Seq(Lines), t \in Seq(Lines) : s = received[c] /\ t = buf[c]
  BY <1>0
<1>3. /\ Append(s, Head(t)) \in Seq(Lines) /\ Tail(t) \in Seq(Lines)
      /\ Len(Tail(t)) = Len(t) - 1 /\ Append(s, Head(t)) \o Tail(t) = s \o t
  <2>1. t # <<>>
    BY <1>1, <1>2
  <2> QED BY <2>1, HeadMoves
<1>4. /\ received'[c] = Append(s, Head(t)) /\ buf'[c] = Tail(t)
      /\ \A d \in Clients \ {c} : received'[d] = received[d] /\ buf'[d] = buf[d]
  BY <1>0, <1>1, <1>2
<1>5. Sent(c)' = Sent(c)
  <2>1. Sent(c)' = received'[c] \o buf'[c] /\ Sent(c) = s \o t
    BY <1>2 DEF Sent
  <2> QED BY <1>3, <1>4, <2>1
<1>6. TypeOK'
  <2>1. \A d \in Clients :
          received'[d] \in Seq(Lines) /\ buf'[d] \in Seq(Lines) /\ Len(buf'[d]) <= Buffer
    <3>1. ASSUME NEW d \in Clients
          PROVE  received'[d] \in Seq(Lines) /\ buf'[d] \in Seq(Lines) /\ Len(buf'[d]) <= Buffer
      <4>1. CASE d = c
        <5>1. Len(t) \in Nat /\ Len(t) <= Buffer
          BY <1>0, <1>2
        <5>2. Len(t) - 1 <= Buffer
          BY <5>1, LogStreamAssumption
        <5>3. received'[c] \in Seq(Lines) /\ buf'[c] \in Seq(Lines) /\ Len(buf'[c]) = Len(t) - 1
          BY <1>3, <1>4
        <5> QED BY <4>1, <5>2, <5>3
      <4>2. CASE d # c
        BY <1>0, <1>4, <4>2
      <4> QED BY <4>1, <4>2
    <3> QED BY <3>1
  <2>2. received' \in [Clients -> Seq(Lines)] /\ buf' \in [Clients -> Seq(Lines)]
    BY <1>0, <1>1, <1>2, <1>3
  <2> QED BY <1>0, <1>1, <2>1, <2>2 DEF TypeOK, table, writers
<1>7. ClientInv(c)'
  <2>1. /\ phase' = phase /\ streams' = streams /\ closed' = closed /\ begun' = begun
        /\ line' = line /\ appending' = appending /\ due' = due /\ dropped' = dropped
    BY <1>1 DEF writers
  <2>2. PICK h \in 0 .. Len(Sent(c)) : LiveInv(c, Sent(c), h)
    BY <1>0, <1>1 DEF ClientInv
  <2>3. PICK u : u = Sent(c)
    OBVIOUS
  <2>4. LiveInv(c, u, h)
    BY <2>2, <2>3
  <2>5. LiveInv(c, u, h)'
    <3>1. \A v, n : Published(v, n)' <=> Published(v, n)
      BY <2>1 DEF Published
    <3>2. \A v, n : Missed(c, v, n)' <=> Missed(c, v, n)
      BY <2>1 DEF Missed
    <3> QED BY <2>1, <2>4, <3>1, <3>2 DEF LiveInv
  <2>6. u = Sent(c)'
    BY <1>5, <2>3
  <2>7. LiveInv(c, Sent(c), h)'
    BY <2>5, <2>6 DEF LiveInv
  <2>8. \E k \in 0 .. Len(Sent(c)') : LiveInv(c, Sent(c), k)'
    BY <1>5, <2>2, <2>7
  <2> QED BY <1>0, <1>1, <2>1, <2>8 DEF ClientInv
<1> QED BY <1>1, <1>4, <1>6, <1>7, ClientStep

LEMMA LeaveInv ==
  ASSUME IInv, NEW c \in Clients, Leave(c)
  PROVE  IInv'
<1>0. /\ TypeOK /\ ClientInv(c) /\ streams \subseteq Clients
      /\ phase \in [Clients -> {"away", "listed", "replayed", "live", "leaving"}]
      /\ received \in [Clients -> Seq(Lines)] /\ buf \in [Clients -> Seq(Lines)]
      /\ due \in [Clients -> SUBSET Lines] /\ dropped \in [Clients -> SUBSET Lines]
      /\ begun \in [Clients -> [Writers -> 0 .. MaxLines]]
  BY DEF IInv, TypeOK
<1>1. /\ phase[c] = "live" /\ phase' = [phase EXCEPT ![c] = "leaving"]
      /\ streams' = streams \ {c} /\ buf' = [buf EXCEPT ![c] = <<>>]
      /\ received' = [received EXCEPT ![c] = <<>>] /\ due' = [due EXCEPT ![c] = {}]
      /\ begun' = [begun EXCEPT ![c] = [w \in Writers |-> 0]]
      /\ dropped' = [dropped EXCEPT ![c] = {}]
      /\ UNCHANGED <<table, writers, closed, history, conns>>
  BY DEF Leave, ForgetSession
<1>2. [w \in Writers |-> 0] \in [Writers -> 0 .. MaxLines]
  BY LogStreamAssumption
<1>3. TypeOK'
  <2>1. \A d \in Clients : buf'[d] \in Seq(Lines) /\ Len(buf'[d]) <= Buffer
    <3>1. \A d \in Clients : Len(buf[d]) <= Buffer
      BY <1>0 DEF TypeOK
    <3> QED BY <1>0, <1>1, <3>1, EmptyParts, LogStreamAssumption
  <2>2. /\ buf' \in [Clients -> Seq(Lines)] /\ received' \in [Clients -> Seq(Lines)]
        /\ due' \in [Clients -> SUBSET Lines] /\ dropped' \in [Clients -> SUBSET Lines]
    BY <1>0, <1>1, EmptyParts
  <2>3. begun' \in [Clients -> [Writers -> 0 .. MaxLines]]
    BY <1>0, <1>1, <1>2
  <2>4. phase' \in [Clients -> {"away", "listed", "replayed", "live", "leaving"}]
    BY <1>0, <1>1
  <2> QED BY <1>0, <1>1, <2>1, <2>2, <2>3, <2>4 DEF TypeOK, table, writers
<1>4. ClientInv(c)'
  <2>1. /\ phase'[c] = "leaving" /\ c \notin streams' /\ buf'[c] = <<>> /\ received'[c] = <<>>
        /\ \A w \in Writers : begun'[c][w] = 0
    BY <1>0, <1>1
  <2>2. line' = line /\ \A w \in Writers : line[w].nr \in Nat
    BY <1>0, <1>1, LinesTyped DEF writers
  <2> QED BY <2>1, <2>2 DEF ClientInv
<1>5. \A d \in Clients \ {c} :
        /\ phase'[d] = phase[d] /\ buf'[d] = buf[d] /\ received'[d] = received[d]
        /\ due'[d] = due[d] /\ begun'[d] = begun[d] /\ dropped'[d] = dropped[d]
        /\ (d \in streams' <=> d \in streams)
  BY <1>0, <1>1
<1> QED BY <1>1, <1>3, <1>4, <1>5, ClientStep

LEMMA CloseInv ==
  ASSUME IInv, NEW c \in Clients, Close(c)
  PROVE  IInv'
<1>0. /\ TypeOK /\ ClientInv(c) /\ closed \subseteq Clients
      /\ phase \in [Clients -> {"away", "listed", "replayed", "live", "leaving"}]
  BY DEF IInv, TypeOK
<1>1. /\ phase[c] = "leaving" /\ phase' = [phase EXCEPT ![c] = "away"]
      /\ closed' = closed \union {c}
      /\ UNCHANGED <<table, writers, streams, buf, dropped, history, received, conns, due, begun>>
  BY DEF Close
<1>2. phase' \in [Clients -> {"away", "listed", "replayed", "live", "leaving"}]
      /\ closed' \subseteq Clients
  BY <1>0, <1>1
<1>3. TypeOK'
  BY <1>0, <1>1, <1>2 DEF TypeOK, table, writers
<1>4. ClientInv(c)'
  <2>1. phase'[c] = "away" /\ line' = line
    BY <1>0, <1>1 DEF writers
  <2> QED BY <1>0, <1>1, <2>1 DEF ClientInv
<1>5. \A d \in Clients \ {c} : phase'[d] = phase[d] /\ (d \in closed' => d \in closed)
  BY <1>0, <1>1
<1> QED BY <1>1, <1>3, <1>4, <1>5, ClientStep

-----------------------------------------------------------------------------
LEMMA NextInv == IInv /\ [Next]_vars => IInv'
<1> SUFFICES ASSUME IInv, [Next]_vars PROVE IInv'
  OBVIOUS
<1>1. ASSUME NEW w \in Writers, Stamp(w) \/ AppendLine(w) PROVE IInv'
  BY <1>1, StampInv, InsertInv, PublishInv DEF AppendLine
<1>2. ASSUME NEW c \in Clients,
             List(c) \/ Replay(c) \/ Subscribe(c) \/ Deliver(c) \/ Leave(c) \/ Close(c)
      PROVE  IInv'
  BY <1>2, ListInv, ReplayStepInv, SubscribeInv, DeliverInv, LeaveInv, CloseInv
<1>3. CASE UNCHANGED vars
  <2>1. /\ UNCHANGED <<clock, stored, appending, line, streams, buf, closed, dropped>>
        /\ UNCHANGED <<phase, history, received, conns, due, begun>>
    BY <1>3 DEF vars, table, writers, channel, session
  <2>2. TypeOK /\ StoredInv /\ \A c \in Clients : ClientInv(c)
    BY DEF IInv
  <2>3. TypeOK' /\ StoredInv'
    BY <2>1, <2>2 DEF TypeOK, StoredInv, InOrder, Stamped
  <2>4. \A c \in Clients : ClientInv(c)'
    <3>1. \A w \in Writers, n \in Nat : Published(w, n)' <=> Published(w, n)
      BY <2>1 DEF Published
    <3>2. \A w \in Writers : line'[w].nr = line[w].nr /\ line[w].nr \in Nat
      BY <2>1, <2>2, LinesTyped
    <3> QED BY <2>1, <2>2, <3>1, <3>2, ClientKept
  <2> QED BY <2>3, <2>4 DEF IInv
<1> QED BY <1>1, <1>2, <1>3 DEF Next

LEMMA Inductive == Spec => []IInv
<1>1. Init => IInv
  BY InitInv
<1>2. IInv /\ [Next]_vars => IInv'
  BY NextInv
<1> QED BY <1>1, <1>2, PTL DEF Spec

-----------------------------------------------------------------------------
(* Every variable keeps its type, and no channel ever holds more than its  *)
(* capacity.                                                               *)
THEOREM LogStreamTypeOK == Spec => []TypeOK
<1>1. IInv => TypeOK
  BY DEF IInv
<1> QED BY <1>1, Inductive, PTL

(* publishExecutionLog never sends on a channel that is closed: a client   *)
(* that is registered is live, and a live client's channel is open.        *)
THEOREM StreamsStayOpen == Spec => []StreamsAreOpen
<1>1. IInv => StreamsAreOpen
  BY DEF IInv, TypeOK, ClientInv, StreamsAreOpen
<1> QED BY <1>1, Inductive, PTL

(* One connection hears each writer in order: the table is sorted, what is *)
(* published comes in the order of the appends, and the part of the table  *)
(* does not reach beyond the line at which the published part begins.      *)
THEOREM WritersAreHeardInOrder == Spec => []WriterOrderKept
<1>1. ASSUME IInv PROVE WriterOrderKept
  <2>1. ASSUME NEW c \in Clients,
               NEW i \in DOMAIN Sent(c), NEW k \in DOMAIN Sent(c), i < k,
               Sent(c)[i].by = Sent(c)[k].by
        PROVE  Sent(c)[i].nr <= Sent(c)[k].nr
    <3>0. TypeOK /\ ClientInv(c)
      BY <1>1 DEF IInv
    <3>1. PICK s \in Seq(Lines) : s = Sent(c)
      BY <3>0, SentParts
    <3>2. /\ DOMAIN s = 1 .. Len(s) /\ Len(s) \in Nat
          /\ \A j \in 1 .. Len(s) : s[j].by \in Writers /\ s[j].nr \in Nat
          /\ \A w \in Writers : begun[c][w] \in Nat
      BY <3>0, <3>1, LinesTyped, LenProperties, ElementOfSeq, LogStreamAssumption
    <3>3. CASE phase[c] = "live"
      <4>1. PICK h \in 0 .. Len(s) : LiveInv(c, s, h)
        BY <3>0, <3>1, <3>3 DEF ClientInv
      <4>2. CASE k <= h \/ h < i
        BY <2>1, <3>1, <3>2, <4>1, <4>2 DEF LiveInv
      <4>3. CASE i <= h /\ h < k
        <5>1. s[i].nr <= begun[c][s[i].by] /\ begun[c][s[k].by] <= s[k].nr
          BY <3>1, <3>2, <4>1, <4>3 DEF LiveInv
        <5> QED BY <2>1, <3>1, <3>2, <5>1
      <4> QED BY <2>1, <3>1, <3>2, <4>1, <4>2, <4>3
    <3>4. CASE phase[c] # "live"
      <4>1. s = received[c]
        <5>1. buf[c] = <<>> /\ received[c] \in Seq(Lines)
          BY <3>0, <3>4 DEF ClientInv, TypeOK
        <5> QED BY <3>1, <5>1, EmptyParts DEF Sent
      <4>2. CASE phase[c] = "replayed"
        <5>1. InOrder(s)
          BY <3>0, <4>1, <4>2 DEF ClientInv, ReplayInv
        <5> QED BY <2>1, <3>1, <3>2, <5>1 DEF InOrder
      <4>3. CASE phase[c] # "replayed"
        <5>1. s = <<>>
          BY <3>0, <3>4, <4>1, <4>3 DEF ClientInv
        <5> QED BY <2>1, <3>1, <3>2, <5>1, EmptyParts
      <4> QED BY <4>2, <4>3
    <3> QED BY <3>3, <3>4
  <2> QED BY <2>1 DEF WriterOrderKept
<1> QED BY <1>1, Inductive, PTL

(* Where s has line n of writer w.                                         *)
At(s, w, n) == {i \in DOMAIN s : s[i].by = w /\ s[i].nr = n}

(* The entries of a live client with one number of one writer: at most one *)
(* in each of the two parts, and the two at the seam.                      *)
LEMMA Entries ==
  ASSUME IInv, NEW c \in Clients, NEW s \in Seq(Lines), s = Sent(c),
         NEW h \in 0 .. Len(s), LiveInv(c, s, h), NEW w \in Writers, NEW n \in Nat
  PROVE  /\ \A i \in At(s, w, n) : i \in 1 .. Len(s) /\ (i <= h => n <= begun[c][w])
                                  /\ (h < i => begun[c][w] <= n)
         /\ \A i \in At(s, w, n) :
              (\A k \in At(s, w, n) : k <= h <=> i <= h) => Times(c, w, n) = 1
         /\ \A i, k \in At(s, w, n) :
              i <= h /\ h < k => Times(c, w, n) = 2 /\ n = begun[c][w]
         /\ At(s, w, n) = {} => Times(c, w, n) = 0
<1> DEFINE P == At(s, w, n)
<1>0. /\ DOMAIN s = 1 .. Len(s) /\ Len(s) \in Nat /\ TypeOK
      /\ \A j \in 1 .. Len(s) : s[j].by \in Writers /\ s[j].nr \in Nat
      /\ begun[c][w] \in Nat
  BY LinesTyped, LenProperties, ElementOfSeq, LogStreamAssumption DEF IInv
<1>1. Times(c, w, n) = Cardinality(P)
  BY DEF Times, At
<1>2. \A i \in P : /\ i \in 1 .. Len(s) /\ s[i].by = w /\ s[i].nr = n
                   /\ (i <= h => n <= begun[c][w]) /\ (h < i => begun[c][w] <= n)
  BY <1>0 DEF LiveInv, At
<1>3. ASSUME NEW i \in P, NEW k \in P, i <= h <=> k <= h PROVE i = k
  <2>1. ~(i < k)
    <3>1. CASE i < k
      <4>1. s[i].nr < s[k].nr
        BY <1>0, <1>2, <1>3, <3>1 DEF LiveInv
      <4> QED BY <1>2, <4>1
    <3> QED BY <3>1
  <2>2. ~(k < i)
    <3>1. CASE k < i
      <4>1. s[k].nr < s[i].nr
        BY <1>0, <1>2, <1>3, <3>1 DEF LiveInv
      <4> QED BY <1>2, <4>1
    <3> QED BY <3>1
  <2>3. i \in Nat /\ k \in Nat
    BY <1>0, <1>2
  <2> QED BY <2>1, <2>2, <2>3
<1> HIDE DEF P
<1>4. ASSUME NEW i \in P, \A k \in P : k <= h <=> i <= h PROVE Times(c, w, n) = 1
  <2>1. P = {i}
    BY <1>3, <1>4
  <2> QED BY <1>1, <2>1, FS_Singleton
<1>5. ASSUME NEW i \in P, NEW k \in P, i <= h, h < k
      PROVE  Times(c, w, n) = 2 /\ n = begun[c][w]
  <2>1. i # k /\ \A j \in P : (j <= h <=> i <= h) \/ (j <= h <=> k <= h)
    BY <1>0, <1>2, <1>5
  <2>2. P = {i} \union {k} /\ k \notin {i}
    BY <1>3, <2>1
  <2>3. IsFiniteSet({i}) /\ Cardinality({i}) = 1
    BY FS_Singleton
  <2>4. Cardinality(P) = 2
    <3>1. Cardinality({i} \union {k}) = Cardinality({i}) + 1
      BY <2>2, <2>3, FS_AddElement
    <3>2. Cardinality(P) = Cardinality({i} \union {k})
      BY <2>2, Zenon
    <3>3. Cardinality(P) = 1 + 1
      BY <2>3, <3>1, <3>2, Zenon
    <3> QED BY <3>3
  <2> QED BY <1>0, <1>1, <1>2, <1>5, <2>4
<1>6. P = {} => Times(c, w, n) = 0
  BY <1>1, FS_EmptySet
<1> QED BY <1>1, <1>2, <1>3, <1>4, <1>5, <1>6 DEF P

(* A live client gets each line that is due of its history exactly once,   *)
(* each line begun after it subscribed exactly once unless its channel was *)
(* full, and twice only the line its writer was at when it subscribed.     *)
THEOREM LinesComeOnce == Spec => []DeliveredOnce
<1>1. ASSUME IInv PROVE DeliveredOnce
  <2>1. ASSUME NEW c \in streams
        PROVE  /\ \A l \in due[c] : Times(c, l.by, l.nr) = 1
               /\ \A w \in Writers :
                    /\ \A n \in (begun[c][w] + 1)..line[w].nr :
                         Published(w, n) /\ (\A l \in dropped[c] : l.by # w \/ l.nr # n)
                           => Times(c, w, n) = 1
                    /\ \A n \in 1..line[w].nr :
                         Times(c, w, n) > 1 => Times(c, w, n) = 2 /\ n = begun[c][w]
    <3>0. TypeOK /\ c \in Clients /\ ClientInv(c)
      BY <1>1, <2>1 DEF IInv, TypeOK
    <3>1. PICK s \in Seq(Lines) : s = Sent(c)
      BY <3>0, SentParts
    <3>2. PICK h \in 0 .. Len(s) : LiveInv(c, s, h)
      BY <2>1, <3>0, <3>1 DEF ClientInv
    <3>3. /\ DOMAIN s = 1 .. Len(s) /\ Len(s) \in Nat /\ h \in Nat
          /\ \A w \in Writers : begun[c][w] \in Nat /\ line[w].nr \in Nat
          /\ \A l \in due[c] : l.by \in Writers /\ l.nr \in Nat
      BY <3>0, LinesTyped, LenProperties, LogStreamAssumption
    <3>4. ASSUME NEW w \in Writers, NEW n \in Nat
          PROVE  /\ \A i \in At(s, w, n) : i \in 1 .. Len(s) /\ (i <= h => n <= begun[c][w])
                 /\ \A i \in At(s, w, n) :
                      (\A k \in At(s, w, n) : k <= h <=> i <= h) => Times(c, w, n) = 1
                 /\ \A i, k \in At(s, w, n) : i <= h /\ h < k =>
                      Times(c, w, n) = 2 /\ n = begun[c][w]
                 /\ At(s, w, n) = {} => Times(c, w, n) = 0
      BY <1>1, <3>0, <3>1, <3>2, Entries
    <3>5. ASSUME NEW l \in due[c] PROVE Times(c, l.by, l.nr) = 1
      <4>1. PICK i \in 1 .. Len(s) : i <= h /\ s[i] = l
        BY <3>2 DEF LiveInv
      <4>2. i \in At(s, l.by, l.nr)
        BY <3>3, <4>1 DEF At
      <4>3. \A k \in At(s, l.by, l.nr) : ~(h < k)
        BY <3>2, <3>3 DEF LiveInv, At
      <4>4. \A k \in At(s, l.by, l.nr) : k \in 1 .. Len(s)
        BY <3>3 DEF At
      <4>5. \A k \in At(s, l.by, l.nr) : k <= h <=> i <= h
        BY <3>3, <4>1, <4>3, <4>4
      <4> QED BY <3>3, <3>4, <4>2, <4>5
    <3>6. ASSUME NEW w \in Writers, NEW n \in (begun[c][w] + 1)..line[w].nr,
                 Published(w, n), \A l \in dropped[c] : l.by # w \/ l.nr # n
          PROVE  Times(c, w, n) = 1
      <4>1. PICK i \in 1 .. Len(s) : h < i /\ s[i].by = w /\ s[i].nr = n
        BY <3>2, <3>6 DEF LiveInv, Missed
      <4>2. i \in At(s, w, n) /\ n \in Nat /\ ~(n <= begun[c][w]) /\ ~(i <= h)
        BY <3>3, <3>6, <4>1 DEF At
      <4>3. \A k \in At(s, w, n) : k <= h <=> i <= h
        BY <3>4, <4>2
      <4> QED BY <3>4, <4>2, <4>3
    <3>7. ASSUME NEW w \in Writers, NEW n \in 1..line[w].nr, Times(c, w, n) > 1
          PROVE  Times(c, w, n) = 2 /\ n = begun[c][w]
      <4>0. n \in Nat
        BY <3>3
      <4>1. PICK i \in At(s, w, n) : TRUE
        BY <3>4, <3>7, <4>0
      <4>2. PICK k \in At(s, w, n) : ~(k <= h <=> i <= h)
        BY <3>4, <3>7, <4>0
      <4>3. i \in 1 .. Len(s) /\ k \in 1 .. Len(s)
        BY <3>4, <4>0
      <4> QED BY <3>3, <3>4, <4>0, <4>2, <4>3
    <3> QED BY <3>5, <3>6, <3>7
  <2> QED BY <2>1 DEF DeliveredOnce
<1> QED BY <1>1, Inductive, PTL
================================================================================
