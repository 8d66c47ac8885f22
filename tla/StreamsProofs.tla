---------------------------- MODULE StreamsProofs ---------------------------
(***************************************************************************)
(* Proofs about the two kinds of stream connection (Streams): that a TCP   *)
(* connection never wedges and keeps every read in one place               *)
(* (EveryReadOnce), and that a WebSocket connection has one handler and    *)
(* shows the frames in arrival order (FramesInOrder).                      *)
(*                                                                         *)
(* The first part is about sequences: what a concatenation and a cut hold, *)
(* and when chunk lengths cover a queue.  Then, for each connection, the   *)
(* inductive invariant, what one step has to show, and one lemma per       *)
(* action.                                                                 *)
(***************************************************************************)
EXTENDS Streams, SequenceTheorems, FiniteSetTheorems, TLAPS

Distinct(s) == \A i, j \in 1..Len(s) : s[i] = s[j] => i = j

(***************************************************************************)
(* Two sequences in a row hold what each of them holds.                    *)
(***************************************************************************)
LEMMA ConcatHolds ==
    ASSUME NEW S, NEW s \in Seq(S), NEW u \in Seq(S)
    PROVE  /\ s \o u \in Seq(S) /\ Len(s \o u) = Len(s) + Len(u)
           /\ \A r : Contains(s \o u, r) <=> Contains(s, r) \/ Contains(u, r)
           /\ (/\ Distinct(s) /\ Distinct(u)
               /\ \A r : ~(Contains(s, r) /\ Contains(u, r))) => Distinct(s \o u)
<1>1. /\ s \o u \in Seq(S) /\ Len(s \o u) = Len(s) + Len(u)
      /\ Len(s) \in Nat /\ Len(u) \in Nat
      /\ \A i \in 1..(Len(s) + Len(u)) :
            (s \o u)[i] = IF i <= Len(s) THEN s[i] ELSE u[i - Len(s)]
  OBVIOUS
<1>2. \A r : Contains(s \o u, r) <=> Contains(s, r) \/ Contains(u, r)
  <2> TAKE r
  <2>1. ASSUME Contains(s \o u, r) PROVE Contains(s, r) \/ Contains(u, r)
    <3>1. PICK i \in 1..(Len(s) + Len(u)) : (s \o u)[i] = r
      BY <1>1, <2>1 DEF Contains
    <3>2. CASE i <= Len(s)
      BY <1>1, <3>1, <3>2 DEF Contains
    <3>3. CASE i > Len(s)
      <4>1. i - Len(s) \in 1..Len(u) /\ u[i - Len(s)] = r
        BY <1>1, <3>1, <3>3
      <4> QED
        BY <4>1 DEF Contains
    <3> QED
      BY <1>1, <3>2, <3>3
  <2>2. ASSUME Contains(s, r) PROVE Contains(s \o u, r)
    BY <1>1, <2>2 DEF Contains
  <2>3. ASSUME Contains(u, r) PROVE Contains(s \o u, r)
    <3>1. PICK i \in 1..Len(u) : u[i] = r
      BY <2>3 DEF Contains
    <3>2. /\ Len(s) + i \in 1..(Len(s) + Len(u)) /\ ~(Len(s) + i <= Len(s))
          /\ (Len(s) + i) - Len(s) = i
      BY <1>1, <3>1
    <3>3. (s \o u)[Len(s) + i] = r
      BY <1>1, <3>1, <3>2
    <3> QED
      BY <1>1, <3>2, <3>3 DEF Contains
  <2> QED
    BY <2>1, <2>2, <2>3
<1>3. ASSUME Distinct(s), Distinct(u), \A r : ~(Contains(s, r) /\ Contains(u, r)),
             NEW i \in 1..Len(s \o u), NEW j \in 1..Len(s \o u), (s \o u)[i] = (s \o u)[j]
      PROVE  i = j
  <2>1. CASE i <= Len(s) /\ j <= Len(s)
    BY <1>1, <1>3, <2>1 DEF Distinct
  <2>2. CASE i > Len(s) /\ j > Len(s)
    <3>1. /\ i - Len(s) \in 1..Len(u) /\ j - Len(s) \in 1..Len(u)
          /\ u[i - Len(s)] = u[j - Len(s)]
      BY <1>1, <1>3, <2>2
    <3>2. i - Len(s) = j - Len(s)
      BY <1>3, <3>1 DEF Distinct
    <3> QED
      BY <1>1, <3>2
  <2>3. CASE i <= Len(s) /\ j > Len(s)
    <3>1. i \in 1..Len(s) /\ j - Len(s) \in 1..Len(u) /\ s[i] = u[j - Len(s)]
      BY <1>1, <1>3, <2>3
    <3> QED
      BY <1>3, <3>1 DEF Contains
  <2>4. CASE i > Len(s) /\ j <= Len(s)
    <3>1. j \in 1..Len(s) /\ i - Len(s) \in 1..Len(u) /\ s[j] = u[i - Len(s)]
      BY <1>1, <1>3, <2>4
    <3> QED
      BY <1>3, <3>1 DEF Contains
  <2> QED
    BY <1>1, <2>1, <2>2, <2>3, <2>4
<1> QED
  BY <1>1, <1>2, <1>3 DEF Distinct

(***************************************************************************)
(* A cut of a sequence loses nothing and copies nothing.                   *)
(***************************************************************************)
LEMMA CutHolds ==
    ASSUME NEW S, NEW s \in Seq(S), NEW n \in 0..Len(s)
    PROVE  LET a == SubSeq(s, 1, n)
               b == SubSeq(s, n + 1, Len(s))
           IN  /\ a \in Seq(S) /\ b \in Seq(S) /\ Len(a) = n /\ Len(b) = Len(s) - n
               /\ \A r : Contains(s, r) <=> Contains(a, r) \/ Contains(b, r)
               /\ Distinct(s) => /\ Distinct(a) /\ Distinct(b)
                                 /\ \A r : ~(Contains(a, r) /\ Contains(b, r))
<1> DEFINE a == SubSeq(s, 1, n)
           b == SubSeq(s, n + 1, Len(s))
<1>1. Len(s) \in Nat /\ n \in Nat /\ n <= Len(s)
  OBVIOUS
<1>2. a \in Seq(S) /\ Len(a) = n /\ \A i \in 1..n : a[i] = s[i]
  BY <1>1
<1>3. b \in Seq(S) /\ Len(b) = Len(s) - n /\ \A i \in 1..(Len(s) - n) : b[i] = s[n + i]
  BY <1>1
<1> HIDE DEF a, b
<1>4. \A r : Contains(s, r) <=> Contains(a, r) \/ Contains(b, r)
  <2> TAKE r
  <2>1. ASSUME Contains(s, r) PROVE Contains(a, r) \/ Contains(b, r)
    <3>1. PICK i \in 1..Len(s) : s[i] = r
      BY <2>1 DEF Contains
    <3>2. CASE i <= n
      BY <1>1, <1>2, <3>1, <3>2 DEF Contains
    <3>3. CASE i > n
      <4>1. i - n \in 1..Len(b) /\ b[i - n] = s[n + (i - n)] /\ n + (i - n) = i
        BY <1>1, <1>3, <3>1, <3>3
      <4> QED
        BY <3>1, <4>1 DEF Contains
    <3> QED
      BY <1>1, <3>2, <3>3
  <2>2. ASSUME Contains(a, r) PROVE Contains(s, r)
    BY <1>1, <1>2, <2>2 DEF Contains
  <2>3. ASSUME Contains(b, r) PROVE Contains(s, r)
    <3>1. PICK i \in 1..Len(b) : b[i] = r
      BY <2>3 DEF Contains
    <3>2. n + i \in 1..Len(s) /\ s[n + i] = r
      BY <1>1, <1>3, <3>1
    <3> QED
      BY <3>2 DEF Contains
  <2> QED
    BY <2>1, <2>2, <2>3
<1>5. ASSUME Distinct(s) PROVE Distinct(a)
  BY <1>1, <1>2, <1>5 DEF Distinct
<1>6. ASSUME Distinct(s) PROVE Distinct(b)
  <2> SUFFICES ASSUME NEW i \in 1..Len(b), NEW j \in 1..Len(b), b[i] = b[j] PROVE i = j
    BY DEF Distinct
  <2>1. n + i \in 1..Len(s) /\ n + j \in 1..Len(s) /\ s[n + i] = s[n + j]
    BY <1>1, <1>3
  <2>2. n + i = n + j
    BY <1>6, <2>1 DEF Distinct
  <2> QED
    BY <1>1, <1>3, <2>2
<1>7. ASSUME Distinct(s), NEW r, Contains(a, r), Contains(b, r) PROVE FALSE
  <2>1. PICK i \in 1..n : s[i] = r
    BY <1>2, <1>7 DEF Contains
  <2>2. PICK j \in 1..Len(b) : b[j] = r
    BY <1>7 DEF Contains
  <2>3. n + j \in 1..Len(s) /\ s[n + j] = r /\ i \in 1..Len(s) /\ i # n + j
    BY <1>1, <1>3, <2>1, <2>2
  <2> QED
    BY <1>7, <2>1, <2>3 DEF Distinct
<1> QED
  BY <1>2, <1>3, <1>4, <1>5, <1>6, <1>7 DEF a, b

(***************************************************************************)
(* Nothing is in the empty sequence, one thing in a sequence of one.       *)
(***************************************************************************)
LEMMA ShortSequences ==
    /\ Distinct(<<>>) /\ \A r : ~Contains(<<>>, r)
    /\ \A x : Distinct(<<x>>) /\ \A r : Contains(<<x>>, r) <=> r = x
<1>1. Len(<<>>) = 0 /\ \A x : Len(<<x>>) = 1 /\ <<x>>[1] = x
  OBVIOUS
<1> QED
  BY <1>1 DEF Distinct, Contains

-----------------------------------------------------------------------------
(***************************************************************************)
(* Every nonempty set of numbers has a least one.                          *)
(***************************************************************************)
LEMMA Least ==
    ASSUME NEW T, T \subseteq Nat, T # {}
    PROVE  \E x \in T : \A y \in T : x <= y
<1>1. \E x \in T : \A y \in T : ~(y < x)
  <2> DEFINE R == OpToRel(<, Nat)
  <2>1. IsWellFoundedOn(R, Nat)
    BY NatLessThanWellFounded
  <2>2. \A x, y \in Nat : y < x => <<y, x>> \in R
    BY DEF OpToRel
  <2> HIDE DEF R
  <2>3. PICK x \in T : \A y \in T : ~(<<y, x>> \in R)
    BY <2>1, WFMin
  <2> QED
    BY <2>2, <2>3, Zenon
<1> QED
  BY <1>1

(***************************************************************************)
(* Chunks that cover a queue still do when a read and its chunk are added, *)
(* and when the first chunk and its bytes are taken away.                  *)
(***************************************************************************)
LEMMA CoversShort ==
    Covers(<<>>, 0) /\ \A k \in Nat : Covers(<<k>>, k)
<1>1. Covers(<<>>, 0)
  <2> DEFINE e == [i \in 0..0 |-> 0]
  <2>1. Len(<<>>) = 0 /\ e \in [0..0 -> 0..0] /\ e[0] = 0 /\ 1..0 = {}
    OBVIOUS
  <2>2. \A i \in 1..0 : e[i] = e[i - 1] + <<>>[i]
    BY <2>1
  <2> HIDE DEF e
  <2> QED
    BY <2>1, <2>2 DEF Covers
<1>2. ASSUME NEW k \in Nat PROVE Covers(<<k>>, k)
  <2> DEFINE e == [i \in 0..1 |-> IF i = 0 THEN 0 ELSE k]
  <2>1. Len(<<k>>) = 1 /\ <<k>>[1] = k
    OBVIOUS
  <2>2. e \in [0..1 -> 0..k] /\ e[0] = 0 /\ e[1] = k /\ \A i \in 1..1 : e[i] = e[i - 1] + <<k>>[i]
    OBVIOUS
  <2> HIDE DEF e
  <2> QED
    BY <2>1, <2>2 DEF Covers
<1> QED
  BY <1>1, <1>2

\* A read behind the queue, with its chunk behind the chunks.
LEMMA CoversAppend ==
    ASSUME NEW c \in Seq(Nat), NEW n \in Nat, NEW k \in Nat, Covers(c, n)
    PROVE  Covers(Append(c, k), n + k)
<1>1. PICK end \in [0..Len(c) -> 0..n] :
          /\ end[0] = 0 /\ end[Len(c)] = n
          /\ \A i \in 1..Len(c) : end[i] = end[i - 1] + c[i]
  BY DEF Covers
<1> DEFINE d == Append(c, k)
           e == [i \in 0..(Len(c) + 1) |-> IF i <= Len(c) THEN end[i] ELSE n + k]
<1>2. /\ Len(c) \in Nat /\ Len(d) = Len(c) + 1 /\ d[Len(c) + 1] = k
      /\ \A i \in 1..Len(c) : d[i] = c[i]
  OBVIOUS
<1>3. e \in [0..Len(d) -> 0..(n + k)]
  <2>1. \A i \in 0..Len(c) : end[i] \in 0..n
    BY <1>1
  <2> QED
    BY <1>2, <2>1
<1>4. e[0] = 0 /\ e[Len(d)] = n + k
  BY <1>1, <1>2
<1>5. ASSUME NEW i \in 1..Len(d) PROVE e[i] = e[i - 1] + d[i]
  <2>1. CASE i <= Len(c)
    <3>1. i \in 1..Len(c) /\ e[i] = end[i] /\ e[i - 1] = end[i - 1] /\ d[i] = c[i]
      BY <1>2, <2>1
    <3> QED
      BY <1>1, <3>1
  <2>2. CASE i = Len(c) + 1
    <3>1. e[i] = n + k /\ i - 1 = Len(c) /\ e[i - 1] = end[Len(c)] /\ d[i] = k
      BY <1>2, <2>2
    <3> QED
      BY <1>1, <3>1
  <2>3. i <= Len(c) \/ i = Len(c) + 1
    BY <1>2
  <2> QED
    BY <2>1, <2>2, <2>3
<1> HIDE DEF d, e
<1>6. Covers(d, n + k)
  BY <1>3, <1>4, <1>5 DEF Covers
<1> QED
  BY <1>6 DEF d

\* The first chunk taken away, with its bytes.
LEMMA CoversTail ==
    ASSUME NEW c \in Seq(Nat), NEW n \in Nat, c # <<>>, Covers(c, n)
    PROVE  /\ c[1] \in 0..n /\ Covers(Tail(c), n - c[1])
           /\ Len(c) = 1 => c[1] = n
<1>1. PICK end \in [0..Len(c) -> 0..n] :
          /\ end[0] = 0 /\ end[Len(c)] = n
          /\ \A i \in 1..Len(c) : end[i] = end[i - 1] + c[i]
  BY DEF Covers
<1> DEFINE d == Tail(c)
           T == {j \in 1..Len(c) : end[j] < end[1]}
           e == [i \in 0..(Len(c) - 1) |-> end[i + 1] - c[1]]
<1>2. /\ Len(c) \in Nat /\ Len(c) >= 1 /\ Len(d) = Len(c) - 1
      /\ \A i \in 1..(Len(c) - 1) : d[i] = c[i + 1]
      /\ \A i \in 1..Len(c) : c[i] \in Nat
  OBVIOUS
<1>3. /\ \A i \in 0..Len(c) : end[i] \in 0..n
      /\ end[1] = c[1] /\ c[1] \in 0..n
  <2>1. 1 \in 1..Len(c) /\ end[1 - 1] = end[0]
    BY <1>2
  <2>2. end[1] = end[0] + c[1] /\ c[1] \in Nat
    BY <1>1, <1>2, <2>1
  <2>3. \A i \in 0..Len(c) : end[i] \in 0..n
    BY <1>1
  <2> QED
    BY <1>1, <1>2, <2>1, <2>2, <2>3
<1>4. ASSUME T # {} PROVE FALSE
  <2>1. PICK x \in T : \A y \in T : x <= y
    <3>1. T \subseteq Nat
      BY <1>2
    <3> HIDE DEF T
    <3> QED
      BY <1>4, <3>1, Least
  <2>2. x \in 1..Len(c) /\ end[x] < end[1] /\ x # 1
    BY <1>3, <2>1
  <2>3. x - 1 \in 1..Len(c) /\ x - 1 \notin T /\ end[x] = end[x - 1] + c[x] /\ c[x] \in Nat
    BY <1>1, <1>2, <2>1, <2>2
  <2>4. end[x - 1] >= end[1] /\ end[x - 1] \in Nat /\ end[1] \in Nat
    BY <1>2, <1>3, <2>3
  <2> QED
    BY <2>2, <2>3, <2>4
<1>5. \A j \in 1..Len(c) : end[j] >= c[1] /\ end[j] - c[1] \in 0..(n - c[1])
  <2> SUFFICES ASSUME NEW j \in 1..Len(c)
               PROVE  end[j] >= c[1] /\ end[j] - c[1] \in 0..(n - c[1])
    OBVIOUS
  <2>1. j \notin T /\ end[j] \in 0..n
    <3>1. j \notin T
      BY <1>4
    <3>2. j \in 0..Len(c)
      BY <1>2
    <3> QED
      BY <1>3, <3>1, <3>2
  <2>2. ~(end[j] < end[1])
    BY <2>1
  <2> QED
    BY <1>3, <2>1, <2>2
<1>6. e \in [0..Len(d) -> 0..(n - c[1])]
  <2>1. ASSUME NEW i \in 0..Len(d) PROVE end[i + 1] - c[1] \in 0..(n - c[1])
    <3>1. i + 1 \in 1..Len(c)
      BY <1>2
    <3> QED
      BY <1>5, <3>1
  <2> QED
    BY <1>2, <2>1
<1>7. e[0] = 0 /\ e[Len(d)] = n - c[1]
  <2>1. /\ e[0] = end[0 + 1] - c[1] /\ 0 + 1 = 1
        /\ e[Len(d)] = end[Len(d) + 1] - c[1] /\ Len(d) + 1 = Len(c)
    BY <1>2
  <2> QED
    BY <1>1, <1>3, <2>1
<1>8. ASSUME NEW i \in 1..Len(d) PROVE e[i] = e[i - 1] + d[i]
  <2>1. /\ i + 1 \in 1..Len(c) /\ i \in 1..Len(c) /\ (i - 1) + 1 = i /\ (i + 1) - 1 = i
        /\ i - 1 \in 0..(Len(c) - 1) /\ i \in 0..(Len(c) - 1)
        /\ d[i] = c[i + 1]
    BY <1>2
  <2>2. e[i] = end[i + 1] - c[1] /\ e[i - 1] = end[i] - c[1]
    BY <2>1
  <2>3. end[i + 1] = end[i] + c[i + 1] /\ end[i] \in 0..n /\ c[i + 1] \in Nat
    BY <1>1, <1>2, <1>3, <2>1
  <2>4. end[i + 1] - c[1] = (end[i] - c[1]) + c[i + 1]
    <3>1. \A x, y, z \in Int : (x + y) - z = (x - z) + y
      OBVIOUS
    <3>2. end[i] \in Int /\ c[i + 1] \in Int /\ c[1] \in Int
      BY <1>3, <2>3
    <3>3. end[i + 1] = end[i] + c[i + 1]
      BY <2>3
    <3>4. (end[i] + c[i + 1]) - c[1] = (end[i] - c[1]) + c[i + 1]
      BY <3>1, <3>2
    <3> QED
      BY <3>3, <3>4
  <2> QED
    BY <2>1, <2>2, <2>4, Zenon
<1> HIDE DEF d, e
<1>9. Covers(d, n - c[1])
  BY <1>6, <1>7, <1>8 DEF Covers
<1>10. Len(c) = 1 => c[1] = n
  BY <1>1, <1>3
<1> QED
  BY <1>3, <1>9, <1>10 DEF d

-----------------------------------------------------------------------------
(***************************************************************************)
(* The inductive invariant of a TCP connection.  Once says where the reads *)
(* are, AtRest what a task carries where it stands: without it a task that *)
(* takes from the queue could overwrite a read.                            *)
(***************************************************************************)
Positions == {"unborn", "new", "queueing", "merging", "merging_held", "dropping", "done"}
                \cup Working \cup Greeting \cup Closing
Backers == Working \cup Greeting \cup Closing \cup {"dropping"}
EmptyHanded == {"unborn", "rejoining", "checking", "taking", "idling", "dropping"} \cup Greeting
Arriving == {"new", "queueing", "merging", "merging_held"}

OnceIn(q, d, done, last) ==
    /\ Distinct(q) /\ \A t \in Tasks : Distinct(d[t])
    /\ \A r \in Reads :
          /\ \A t, u \in Tasks : Contains(d[t], r) /\ Contains(d[u], r) => t = u
          /\ \A t \in Tasks : Contains(d[t], r) => ~Contains(q, r) /\ r \notin done
          /\ Contains(q, r) => r \notin done
          /\ r <= last <=> r \in done \/ Contains(q, r) \/ \E t \in Tasks : Contains(d[t], r)

Once == state # "gone" => OnceIn(queued, data, answered, sent)

AtRest ==
    \A t \in Tasks :
        /\ at[t] \in EmptyHanded => data[t] = <<>>
        /\ at[t] \in Arriving => Len(data[t]) <= 1
        /\ t > sent => at[t] = "unborn"
        /\ at[t] = "opening_closed" => state = "gone"

TcpIInv ==
    /\ TypeOK /\ ProcessingIsBacked /\ ChunksCoverQueue /\ QueueBounded
    /\ Once /\ AtRest

(***************************************************************************)
(* The connection starts with nothing read.                                *)
(***************************************************************************)
LEMMA TcpInit == Init => TcpIInv
<1> SUFFICES ASSUME Init PROVE TcpIInv
  OBVIOUS
<1>1. /\ queued = <<>> /\ chunks = <<>> /\ sent = 0 /\ answered = {}
      /\ \A t \in Tasks : data[t] = <<>>
      /\ \A t \in Tasks : at[t] = "unborn" \/ (t = 0 /\ at[t] = "greeting")
  BY TcpAssumption DEF Init, Tasks
<1>2. /\ \A t \in Tasks : t \in Nat
      /\ 0 \in Tasks /\ \A r \in Reads : r \in Nat /\ r > 0
  BY TcpAssumption DEF Tasks, Reads
<1>3. TypeOK
  BY TcpAssumption DEF TypeOK, Init, Tasks, Reads, Working, Closing, Greeting
<1>4. ProcessingIsBacked
  BY <1>2 DEF ProcessingIsBacked, Init
<1>5. ChunksCoverQueue
  BY <1>1, CoversShort DEF ChunksCoverQueue
<1>6. QueueBounded
  BY <1>1, TcpAssumption DEF QueueBounded
<1>7. Once
  <2>1. OnceIn(queued, data, answered, sent)
    BY <1>1, <1>2, ShortSequences DEF OnceIn
  <2> QED
    BY <2>1 DEF Once
<1>8. AtRest
  BY <1>1, <1>2 DEF AtRest, EmptyHanded, Arriving, Greeting
<1> QED
  BY <1>3, <1>4, <1>5, <1>6, <1>7, <1>8 DEF TcpIInv

(***************************************************************************)
(* A task at work belongs to a read that was made; what its state gives.   *)
(***************************************************************************)
LEMMA TaskFacts ==
    ASSUME TcpIInv, NEW t \in Tasks
    PROVE  /\ data[t] \in Seq(Reads) /\ at[t] \in Positions
           /\ queued \in Seq(Reads) /\ chunks \in Seq(Nat) /\ chunks \in Seq(Nat \ {0})
           /\ Len(queued) \in Nat /\ Len(data[t]) \in Nat
           /\ t \in Nat /\ sent \in Nat
<1>1. TypeOK
  BY DEF TcpIInv
<1>2. data[t] \in Seq(Reads) /\ queued \in Seq(Reads)
  BY <1>1 DEF TypeOK
<1>3. at[t] \in Positions
  BY <1>1 DEF TypeOK, Positions, Greeting
<1>4. chunks \in Seq(Nat \ {0}) /\ \A i \in 1..Len(chunks) : chunks[i] \in Nat
  BY <1>1 DEF TypeOK
<1>5. chunks \in Seq(Nat)
  BY <1>4
<1>6. t \in Nat /\ sent \in Nat
  BY <1>1, TcpAssumption DEF TypeOK, Tasks
<1> QED
  BY <1>2, <1>3, <1>4, <1>5, <1>6

(***************************************************************************)
(* What a step of one task has to show.                                    *)
(***************************************************************************)
LEMMA StepKeeps ==
    ASSUME TcpIInv, NEW t \in Tasks, at[t] # "unborn",
           NEW x \in Positions, Goes(t, x),
           NEW d \in Seq(Reads), Carries(t, d),
           queued' \in Seq(Reads), chunks' \in Seq(Nat \ {0}),
           reader' \in {"waiting", "reading", "ended"},
           sent' = sent, batching' \in [Tasks -> BOOLEAN], answered' \subseteq Reads,
           state' \in {"gone", "idle", "processing", "accumulating"},
           state = "gone" => state' = "gone",
           x \in EmptyHanded => d = <<>>,
           x \in Arriving => Len(d) <= 1,
           x = "opening_closed" => state' = "gone",
           state' = "processing" => x \in Backers \/ (state = "processing" /\ at[t] \notin Backers),
           Covers(chunks', Len(queued')),
           state' # "gone" => /\ at[t] \in Closing => x \in Closing
                              /\ Len(queued') > MaxQueued => Len(queued) > MaxQueued \/ x \in Closing
                              /\ OnceIn(queued', data', answered', sent)
    PROVE  TcpIInv'
<1> USE DEF TcpIInv
<1>1. /\ at' \in [Tasks -> Positions] /\ at'[t] = x
      /\ \A u \in Tasks : u # t => at'[u] = at[u]
  BY DEF Goes, TypeOK, Positions, Greeting
<1>2. /\ data' \in [Tasks -> Seq(Reads)] /\ data'[t] = d
      /\ \A u \in Tasks : u # t => data'[u] = data[u]
  BY DEF Carries, TypeOK
<1>3. TypeOK'
  BY <1>1, <1>2 DEF TypeOK, Positions, Greeting
<1>4. ProcessingIsBacked'
  <2> SUFFICES ASSUME state' = "processing"
               PROVE  \E u \in Tasks : at'[u] \in Backers
    BY DEF ProcessingIsBacked, Backers, Greeting
  <2>1. CASE x \in Backers
    BY <1>1, <2>1
  <2>2. CASE state = "processing" /\ at[t] \notin Backers
    <3>1. PICK u \in Tasks : at[u] \in Backers
      BY <2>2 DEF ProcessingIsBacked, Backers, Greeting
    <3> QED
      BY <1>1, <2>2, <3>1
  <2> QED
    BY <2>1, <2>2
<1>5. ChunksCoverQueue'
  BY DEF ChunksCoverQueue
<1>6. QueueBounded'
  <2> SUFFICES ASSUME state' # "gone", Len(queued') > MaxQueued
               PROVE  \E u \in Tasks : at'[u] \in Closing
    BY DEF QueueBounded
  <2>1. CASE x \in Closing
    BY <1>1, <2>1
  <2>2. CASE Len(queued) > MaxQueued
    <3>1. PICK u \in Tasks : at[u] \in Closing
      BY <2>2 DEF QueueBounded
    <3> QED
      BY <1>1, <3>1
  <2> QED
    BY <2>1, <2>2
<1>7. Once'
  BY DEF Once
<1>8. AtRest'
  <2> SUFFICES ASSUME NEW u \in Tasks
               PROVE  /\ at'[u] \in EmptyHanded => data'[u] = <<>>
                      /\ at'[u] \in Arriving => Len(data'[u]) <= 1
                      /\ u > sent => at'[u] = "unborn"
                      /\ at'[u] = "opening_closed" => state' = "gone"
    BY DEF AtRest
  <2>1. CASE u = t
    BY <1>1, <1>2, <2>1 DEF AtRest
  <2>2. CASE u # t
    BY <1>1, <1>2, <2>2 DEF AtRest
  <2> QED
    BY <2>1, <2>2
<1> QED
  BY <1>3, <1>4, <1>5, <1>6, <1>7, <1>8

(***************************************************************************)
(* A task that finds the connection gone changes nothing that matters.     *)
(***************************************************************************)
LEMMA GoneKeeps ==
    ASSUME TcpIInv, NEW t \in Tasks, at[t] # "unborn", state = "gone",
           Goes(t, "done"), Carries(t, <<>>),
           UNCHANGED <<state, queued, chunks, reader, sent, answered>>,
           batching' \in [Tasks -> BOOLEAN]
    PROVE  TcpIInv'
<1>1. /\ queued' \in Seq(Reads) /\ chunks' \in Seq(Nat \ {0})
      /\ reader' \in {"waiting", "reading", "ended"} /\ answered' \subseteq Reads
      /\ Covers(chunks', Len(queued'))
  BY DEF TcpIInv, TypeOK, ChunksCoverQueue
<1>2. "done" \in Positions /\ "done" \notin EmptyHanded \cup Arriving /\ <<>> \in Seq(Reads)
  BY DEF Positions, EmptyHanded, Arriving, Greeting
<1> QED
  BY <1>1, <1>2, StepKeeps

(***************************************************************************)
(* What a task holds and what is queued have no read in common, so putting *)
(* the one behind the other keeps every read once.                         *)
(***************************************************************************)
LEMMA Joined ==
    ASSUME TcpIInv, state # "gone", NEW t \in Tasks,
           NEW s, s = queued \o data[t] \/ s = data[t] \o queued
    PROVE  /\ s \in Seq(Reads) /\ Len(s) = Len(queued) + Len(data[t]) /\ Distinct(s)
           /\ \A r : Contains(s, r) <=> Contains(data[t], r) \/ Contains(queued, r)
<1>1. data[t] \in Seq(Reads) /\ queued \in Seq(Reads)
      /\ Len(data[t]) \in Nat /\ Len(queued) \in Nat
  BY TaskFacts
<1>2. OnceIn(queued, data, answered, sent)
  BY DEF TcpIInv, Once
<1>3. Distinct(queued) /\ Distinct(data[t])
  BY <1>2 DEF OnceIn
<1>4. \A r : ~(Contains(queued, r) /\ Contains(data[t], r))
  <2>1. \A r : Contains(queued, r) => r \in Reads
    BY <1>1 DEF Contains
  <2> QED
    BY <1>2, <2>1 DEF OnceIn
<1>5. CASE s = queued \o data[t]
  BY <1>1, <1>3, <1>4, <1>5, ConcatHolds
<1>6. CASE s = data[t] \o queued
  BY <1>1, <1>3, <1>4, <1>6, ConcatHolds
<1> QED
  BY <1>5, <1>6

(***************************************************************************)
(* Reads that move between a task and the queue stay in one place.         *)
(***************************************************************************)
LEMMA Moves ==
    ASSUME TcpIInv, state # "gone", NEW t \in Tasks,
           NEW d \in Seq(Reads), NEW q \in Seq(Reads), Carries(t, d),
           Distinct(d), Distinct(q), \A r : ~(Contains(d, r) /\ Contains(q, r)),
           \A r : Contains(d, r) \/ Contains(q, r)
                    <=> Contains(data[t], r) \/ Contains(queued, r)
    PROVE  OnceIn(q, data', answered, sent)
<1>1. OnceIn(queued, data, answered, sent)
  BY DEF TcpIInv, Once
<1>2. data'[t] = d /\ \A u \in Tasks : u # t => data'[u] = data[u]
  BY DEF Carries, TcpIInv, TypeOK
<1>3. \A u \in Tasks : Distinct(data'[u])
  BY <1>1, <1>2 DEF OnceIn
<1>4. ASSUME NEW r \in Reads
      PROVE  /\ \A u, v \in Tasks : Contains(data'[u], r) /\ Contains(data'[v], r) => u = v
             /\ \A u \in Tasks : Contains(data'[u], r) => ~Contains(q, r) /\ r \notin answered
             /\ Contains(q, r) => r \notin answered
             /\ r <= sent <=> r \in answered \/ Contains(q, r)
                                \/ \E u \in Tasks : Contains(data'[u], r)
  <2>1. /\ \A u, v \in Tasks : Contains(data[u], r) /\ Contains(data[v], r) => u = v
        /\ \A u \in Tasks : Contains(data[u], r) => ~Contains(queued, r) /\ r \notin answered
        /\ Contains(queued, r) => r \notin answered
        /\ r <= sent <=> r \in answered \/ Contains(queued, r)
                           \/ \E u \in Tasks : Contains(data[u], r)
    BY <1>1 DEF OnceIn
  <2>2. /\ ~(Contains(d, r) /\ Contains(q, r))
        /\ Contains(d, r) \/ Contains(q, r) <=> Contains(data[t], r) \/ Contains(queued, r)
    OBVIOUS
  <2>3. \A u, v \in Tasks : Contains(data'[u], r) /\ Contains(data'[v], r) => u = v
    BY <1>2, <2>1, <2>2
  <2>4. \A u \in Tasks : Contains(data'[u], r) => ~Contains(q, r) /\ r \notin answered
    BY <1>2, <2>1, <2>2
  <2>5. Contains(q, r) => r \notin answered
    BY <2>1, <2>2
  <2>6. r <= sent <=> r \in answered \/ Contains(q, r)
                        \/ \E u \in Tasks : Contains(data'[u], r)
    BY <1>2, <2>1, <2>2
  <2> QED
    BY <2>3, <2>4, <2>5, <2>6
<1> QED
  BY <1>3, <1>4 DEF OnceIn

(***************************************************************************)
(* take_next cuts between two reads, and hands the task what it cuts off.  *)
(***************************************************************************)
LEMMA TakeKeeps ==
    ASSUME TcpIInv, state # "gone", NEW t \in Tasks,
           NEW s \in Seq(Reads), NEW c \in Seq(Nat \ {0}), NEW all,
           Covers(c, Len(s)), Distinct(s),
           \A r : Contains(s, r) <=> Contains(data[t], r) \/ Contains(queued, r),
           take_next(t, s, c, all)
    PROVE  /\ queued' \in Seq(Reads) /\ chunks' \in Seq(Nat \ {0})
           /\ Covers(chunks', Len(queued'))
           /\ Len(queued') = 0 \/ Len(queued') < Len(s)
           /\ OnceIn(queued', data', answered, sent)
           /\ \E d \in Seq(Reads) : Carries(t, d)
<1> DEFINE n == NextLen(s, c, all)
           a == SubSeq(s, 1, n)
           b == SubSeq(s, n + 1, Len(s))
<1>1. Carries(t, a) /\ queued' = b /\ chunks' = IF all \/ Len(c) <= 1 THEN <<>> ELSE Tail(c)
  BY DEF take_next, Rest
<1>2. Len(s) \in Nat /\ Len(c) \in Nat /\ c \in Seq(Nat)
  <2>1. \A i \in 1..Len(c) : c[i] \in Nat
    OBVIOUS
  <2> QED
    BY <2>1
<1>3. n \in 0..Len(s) /\ a \in Seq(Reads) /\ b \in Seq(Reads)
      /\ queued' \in Seq(Reads) /\ chunks' \in Seq(Nat \ {0})
      /\ Covers(chunks', Len(queued'))
      /\ (Len(queued') = 0 \/ Len(queued') < Len(s))
  <2>1. CASE all \/ Len(c) <= 1
    <3>1. n = Len(s)
      BY <2>1 DEF NextLen
    <3>2. n \in 0..Len(s)
      BY <1>2, <3>1
    <3>3. a \in Seq(Reads) /\ b \in Seq(Reads) /\ Len(b) = 0
      BY <1>2, <3>1, <3>2, CutHolds
    <3>4. chunks' = <<>> /\ <<>> \in Seq(Nat \ {0})
      BY <1>1, <2>1
    <3>5. Covers(chunks', Len(queued')) /\ Len(queued') = 0
      BY <1>1, <3>3, <3>4, CoversShort
    <3> QED
      BY <1>1, <3>2, <3>3, <3>4, <3>5
  <2>2. CASE ~(all \/ Len(c) <= 1)
    <3>1. n = c[1] /\ c # <<>> /\ c[1] > 0 /\ c[1] \in Nat
      BY <1>2, <2>2 DEF NextLen
    <3>2. n \in 0..Len(s) /\ Covers(Tail(c), Len(s) - n)
      BY <1>2, <3>1, CoversTail
    <3>3. a \in Seq(Reads) /\ b \in Seq(Reads) /\ Len(b) = Len(s) - n
      BY <3>2, CutHolds
    <3>4. chunks' = Tail(c) /\ Tail(c) \in Seq(Nat \ {0})
      BY <1>1, <2>2, <3>1
    <3>5. Len(queued') < Len(s)
      BY <1>1, <1>2, <3>1, <3>3
    <3> QED
      BY <1>1, <3>2, <3>3, <3>4, <3>5
  <2> QED
    BY <2>1, <2>2
<1>4. /\ Distinct(a) /\ Distinct(b) /\ \A r : ~(Contains(a, r) /\ Contains(b, r))
      /\ \A r : Contains(s, r) <=> Contains(a, r) \/ Contains(b, r)
  BY <1>3, CutHolds
<1> HIDE DEF a, b, n
<1>5. OnceIn(b, data', answered, sent)
  BY <1>1, <1>3, <1>4, Moves
<1> QED
  BY <1>1, <1>3, <1>5

(***************************************************************************)
(* A step that leaves the reads where they are, and a step that removes    *)
(* the connection.                                                         *)
(***************************************************************************)
LEMMA StaysKeeps ==
    ASSUME TcpIInv, NEW t \in Tasks, at[t] # "unborn",
           NEW x \in Positions, Goes(t, x),
           UNCHANGED <<queued, chunks, data, sent, answered>>,
           reader' \in {"waiting", "reading", "ended"},
           batching' \in [Tasks -> BOOLEAN],
           state' \in {"gone", "idle", "processing", "accumulating"},
           state = "gone" <=> state' = "gone",
           x \in EmptyHanded => data[t] = <<>>,
           x \in Arriving => Len(data[t]) <= 1,
           x = "opening_closed" => state' = "gone",
           state' = "processing" => x \in Backers \/ (state = "processing" /\ at[t] \notin Backers),
           state' # "gone" => (at[t] \in Closing => x \in Closing)
    PROVE  TcpIInv'
<1>1. /\ queued' \in Seq(Reads) /\ chunks' \in Seq(Nat \ {0}) /\ answered' \subseteq Reads
      /\ Covers(chunks', Len(queued')) /\ data[t] \in Seq(Reads)
      /\ Len(queued') = Len(queued)
  BY DEF TcpIInv, TypeOK, ChunksCoverQueue
<1>2. Carries(t, data[t])
  BY DEF Carries, TcpIInv, TypeOK
<1>3. state' # "gone" => OnceIn(queued', data', answered', sent)
  BY DEF TcpIInv, Once
<1> QED
  BY <1>1, <1>2, <1>3, StepKeeps

\* A task that removes the connection.
LEMMA RemoveKeeps ==
    ASSUME TcpIInv, NEW t \in Tasks, at[t] # "unborn", RemoveEntry,
           NEW x \in {"done", "opening_closed"}, Goes(t, x),
           NEW d \in Seq(Reads), Carries(t, d),
           UNCHANGED <<reader, sent, batching, answered>>
    PROVE  TcpIInv'
<1>1. /\ queued' \in Seq(Reads) /\ chunks' \in Seq(Nat \ {0}) /\ state' = "gone"
      /\ Len(queued') = 0 /\ chunks' = <<>>
  BY DEF RemoveEntry
<1>2. Covers(chunks', Len(queued'))
  BY <1>1, CoversShort
<1>3. /\ reader' \in {"waiting", "reading", "ended"} /\ batching' \in [Tasks -> BOOLEAN]
      /\ answered' \subseteq Reads
  BY DEF TcpIInv, TypeOK
<1>4. x \in Positions /\ x \notin EmptyHanded \cup Arriving
  BY DEF Positions, EmptyHanded, Arriving, Closing, Greeting
<1> QED
  BY <1>1, <1>2, <1>3, <1>4, StepKeeps

-----------------------------------------------------------------------------
(***************************************************************************)
(* The reader's steps.                                                     *)
(***************************************************************************)
LEMMA ReadKeeps == TcpIInv /\ read => TcpIInv'
<1> SUFFICES ASSUME TcpIInv, read PROVE TcpIInv'
  OBVIOUS
<1> DEFINE n == sent + 1
<1>1. /\ sent \in Nat /\ n \in Nat /\ n \in Reads /\ n \in Tasks /\ n # 0
      /\ \A r \in Reads : r \in Nat /\ (r <= n <=> r <= sent \/ r = n)
  <2>1. sent \in 0..LastRead /\ sent < LastRead
    BY TcpAssumption DEF read, TasksSoFar, TcpIInv, TypeOK
  <2> QED
    BY <2>1, TcpAssumption DEF Reads, Tasks
<1>2. /\ sent' = n /\ UNCHANGED <<state, queued, chunks, reader, batching, answered>>
      /\ at' = [at EXCEPT ![n] = "new"] /\ data' = [data EXCEPT ![n] = <<n>>]
  BY DEF read
<1>3. /\ at[n] = "unborn" /\ data[n] = <<>>
      /\ \A t \in Tasks : t > n => t > sent
  <2>1. n > sent /\ \A t \in Tasks : t > n => t > sent
    BY <1>1, TcpAssumption DEF Tasks
  <2> QED
    BY <1>1, <2>1 DEF TcpIInv, AtRest, EmptyHanded, Greeting
<1>4. TypeOK /\ <<n>> \in Seq(Reads) /\ Len(<<n>>) = 1
  BY <1>1 DEF TcpIInv
<1> HIDE DEF n
<1>5. /\ at'[n] = "new" /\ data'[n] = <<n>>
      /\ \A t \in Tasks : t # n => at'[t] = at[t] /\ data'[t] = data[t]
  BY <1>1, <1>2, <1>4 DEF TypeOK
<1>6. TypeOK'
  <2>1. at' \in [Tasks -> Positions]
    BY <1>1, <1>2, <1>4 DEF TypeOK, Positions, Greeting
  <2>2. data' \in [Tasks -> Seq(Reads)]
    BY <1>1, <1>2, <1>4 DEF TypeOK
  <2>3. sent' \in 0..LastRead
    BY <1>1, <1>2, TcpAssumption DEF Reads
  <2> QED
    BY <1>2, <1>4, <2>1, <2>2, <2>3 DEF TypeOK, Positions, Greeting
<1>7. ProcessingIsBacked'
  <2> SUFFICES ASSUME state' = "processing" PROVE \E t \in Tasks : at'[t] \in Backers
    BY DEF ProcessingIsBacked, Backers, Greeting
  <2>1. PICK t \in Tasks : at[t] \in Backers
    BY <1>2 DEF TcpIInv, ProcessingIsBacked, Backers, Greeting
  <2>2. t # n
    BY <1>3, <2>1 DEF Backers, Working, Closing, Greeting
  <2> QED
    BY <1>5, <2>1, <2>2
<1>8. ChunksCoverQueue'
  BY <1>2 DEF TcpIInv, ChunksCoverQueue
<1>9. QueueBounded'
  <2> SUFFICES ASSUME state' # "gone", Len(queued') > MaxQueued
               PROVE  \E t \in Tasks : at'[t] \in Closing
    BY DEF QueueBounded
  <2>1. PICK t \in Tasks : at[t] \in Closing
    BY <1>2 DEF TcpIInv, QueueBounded
  <2>2. t # n
    BY <1>3, <2>1 DEF Closing
  <2> QED
    BY <1>5, <2>1, <2>2
<1>10. Once'
  <2> SUFFICES ASSUME state # "gone" PROVE OnceIn(queued, data', answered, n)
    BY <1>2 DEF Once
  <2>1. OnceIn(queued, data, answered, sent)
    BY DEF TcpIInv, Once
  <2>2. \A t \in Tasks : Distinct(data'[t])
    <3>1. Distinct(data'[n])
      BY <1>5, ShortSequences
    <3> QED
      BY <1>5, <2>1, <3>1 DEF OnceIn
  <2>3. \A r : /\ ~Contains(data[n], r)
               /\ Contains(data'[n], r) <=> r = n
    BY <1>3, <1>5, ShortSequences
  <2>4. ASSUME NEW r \in Reads
        PROVE  /\ \A t, u \in Tasks : Contains(data'[t], r) /\ Contains(data'[u], r) => t = u
               /\ \A t \in Tasks : Contains(data'[t], r) => ~Contains(queued, r) /\ r \notin answered
               /\ Contains(queued, r) => r \notin answered
               /\ r <= n <=> r \in answered \/ Contains(queued, r)
                               \/ \E t \in Tasks : Contains(data'[t], r)
    <3>1. /\ \A t, u \in Tasks : Contains(data[t], r) /\ Contains(data[u], r) => t = u
          /\ \A t \in Tasks : Contains(data[t], r) => ~Contains(queued, r) /\ r \notin answered
          /\ Contains(queued, r) => r \notin answered
          /\ r <= sent <=> r \in answered \/ Contains(queued, r)
                             \/ \E t \in Tasks : Contains(data[t], r)
      BY <2>1 DEF OnceIn
    <3>2. ~(n <= sent) /\ (r <= n <=> r <= sent \/ r = n)
      BY <1>1 DEF n
    <3>3. CASE r = n
      <4>1. \A t \in Tasks : Contains(data'[t], r) <=> t = n
        BY <1>5, <2>3, <3>1, <3>2, <3>3
      <4> QED
        BY <1>1, <3>1, <3>2, <3>3, <4>1
    <3>4. CASE r # n
      <4>1. \A t \in Tasks : Contains(data'[t], r) <=> Contains(data[t], r)
        BY <1>5, <2>3, <3>4
      <4> QED
        BY <3>1, <3>2, <3>4, <4>1
    <3> QED
      BY <3>3, <3>4
  <2> QED
    BY <2>1, <2>2, <2>4 DEF OnceIn
<1>11. AtRest'
  <2> SUFFICES ASSUME NEW t \in Tasks
               PROVE  /\ at'[t] \in EmptyHanded => data'[t] = <<>>
                      /\ at'[t] \in Arriving => Len(data'[t]) <= 1
                      /\ t > n => at'[t] = "unborn"
                      /\ at'[t] = "opening_closed" => state = "gone"
    BY <1>2 DEF AtRest
  <2>1. CASE t = n
    <3>1. Len(data'[t]) <= 1
      <4>1. data'[t] = <<n>>
        BY <1>5, <2>1
      <4>2. Len(<<n>>) <= 1
        BY <1>4
      <4> QED
        BY <4>1, <4>2, Zenon
    <3>2. ~(t > n)
      BY <1>1, <2>1
    <3> QED
      BY <1>5, <2>1, <3>1, <3>2 DEF EmptyHanded, Greeting
  <2>2. CASE t # n
    BY <1>3, <1>5, <2>2 DEF TcpIInv, AtRest
  <2> QED
    BY <2>1, <2>2
<1> QED
  BY <1>6, <1>7, <1>8, <1>9, <1>10, <1>11 DEF TcpIInv

\* The reader ends: end_of_stream.
LEMMA EndOfStreamKeeps == TcpIInv /\ end_of_stream => TcpIInv'
<1> SUFFICES ASSUME TcpIInv, end_of_stream PROVE TcpIInv'
  OBVIOUS
<1>1. /\ state' = "gone" /\ queued' = <<>> /\ chunks' = <<>> /\ reader' = "ended"
      /\ UNCHANGED <<sent, at, data, batching, answered>>
  BY DEF end_of_stream, RemoveEntry
<1>2. TypeOK' /\ ProcessingIsBacked' /\ QueueBounded' /\ Once' /\ AtRest'
  BY <1>1 DEF TcpIInv, TypeOK, ProcessingIsBacked, QueueBounded, Once, AtRest
<1>3. ChunksCoverQueue'
  BY <1>1, CoversShort DEF ChunksCoverQueue
<1> QED
  BY <1>2, <1>3 DEF TcpIInv

-----------------------------------------------------------------------------
(***************************************************************************)
(* The steps of a task, one lemma per action.                              *)
(***************************************************************************)
LEMMA SettingsTyped ==
    ASSUME TcpIInv
    PROVE  /\ reader \in {"waiting", "reading", "ended"} /\ batching \in [Tasks -> BOOLEAN]
           /\ answered \subseteq Reads
           /\ state \in {"gone", "idle", "processing", "accumulating"}
BY DEF TcpIInv, TypeOK

\* A task reads the state: check_state.
LEMMA CheckStateKeeps ==
    ASSUME TcpIInv, NEW t \in Tasks, check_state(t) PROVE TcpIInv'
<1>1. at[t] = "new" /\ UNCHANGED <<reader, sent, answered>>
  BY DEF check_state
<1>2. batching' \in [Tasks -> BOOLEAN]
  <2>1. PICK b \in BOOLEAN :
          batching' = [batching EXCEPT ![t] = b /\ at'[t] \in {"merging", "merging_held"}]
    BY DEF check_state
  <2>2. (b /\ at'[t] \in {"merging", "merging_held"}) \in BOOLEAN
    OBVIOUS
  <2> DEFINE v == b /\ at'[t] \in {"merging", "merging_held"}
  <2>3. batching' = [batching EXCEPT ![t] = v] /\ v \in BOOLEAN
    BY <2>1, <2>2
  <2> HIDE DEF v
  <2> QED
    BY <2>3, SettingsTyped
<1>3. Len(data[t]) <= 1
  BY <1>1 DEF TcpIInv, AtRest, Arriving
<1>4. CASE state = "gone"
  <2>1. Goes(t, "done") /\ Carries(t, <<>>) /\ UNCHANGED <<state, queued, chunks>>
    BY <1>4 DEF check_state, Locked
  <2> QED
    BY <1>1, <1>2, <1>4, <2>1, GoneKeeps
<1>5. CASE state # "gone"
  <2>1. PICK x \in {"queueing", "merging_held", "merging"} : Goes(t, x)
    BY <1>5, SettingsTyped DEF check_state, Locked
  <2>2. UNCHANGED <<state, queued, chunks, data>>
    BY <1>5 DEF check_state, Locked
  <2>3. x \in Positions /\ x \notin EmptyHanded /\ x # "opening_closed"
        /\ at[t] \notin Backers /\ at[t] \notin Closing
    BY <1>1 DEF Positions, EmptyHanded, Backers, Working, Closing, Greeting
  <2> QED
    BY <1>1, <1>2, <1>3, <1>5, <2>1, <2>2, <2>3, SettingsTyped, StaysKeeps
<1> QED
  BY <1>4, <1>5

\* Chunks still cover the queue with a task's read behind it.
LEMMA PushedCovered ==
    ASSUME TcpIInv, NEW t \in Tasks
    PROVE  /\ PushedChunks(data[t]) \in Seq(Nat \ {0})
           /\ Covers(PushedChunks(data[t]), Len(queued) + Len(data[t]))
<1>1. /\ data[t] \in Seq(Reads) /\ chunks \in Seq(Nat) /\ chunks \in Seq(Nat \ {0})
      /\ Len(queued) \in Nat /\ Len(data[t]) \in Nat
  BY TaskFacts
<1>2. Covers(chunks, Len(queued))
  BY DEF TcpIInv, ChunksCoverQueue
<1>3. CASE data[t] = <<>>
  <2>1. Len(data[t]) = 0 /\ Len(queued) + Len(data[t]) = Len(queued)
    BY <1>1, <1>3
  <2>2. PushedChunks(data[t]) = chunks
    BY <1>3 DEF PushedChunks
  <2> QED
    BY <1>1, <1>2, <2>1, <2>2
<1>4. CASE data[t] # <<>>
  <2>1. Len(data[t]) \in Nat \ {0}
    BY <1>1, <1>4
  <2>2. PushedChunks(data[t]) = Append(chunks, Len(data[t]))
    BY <1>4 DEF PushedChunks
  <2>3. Append(chunks, Len(data[t])) \in Seq(Nat \ {0})
    BY <1>1, <2>1
  <2>4. Covers(Append(chunks, Len(data[t])), Len(queued) + Len(data[t]))
    BY <1>1, <1>2, CoversAppend
  <2> QED
    BY <2>2, <2>3, <2>4
<1> QED
  BY <1>3, <1>4

\* A task queues its read: queue_data.
LEMMA QueueDataKeeps ==
    ASSUME TcpIInv, NEW t \in Tasks, queue_data(t) PROVE TcpIInv'
<1>1. at[t] = "queueing" /\ UNCHANGED <<reader, sent, batching, answered>>
  BY DEF queue_data
<1>2. CASE state = "gone"
  <2>1. Goes(t, "done") /\ Carries(t, <<>>) /\ UNCHANGED <<state, queued, chunks>>
    BY <1>2 DEF queue_data, Locked
  <2> QED
    BY <1>1, <1>2, <2>1, GoneKeeps, SettingsTyped
<1>3. CASE state # "gone"
  <2> DEFINE x == IF Overflows(queued') THEN "shutting" ELSE "done"
  <2>1. /\ queued' = queued \o data[t] /\ chunks' = PushedChunks(data[t])
        /\ Goes(t, x) /\ Carries(t, <<>>) /\ state' = state
    BY <1>3 DEF queue_data, Locked, Pushed
  <2>2. /\ x \in Positions /\ x \notin EmptyHanded \cup Arriving /\ x # "opening_closed"
        /\ Len(queued') > MaxQueued => x \in Closing
        /\ at[t] \notin Backers /\ at[t] \notin Closing
    BY <1>1 DEF Positions, EmptyHanded, Arriving, Overflows, Backers, Working, Closing, Greeting
  <2> HIDE DEF x
  <2>3. /\ queued' \in Seq(Reads) /\ Len(queued') = Len(queued) + Len(data[t])
        /\ Distinct(queued')
        /\ \A r : Contains(queued', r) <=> Contains(data[t], r) \/ Contains(queued, r)
    BY <1>3, <2>1, Joined
  <2>4. chunks' \in Seq(Nat \ {0}) /\ Covers(chunks', Len(queued'))
    BY <2>1, <2>3, PushedCovered
  <2>5. <<>> \in Seq(Reads)
    OBVIOUS
  <2>6. OnceIn(queued', data', answered, sent)
    BY <1>3, <2>1, <2>3, <2>5, ShortSequences, Moves
  <2> QED
    BY <1>1, <1>3, <2>1, <2>2, <2>3, <2>4, <2>5, <2>6, SettingsTyped, StepKeeps
<1> QED
  BY <1>2, <1>3

\* A task merges its read and takes what is next: merge.
LEMMA MergeKeeps ==
    ASSUME TcpIInv, NEW t \in Tasks, merge(t) PROVE TcpIInv'
<1>1. at[t] \in {"merging", "merging_held"} /\ UNCHANGED <<reader, sent, batching, answered>>
  BY DEF merge
<1>2. Len(data[t]) <= 1
  BY <1>1 DEF TcpIInv, AtRest, Arriving
<1>3. CASE state = "gone"
  <2>1. Goes(t, "done") /\ Carries(t, <<>>) /\ UNCHANGED <<state, queued, chunks>>
    BY <1>3 DEF merge, Locked
  <2> QED
    BY <1>1, <1>3, <2>1, GoneKeeps, SettingsTyped
<1>4. CASE state # "gone"
  <2> DEFINE s == queued \o data[t]
             c == PushedChunks(data[t])
             all == batching[t] \/ at[t] = "merging_held"
  <2>1. state' = "processing" /\ take_next(t, s, c, all) /\ Goes(t, "entering")
    BY <1>4 DEF merge, Locked, Pushed
  <2>2. /\ s \in Seq(Reads) /\ Len(s) = Len(queued) + Len(data[t]) /\ Distinct(s)
        /\ \A r : Contains(s, r) <=> Contains(data[t], r) \/ Contains(queued, r)
    BY <1>4, Joined
  <2>3. c \in Seq(Nat \ {0}) /\ Covers(c, Len(s))
    BY <2>2, PushedCovered
  <2> HIDE DEF s, c, all
  <2>4. /\ queued' \in Seq(Reads) /\ chunks' \in Seq(Nat \ {0})
        /\ Covers(chunks', Len(queued'))
        /\ Len(queued') = 0 \/ Len(queued') < Len(s)
        /\ OnceIn(queued', data', answered, sent)
        /\ \E d \in Seq(Reads) : Carries(t, d)
    BY <1>4, <2>1, <2>2, <2>3, TakeKeeps
  <2>5. PICK d \in Seq(Reads) : Carries(t, d)
    BY <2>4
  <2>6. /\ "entering" \in Positions /\ "entering" \notin EmptyHanded \cup Arriving
        /\ "entering" \in Backers /\ at[t] \notin Closing
    BY <1>1 DEF Positions, EmptyHanded, Arriving, Backers, Working, Closing, Greeting
  <2>7. Len(queued') > MaxQueued => Len(queued) > MaxQueued
    <3>1. Len(queued) \in Nat /\ Len(data[t]) \in Nat /\ Len(queued') \in Nat
      BY <2>4, TaskFacts
    <3> QED
      BY <1>2, <2>2, <2>4, <3>1, TcpAssumption
  <2> QED
    BY <1>1, <1>4, <2>1, <2>4, <2>5, <2>6, <2>7, SettingsTyped, StepKeeps
<1> QED
  BY <1>3, <1>4

\* A task enters the loop: enter.
LEMMA EnterKeeps ==
    ASSUME TcpIInv, NEW t \in Tasks, enter(t) PROVE TcpIInv'
<1>1. at[t] = "entering" /\ UNCHANGED <<reader, sent, batching, answered>>
  BY DEF enter
<1>2. CASE state = "gone"
  <2>1. Goes(t, "done") /\ Carries(t, <<>>) /\ UNCHANGED <<state, queued, chunks>>
    BY <1>2 DEF enter, Locked
  <2> QED
    BY <1>1, <1>2, <2>1, GoneKeeps, SettingsTyped
<1>3. CASE state # "gone"
  <2>1. Goes(t, "calling") /\ UNCHANGED <<state, queued, chunks, data>>
    BY <1>3 DEF enter, Locked
  <2>2. /\ "calling" \in Positions /\ "calling" \notin EmptyHanded \cup Arriving
        /\ "calling" \in Backers /\ at[t] \notin Closing
    BY <1>1 DEF Positions, EmptyHanded, Arriving, Backers, Working, Closing, Greeting
  <2> QED
    BY <1>1, <1>3, <2>1, <2>2, SettingsTyped, StaysKeeps
<1> QED
  BY <1>2, <1>3

(***************************************************************************)
(* Reads the model has answered are nowhere else.                          *)
(***************************************************************************)
LEMMA Answers ==
    ASSUME TcpIInv, state # "gone", NEW t \in Tasks, Carries(t, <<>>)
    PROVE  OnceIn(queued, data', answered \cup ToSet(data[t]), sent)
<1>1. OnceIn(queued, data, answered, sent)
  BY DEF TcpIInv, Once
<1>2. data'[t] = <<>> /\ \A u \in Tasks : u # t => data'[u] = data[u]
  BY DEF Carries, TcpIInv, TypeOK
<1>3. \A r : r \in ToSet(data[t]) <=> Contains(data[t], r)
  <2>1. data[t] \in Seq(Reads)
    BY TaskFacts
  <2> QED
    BY <2>1 DEF ToSet, Contains
<1>4. \A u \in Tasks : Distinct(data'[u])
  BY <1>1, <1>2, ShortSequences DEF OnceIn
<1> DEFINE done == answered \cup ToSet(data[t])
<1>5. ASSUME NEW r \in Reads
      PROVE  /\ \A u, v \in Tasks : Contains(data'[u], r) /\ Contains(data'[v], r) => u = v
             /\ \A u \in Tasks : Contains(data'[u], r) => ~Contains(queued, r) /\ r \notin done
             /\ Contains(queued, r) => r \notin done
             /\ r <= sent <=> r \in done \/ Contains(queued, r)
                                \/ \E u \in Tasks : Contains(data'[u], r)
  <2>1. /\ \A u, v \in Tasks : Contains(data[u], r) /\ Contains(data[v], r) => u = v
        /\ \A u \in Tasks : Contains(data[u], r) => ~Contains(queued, r) /\ r \notin answered
        /\ Contains(queued, r) => r \notin answered
        /\ r <= sent <=> r \in answered \/ Contains(queued, r)
                           \/ \E u \in Tasks : Contains(data[u], r)
    BY <1>1 DEF OnceIn
  <2>2. r \in done <=> r \in answered \/ Contains(data[t], r)
    BY <1>3
  <2>3. \A u \in Tasks : Contains(data'[u], r) <=> u # t /\ Contains(data[u], r)
    BY <1>2, ShortSequences
  <2> HIDE DEF done
  <2>4. \A u \in Tasks : Contains(data'[u], r) => ~Contains(queued, r) /\ r \notin done
    BY <2>1, <2>2, <2>3
  <2>5. Contains(queued, r) => r \notin done
    BY <2>1, <2>2
  <2>6. r <= sent <=> r \in done \/ Contains(queued, r)
                        \/ \E u \in Tasks : Contains(data'[u], r)
    BY <2>1, <2>2, <2>3
  <2> QED
    BY <2>1, <2>3, <2>4, <2>5, <2>6
<1>6. Distinct(queued)
  BY <1>1 DEF OnceIn
<1> HIDE DEF done
<1>7. OnceIn(queued, data', done, sent)
  BY <1>4, <1>5, <1>6 DEF OnceIn
<1> QED
  BY <1>7 DEF done

\* A task has its answer: call_llm without bytes, and write.
LEMMA AnswerKeeps ==
    ASSUME TcpIInv, NEW t \in Tasks, at[t] \in {"calling", "sending"}, answer(t),
           UNCHANGED <<state, queued, chunks, reader, sent, batching>>
    PROVE  TcpIInv'
<1>1. at[t] # "unborn" /\ UNCHANGED <<state, queued, chunks, reader, sent, batching>>
  OBVIOUS
<1>2. at[t] \notin Closing /\ data[t] \in Seq(Reads)
  BY TaskFacts DEF Closing
<1>3. ASSUME Goes(t, "holding"), UNCHANGED <<answered, data>>
      PROVE  TcpIInv'
  <2>1. /\ "holding" \in Positions /\ "holding" \notin EmptyHanded \cup Arriving
        /\ "holding" \in Backers
    BY DEF Positions, EmptyHanded, Greeting, Arriving, Backers, Working
  <2> QED
    BY <1>1, <1>2, <1>3, <2>1, SettingsTyped, StaysKeeps
<1>4. ASSUME NEW x \in {"checking", "dropping"}, Goes(t, x),
             answered' = answered \cup ToSet(data[t]), Carries(t, <<>>)
      PROVE  TcpIInv'
  <2>1. x \in Positions /\ x \notin Arriving /\ x \in Backers /\ x # "opening_closed"
    BY DEF Positions, Arriving, Backers, Working, Closing, Greeting
  <2>2. state' # "gone" => OnceIn(queued', data', answered', sent)
    <3>1. ASSUME state # "gone" PROVE OnceIn(queued, data', answered', sent)
      BY <1>4, <3>1, Answers
    <3> QED
      BY <1>1, <3>1
  <2>3. answered' \subseteq Reads
    <3>1. ToSet(data[t]) \subseteq Reads
      BY <1>2 DEF ToSet
    <3> QED
      BY <1>4, <3>1, SettingsTyped
  <2>4. /\ queued' \in Seq(Reads) /\ chunks' \in Seq(Nat \ {0}) /\ <<>> \in Seq(Reads)
        /\ Covers(chunks', Len(queued')) /\ Len(queued') = Len(queued)
    BY <1>1, TaskFacts DEF TcpIInv, ChunksCoverQueue
  <2> QED
    BY <1>1, <1>2, <1>4, <2>1, <2>2, <2>3, <2>4, SettingsTyped, StepKeeps
<1>5. \/ Goes(t, "holding") /\ UNCHANGED <<answered, data>>
      \/ /\ Goes(t, "checking") \/ Goes(t, "dropping")
         /\ answered' = answered \cup ToSet(data[t]) /\ Carries(t, <<>>)
  BY DEF answer, Goes
<1> QED
  BY <1>3, <1>4, <1>5

\* A task asks the model: call_llm.
LEMMA CallKeeps ==
    ASSUME TcpIInv, NEW t \in Tasks, call_llm(t) PROVE TcpIInv'
<1>1. at[t] = "calling" /\ UNCHANGED <<state, queued, chunks, reader, sent, batching>>
  BY DEF call_llm
<1>2. CASE answer(t)
  BY <1>1, <1>2, AnswerKeeps
<1>3. ASSUME NEW x \in {"writing", "shutting"}, Goes(t, x), UNCHANGED <<answered, data>>
      PROVE  TcpIInv'
  <2>1. x \in Positions /\ x \notin EmptyHanded \cup Arriving /\ x \in Backers
        /\ x # "opening_closed" /\ at[t] \notin Closing
    BY <1>1 DEF Positions, EmptyHanded, Greeting, Arriving, Backers, Working, Closing
  <2> QED
    BY <1>1, <1>3, <2>1, SettingsTyped, StaysKeeps
<1> QED
  BY <1>2, <1>3 DEF call_llm

\* A task gets the write half: lock_write.
LEMMA LockWriteKeeps ==
    ASSUME TcpIInv, NEW t \in Tasks, lock_write(t) PROVE TcpIInv'
<1>1. UNCHANGED <<state, queued, chunks, reader, sent, data, batching, answered>>
  BY DEF lock_write
<1>2. PICK x \in {"sending", "sending_greeting"} :
          /\ Goes(t, x) /\ at[t] \in {"writing", "writing_greeting"}
          /\ x = "sending_greeting" => at[t] = "writing_greeting"
  BY DEF lock_write
<1>3. x = "sending_greeting" => data[t] = <<>>
  BY <1>2 DEF TcpIInv, AtRest, EmptyHanded, Greeting
<1>4. /\ x \in Positions /\ x \notin Arriving /\ x # "opening_closed"
      /\ x \in EmptyHanded => x = "sending_greeting"
      /\ x \in Backers /\ at[t] \notin Closing
  BY <1>2 DEF Positions, EmptyHanded, Greeting, Arriving, Backers, Working, Closing
<1> QED
  BY <1>1, <1>2, <1>3, <1>4, SettingsTyped, StaysKeeps

\* A task has written: write.
LEMMA WriteKeeps ==
    ASSUME TcpIInv, NEW t \in Tasks, write(t) PROVE TcpIInv'
BY AnswerKeeps DEF write

\* The payload goes back to the head of the queue: hold.
LEMMA HoldKeeps ==
    ASSUME TcpIInv, NEW t \in Tasks, hold(t) PROVE TcpIInv'
<1>1. at[t] = "holding" /\ UNCHANGED <<reader, sent, batching, answered>>
  BY DEF hold
<1>2. CASE state = "gone"
  <2>1. Goes(t, "done") /\ Carries(t, <<>>) /\ UNCHANGED <<state, queued, chunks>>
    BY <1>2 DEF hold, Locked
  <2> QED
    BY <1>1, <1>2, <2>1, GoneKeeps, SettingsTyped
<1>3. CASE state # "gone"
  <2> DEFINE s == data[t] \o queued
             x == IF Overflows(Held(t)) THEN "shutting"
                  ELSE IF GoesRound(t) THEN "rejoining" ELSE "done"
  <2>1. /\ queued' = s /\ chunks' = IF s = <<>> THEN <<>> ELSE <<Len(s)>>
        /\ Goes(t, x) /\ Carries(t, <<>>) /\ state' = "accumulating"
    BY <1>3 DEF hold, Locked, SetQueue, Held, Fragment
  <2>2. /\ x \in Positions /\ x \notin Arriving /\ x # "opening_closed"
        /\ Len(s) > MaxQueued => x \in Closing
        /\ at[t] \notin Closing
    BY <1>1 DEF Positions, Arriving, Overflows, Held, Fragment, Working, Closing, Greeting
  <2>3. /\ s \in Seq(Reads) /\ Len(s) = Len(queued) + Len(data[t]) /\ Distinct(s)
        /\ \A r : Contains(s, r) <=> Contains(data[t], r) \/ Contains(queued, r)
    BY <1>3, Joined
  <2> HIDE DEF s, x
  <2>4. chunks' \in Seq(Nat \ {0}) /\ Covers(chunks', Len(s))
    <3>1. CASE s = <<>>
      <4>1. Len(s) = 0 /\ chunks' = <<>> /\ <<>> \in Seq(Nat \ {0})
        BY <2>1, <3>1
      <4> QED
        BY <4>1, CoversShort
    <3>2. CASE s # <<>>
      <4>1. Len(s) \in Nat \ {0} /\ chunks' = <<Len(s)>>
        BY <2>1, <2>3, <3>2
      <4>2. <<Len(s)>> \in Seq(Nat \ {0})
        BY <4>1
      <4> QED
        BY <4>1, <4>2, CoversShort
    <3> QED
      BY <3>1, <3>2
  <2>5. <<>> \in Seq(Reads)
    OBVIOUS
  <2>6. OnceIn(s, data', answered, sent)
    BY <1>3, <2>1, <2>3, <2>5, ShortSequences, Moves
  <2>7. /\ queued' \in Seq(Reads) /\ Covers(chunks', Len(queued'))
        /\ OnceIn(queued', data', answered', sent)
        /\ Len(queued') > MaxQueued => x \in Closing
    BY <1>1, <2>1, <2>2, <2>3, <2>4, <2>6
  <2> QED
    BY <1>1, <1>3, <2>1, <2>2, <2>4, <2>5, <2>7, SettingsTyped, StepKeeps
<1> QED
  BY <1>2, <1>3

(***************************************************************************)
(* A task that has nothing takes from the queue alone.                     *)
(***************************************************************************)
LEMMA TakeQueued ==
    ASSUME TcpIInv, state # "gone", NEW t \in Tasks, data[t] = <<>>, NEW all,
           take_next(t, queued, chunks, all)
    PROVE  /\ queued' \in Seq(Reads) /\ chunks' \in Seq(Nat \ {0})
           /\ Covers(chunks', Len(queued'))
           /\ Len(queued') > MaxQueued => Len(queued) > MaxQueued
           /\ OnceIn(queued', data', answered, sent)
           /\ \E d \in Seq(Reads) : Carries(t, d) /\ data'[t] = d
<1>1. queued \in Seq(Reads) /\ chunks \in Seq(Nat \ {0}) /\ Len(queued) \in Nat
  BY TaskFacts
<1>2. Covers(chunks, Len(queued)) /\ Distinct(queued)
  BY DEF TcpIInv, ChunksCoverQueue, Once, OnceIn
<1>3. \A r : Contains(queued, r) <=> Contains(data[t], r) \/ Contains(queued, r)
  BY ShortSequences
<1>4. /\ queued' \in Seq(Reads) /\ chunks' \in Seq(Nat \ {0})
      /\ Covers(chunks', Len(queued'))
      /\ Len(queued') = 0 \/ Len(queued') < Len(queued)
      /\ OnceIn(queued', data', answered, sent)
      /\ \E d \in Seq(Reads) : Carries(t, d)
  BY <1>1, <1>2, <1>3, TakeKeeps
<1>5. Len(queued') > MaxQueued => Len(queued) > MaxQueued
  BY <1>1, <1>4, TcpAssumption
<1>6. ASSUME NEW d, Carries(t, d) PROVE data'[t] = d
  BY <1>6 DEF Carries, TcpIInv, TypeOK
<1> QED
  BY <1>4, <1>5, <1>6

\* A task takes all that is queued: rejoin.
LEMMA RejoinKeeps ==
    ASSUME TcpIInv, NEW t \in Tasks, rejoin(t) PROVE TcpIInv'
<1>1. at[t] = "rejoining" /\ UNCHANGED <<reader, sent, batching, answered>>
  BY DEF rejoin
<1>2. data[t] = <<>>
  BY <1>1 DEF TcpIInv, AtRest, EmptyHanded, Greeting
<1>3. CASE state = "gone"
  <2>1. Goes(t, "done") /\ Carries(t, <<>>) /\ UNCHANGED <<state, queued, chunks>>
    BY <1>3 DEF rejoin, Locked
  <2> QED
    BY <1>1, <1>3, <2>1, GoneKeeps, SettingsTyped
<1>4. CASE state # "gone"
  <2>1. state' = "processing" /\ take_next(t, queued, chunks, TRUE) /\ Goes(t, "entering")
    BY <1>4 DEF rejoin, Locked
  <2>2. /\ queued' \in Seq(Reads) /\ chunks' \in Seq(Nat \ {0})
        /\ Covers(chunks', Len(queued'))
        /\ Len(queued') > MaxQueued => Len(queued) > MaxQueued
        /\ OnceIn(queued', data', answered, sent)
        /\ \E d \in Seq(Reads) : Carries(t, d) /\ data'[t] = d
    BY <1>2, <1>4, <2>1, TakeQueued
  <2>3. PICK d \in Seq(Reads) : Carries(t, d)
    BY <2>2
  <2>4. /\ "entering" \in Positions /\ "entering" \notin EmptyHanded \cup Arriving
        /\ "entering" \in Backers /\ at[t] \notin Closing
    BY <1>1 DEF Positions, EmptyHanded, Arriving, Backers, Working, Closing, Greeting
  <2> QED
    BY <1>1, <1>4, <2>1, <2>2, <2>3, <2>4, SettingsTyped, StepKeeps
<1> QED
  BY <1>3, <1>4

\* A task looks for queued reads: check_queued.
LEMMA CheckQueuedKeeps ==
    ASSUME TcpIInv, NEW t \in Tasks, check_queued(t) PROVE TcpIInv'
<1>1. /\ at[t] = "checking"
      /\ UNCHANGED <<state, queued, chunks, reader, sent, data, batching, answered>>
  BY DEF check_queued
<1>2. data[t] = <<>>
  BY <1>1 DEF TcpIInv, AtRest, EmptyHanded, Greeting
<1>3. PICK x \in {"taking", "idling"} : Goes(t, x)
  BY DEF check_queued
<1>4. /\ x \in Positions /\ x \notin Arriving /\ x # "opening_closed"
      /\ x \in Backers /\ at[t] \notin Closing
  BY <1>1 DEF Positions, Arriving, Backers, Working, Closing, Greeting
<1> QED
  BY <1>1, <1>2, <1>3, <1>4, SettingsTyped, StaysKeeps

\* A task takes queued reads: take_queued.
LEMMA TakeQueuedKeeps ==
    ASSUME TcpIInv, NEW t \in Tasks, take_queued(t) PROVE TcpIInv'
<1>1. at[t] = "taking" /\ UNCHANGED <<reader, sent, batching, answered>>
  BY DEF take_queued
<1>2. data[t] = <<>>
  BY <1>1 DEF TcpIInv, AtRest, EmptyHanded, Greeting
<1>3. CASE state = "gone"
  <2>1. Goes(t, "done") /\ Carries(t, <<>>) /\ UNCHANGED <<state, queued, chunks>>
    BY <1>3 DEF take_queued, Locked
  <2> QED
    BY <1>1, <1>3, <2>1, GoneKeeps, SettingsTyped
<1>4. CASE state # "gone"
  <2> DEFINE all == batching[t]
  <2>1. /\ state' = state /\ take_next(t, queued, chunks, all)
        /\ Goes(t, IF data'[t] = <<>> THEN "idling" ELSE "entering")
    BY <1>4 DEF take_queued, Locked
  <2> HIDE DEF all
  <2>2. /\ queued' \in Seq(Reads) /\ chunks' \in Seq(Nat \ {0})
        /\ Covers(chunks', Len(queued'))
        /\ Len(queued') > MaxQueued => Len(queued) > MaxQueued
        /\ OnceIn(queued', data', answered, sent)
        /\ \E d \in Seq(Reads) : Carries(t, d) /\ data'[t] = d
    BY <1>2, <1>4, <2>1, TakeQueued
  <2>3. PICK d \in Seq(Reads) : Carries(t, d) /\ data'[t] = d
    BY <2>2
  <2>4. PICK x \in {"idling", "entering"} : Goes(t, x) /\ (x = "idling" => d = <<>>)
    BY <2>1, <2>3
  <2>5. /\ x \in Positions /\ x \notin Arriving /\ x # "opening_closed"
        /\ x \in EmptyHanded => x = "idling"
        /\ x \in Backers /\ at[t] \notin Closing
    BY <1>1 DEF Positions, EmptyHanded, Arriving, Backers, Working, Closing, Greeting
  <2> QED
    BY <1>1, <1>4, <2>1, <2>2, <2>3, <2>4, <2>5, SettingsTyped, StepKeeps
<1> QED
  BY <1>3, <1>4

\* A task sets the connection Idle: go_idle.
LEMMA GoIdleKeeps ==
    ASSUME TcpIInv, NEW t \in Tasks, go_idle(t) PROVE TcpIInv'
<1>1. at[t] = "idling" /\ UNCHANGED <<reader, sent, batching, answered>>
  BY DEF go_idle
<1>2. CASE state = "gone"
  <2>1. Goes(t, "done") /\ Carries(t, <<>>) /\ UNCHANGED <<state, queued, chunks>>
    BY <1>2 DEF go_idle, Locked
  <2> QED
    BY <1>1, <1>2, <2>1, GoneKeeps, SettingsTyped
<1>3. CASE state # "gone"
  <2>1. Goes(t, "done") /\ state' = "idle" /\ UNCHANGED <<queued, chunks, data>>
    BY <1>3 DEF go_idle, Locked
  <2>2. /\ "done" \in Positions /\ "done" \notin EmptyHanded \cup Arriving
        /\ at[t] \notin Closing
    BY <1>1 DEF Positions, EmptyHanded, Arriving, Closing, Greeting
  <2> QED
    BY <1>1, <1>3, <2>1, <2>2, SettingsTyped, StaysKeeps
<1> QED
  BY <1>2, <1>3

\* The model hangs up, or a task removes the entry: model_close, remove.
LEMMA CloseKeeps ==
    ASSUME TcpIInv, NEW t \in Tasks, model_close(t) \/ remove(t) PROVE TcpIInv'
<1>1. at[t] # "unborn" /\ RemoveEntry /\ UNCHANGED <<reader, sent, batching, answered>>
  BY DEF model_close, remove
<1>2. PICK x \in {"done", "opening_closed"} : Goes(t, x)
  BY DEF model_close, remove
<1>3. PICK d \in Seq(Reads) : Carries(t, d)
  <2>1. data[t] \in Seq(Reads) /\ <<>> \in Seq(Reads)
    BY TaskFacts
  <2>2. data' = data => Carries(t, data[t])
    BY DEF Carries, TcpIInv, TypeOK
  <2>3. data' = data \/ Carries(t, <<>>)
    BY DEF model_close, remove
  <2> QED
    BY <2>1, <2>2, <2>3
<1> QED
  BY <1>1, <1>2, <1>3, RemoveKeeps

\* A task sends FIN: shutdown.
LEMMA ShutdownKeeps ==
    ASSUME TcpIInv, NEW t \in Tasks, shutdown(t) PROVE TcpIInv'
<1>1. /\ at[t] = "shutting" /\ Goes(t, "removing")
      /\ UNCHANGED <<state, queued, chunks, reader, sent, data, batching, answered>>
  BY DEF shutdown
<1>2. /\ "removing" \in Positions /\ "removing" \notin EmptyHanded \cup Arriving
      /\ "removing" \in Backers /\ "removing" \in Closing
  BY DEF Positions, EmptyHanded, Arriving, Backers, Closing, Greeting
<1> QED
  BY <1>1, <1>2, SettingsTyped, StaysKeeps

\* The connect event: greet, write_greeting, opened, hand_over.
LEMMA ConnectKeeps ==
    ASSUME TcpIInv, connect_step \/ write_greeting PROVE TcpIInv'
<1>0. 0 \in Tasks
  BY TcpAssumption DEF Tasks
<1>1. CASE greet \/ write_greeting
  <2>1. /\ at[0] \in {"greeting", "sending_greeting"}
        /\ UNCHANGED <<state, queued, chunks, reader, sent, data, batching, answered>>
    BY <1>1 DEF greet, write_greeting
  <2>2. PICK x \in {"writing_greeting", "opening", "shutting"} : Goes(0, x)
    BY <1>1 DEF greet, write_greeting
  <2>3. data[0] = <<>>
    BY <1>0, <2>1 DEF TcpIInv, AtRest, EmptyHanded, Greeting
  <2>4. /\ x \in Positions /\ x \notin Arriving /\ x # "opening_closed"
        /\ x \in Backers /\ at[0] \notin Closing
    BY <2>1 DEF Positions, Arriving, Backers, Working, Closing, Greeting
  <2> QED
    BY <1>0, <2>1, <2>2, <2>3, <2>4, SettingsTyped, StaysKeeps
<1>2. CASE opened
  <2>1. /\ at[0] \in {"opening", "opening_closed"} /\ reader' = "reading"
        /\ UNCHANGED <<state, queued, chunks, sent, data, batching, answered>>
    BY <1>2 DEF opened
  <2>2. PICK x \in {"handing", "done"} : Goes(0, x) /\ (x = "done" => at[0] = "opening_closed")
                                                  /\ (x = "handing" => at[0] = "opening")
    BY <1>2, <2>1 DEF opened
  <2>3. /\ at[0] = "opening" => data[0] = <<>>
        /\ at[0] = "opening_closed" => state = "gone"
    BY <1>0 DEF TcpIInv, AtRest, EmptyHanded, Greeting
  <2>4. /\ x \in Positions /\ x \notin Arriving /\ x # "opening_closed"
        /\ x = "handing" => x \in Backers
        /\ x \in EmptyHanded => x = "handing"
        /\ at[0] \in Closing => state = "gone"
    BY <2>1, <2>3 DEF Positions, EmptyHanded, Arriving, Backers, Working, Closing, Greeting
  <2> QED
    BY <1>0, <2>1, <2>2, <2>3, <2>4, SettingsTyped, StaysKeeps
<1>3. CASE hand_over
  <2>1. at[0] = "handing" /\ UNCHANGED <<reader, sent, batching, answered>>
    BY <1>3 DEF hand_over
  <2>2. CASE state = "gone"
    <3>1. Goes(0, "done") /\ Carries(0, <<>>) /\ UNCHANGED <<state, queued, chunks>>
      BY <1>3, <2>2 DEF hand_over, Locked
    <3> QED
      BY <1>0, <2>1, <2>2, <3>1, GoneKeeps, SettingsTyped
  <2>3. CASE state # "gone"
    <3>1. state' = "idle" /\ UNCHANGED <<queued, chunks, data>>
      BY <1>3, <2>3 DEF hand_over, Locked
    <3>2. PICK x \in {"done", "new"} : Goes(0, x)
      BY <1>3, <2>3 DEF hand_over, Locked
    <3>3. data[0] = <<>> /\ Len(data[0]) <= 1
      <4>1. data[0] = <<>>
        BY <1>0, <2>1 DEF TcpIInv, AtRest, EmptyHanded, Greeting
      <4> QED
        BY <4>1
    <3>4. x \in Positions /\ x # "opening_closed" /\ at[0] \notin Closing
      BY <2>1 DEF Positions, Closing, Greeting
    <3> QED
      BY <1>0, <2>1, <2>3, <3>1, <3>2, <3>3, <3>4, SettingsTyped, StaysKeeps
  <2> QED
    BY <2>2, <2>3
<1> QED
  BY <1>1, <1>2, <1>3 DEF connect_step

(***************************************************************************)
(* Reads that are in one place each are counted once.                      *)
(***************************************************************************)
LEMMA OnceCounted == TypeOK /\ Once => EachReadOnce
<1> SUFFICES ASSUME TypeOK, OnceIn(queued, data, answered, sent), NEW r \in 1..sent
             PROVE  Places(r) = 1
  BY DEF Once, EachReadOnce
<1> DEFINE T == {t \in Tasks : Contains(data[t], r)}
           Q == {i \in DOMAIN queued : queued[i] = r}
           A == answered \cap {r}
<1>1. r \in Reads /\ r <= sent /\ queued \in Seq(Reads)
  BY TcpAssumption DEF TypeOK, Reads
<1>2. /\ Distinct(queued)
      /\ \A t, u \in Tasks : Contains(data[t], r) /\ Contains(data[u], r) => t = u
      /\ \A t \in Tasks : Contains(data[t], r) => ~Contains(queued, r) /\ r \notin answered
      /\ Contains(queued, r) => r \notin answered
      /\ r \in answered \/ Contains(queued, r) \/ \E t \in Tasks : Contains(data[t], r)
  BY <1>1 DEF OnceIn
<1>3. Q # {} <=> Contains(queued, r)
  BY <1>1 DEF Contains
<1>4. Cardinality({}) = 0 /\ \A x : Cardinality({x}) = 1
  BY FS_EmptySet, FS_Singleton
<1>5. Places(r) = Cardinality(T) + Cardinality(Q) + Cardinality(A)
  BY DEF Places
<1>6. CASE r \in answered
  <2>1. T = {} /\ Q = {} /\ A = {r}
    BY <1>2, <1>3, <1>6
  <2> HIDE DEF T, Q, A
  <2>2. Cardinality(T) = 0 /\ Cardinality(Q) = 0 /\ Cardinality(A) = 1
    BY <1>4, <2>1, Zenon
  <2> QED
    BY <1>5, <2>2
<1>7. CASE Contains(queued, r)
  <2>1. PICK i \in Q : TRUE
    BY <1>3, <1>7
  <2>2. T = {} /\ A = {}
    BY <1>2, <1>7
  <2>3. Q = {i}
    BY <1>1, <1>2, <2>1 DEF Distinct
  <2> HIDE DEF T, Q, A
  <2>4. Cardinality(T) = 0 /\ Cardinality(Q) = 1 /\ Cardinality(A) = 0
    BY <1>4, <2>2, <2>3, Zenon
  <2> QED
    BY <1>5, <2>4
<1>8. CASE \E t \in Tasks : Contains(data[t], r)
  <2>1. PICK t \in Tasks : Contains(data[t], r)
    BY <1>8
  <2>2. T = {t} /\ Q = {} /\ A = {}
    BY <1>2, <1>3, <2>1
  <2> HIDE DEF T, Q, A
  <2>3. Cardinality(T) = 1 /\ Cardinality(Q) = 0 /\ Cardinality(A) = 0
    BY <1>4, <2>2, Zenon
  <2> QED
    BY <1>5, <2>3
<1> QED
  BY <1>2, <1>6, <1>7, <1>8

(***************************************************************************)
(* Every step keeps the inductive invariant.                               *)
(***************************************************************************)
LEMMA TcpStep == TcpIInv /\ [Next]_vars => TcpIInv'
<1> SUFFICES ASSUME TcpIInv, [Next]_vars PROVE TcpIInv'
  OBVIOUS
<1>1. CASE read
  BY <1>1, ReadKeeps
<1>2. CASE end_of_stream
  BY <1>2, EndOfStreamKeeps
<1>3. CASE connect_step \/ write_greeting
  BY <1>3, ConnectKeeps
<1>4. ASSUME NEW t \in Tasks, task_step(t) \/ write(t) PROVE TcpIInv'
  BY <1>4, CheckStateKeeps, QueueDataKeeps, MergeKeeps, EnterKeeps, CallKeeps, LockWriteKeeps,
     WriteKeeps, HoldKeeps, RejoinKeeps, CheckQueuedKeeps, TakeQueuedKeeps, GoIdleKeeps,
     CloseKeeps, ShutdownKeeps
     DEF task_step
<1>5. CASE UNCHANGED vars
  <2>1. TypeOK' /\ ProcessingIsBacked' /\ ChunksCoverQueue' /\ QueueBounded'
    BY <1>5 DEF vars, TcpIInv, TypeOK, ProcessingIsBacked, ChunksCoverQueue, QueueBounded
  <2>2. Once' /\ AtRest'
    BY <1>5 DEF vars, TcpIInv, Once, AtRest
  <2> QED
    BY <2>1, <2>2 DEF TcpIInv
<1> QED
  BY <1>1, <1>2, <1>3, <1>4, <1>5 DEF Next

\* The inductive invariant implies the invariant the runs check.
LEMMA TcpImplied == TcpIInv => TcpInv
BY OnceCounted DEF TcpIInv, TcpInv

(***************************************************************************)
(* A TCP connection never wedges, and shows every byte once.  For any      *)
(* number of reads and any bound on the queue: while the connection is     *)
(* Processing some task is at work on it, every read is in exactly one     *)
(* place, queued_chunks covers queued_data, and a queue above the bound    *)
(* belongs to a connection being closed.                                   *)
(***************************************************************************)
THEOREM EveryReadOnce == Spec => []TcpInv
<1>1. Spec => []TcpIInv
  BY TcpInit, TcpStep, PTL DEF Spec
<1> QED
  BY <1>1, TcpImplied, PTL

-----------------------------------------------------------------------------
(***************************************************************************)
(* The inductive invariant of a WebSocket connection.  What is shown, what *)
(* the handler holds, what is held back and what is queued are one line in *)
(* arrival order, and no frame in it is newer than the last one read.      *)
(***************************************************************************)
Sorted(s) ==
    /\ \A i \in 1..Len(s) : Ws!InOrder(s[i])
    /\ \A i, j \in 1..Len(s) : i < j => Ws!Precedes(s[i], s[j])
Follows(s, u) == \A i \in 1..Len(s), j \in 1..Len(u) : Ws!Precedes(s[i], u[j])
UpTo(s, k) == \A i \in 1..Len(s) : \A f \in Ws!ToSet(s[i].parts) : f <= k

Carried ==
    \A h \in Ws!Frames :
        /\ handler[h] \notin {"calling", "holding"} => batch[h] = <<>>
        /\ handler[h] = "calling" => batch[h] # <<>>
        /\ handler[h] = "holding" => Len(batch[h]) = 1
        /\ h > ws_sent => handler[h] = "none"

FrameBound ==
    /\ UpTo(shown, ws_sent) /\ UpTo(ws_queued, ws_sent) /\ UpTo(pending, ws_sent)
    /\ \A h \in Ws!Frames : UpTo(batch[h], ws_sent)

OneLine ==
    /\ Sorted(shown) /\ Sorted(ws_queued) /\ Sorted(pending)
    /\ Follows(shown, ws_queued) /\ Follows(shown, pending)
    /\ \A h \in Ws!Frames :
          Sorted(batch[h]) /\ Follows(shown, batch[h]) /\ Follows(batch[h], ws_queued)
    /\ ws_state = "accumulating" => ws_queued = <<>>

WsIInv ==
    /\ Ws!TypeOK /\ Ws!OneHandler /\ Ws!IdleIsEmpty
    /\ Carried /\ FrameBound /\ (~overtaken => OneLine)

(***************************************************************************)
(* Two stretches of the line in a row.                                     *)
(***************************************************************************)
LEMMA ConcatElements ==
    ASSUME NEW S, NEW s \in Seq(S), NEW u \in Seq(S)
    PROVE  /\ s \o u \in Seq(S) /\ Len(s \o u) = Len(s) + Len(u)
           /\ Len(s) \in Nat /\ Len(u) \in Nat
           /\ \A i \in 1..Len(s) : i \in 1..Len(s \o u) /\ (s \o u)[i] = s[i]
           /\ \A j \in 1..Len(u) : Len(s) + j \in 1..Len(s \o u) /\ (s \o u)[Len(s) + j] = u[j]
           /\ \A k \in 1..Len(s \o u) :
                 k \in 1..Len(s) \/ \E j \in 1..Len(u) : k = Len(s) + j
<1>1. /\ s \o u \in Seq(S) /\ Len(s \o u) = Len(s) + Len(u)
      /\ Len(s) \in Nat /\ Len(u) \in Nat
      /\ \A i \in 1..(Len(s) + Len(u)) :
            (s \o u)[i] = IF i <= Len(s) THEN s[i] ELSE u[i - Len(s)]
  OBVIOUS
<1>2. \A i \in 1..Len(s) : i \in 1..Len(s \o u) /\ (s \o u)[i] = s[i]
  BY <1>1
<1>3. ASSUME NEW j \in 1..Len(u)
      PROVE  Len(s) + j \in 1..Len(s \o u) /\ (s \o u)[Len(s) + j] = u[j]
  <2>1. /\ Len(s) + j \in 1..(Len(s) + Len(u)) /\ ~(Len(s) + j <= Len(s))
        /\ (Len(s) + j) - Len(s) = j
    BY <1>1
  <2> QED
    BY <1>1, <2>1
<1>4. ASSUME NEW k \in 1..Len(s \o u), k \notin 1..Len(s)
      PROVE  \E j \in 1..Len(u) : k = Len(s) + j
  <2>1. k - Len(s) \in 1..Len(u) /\ k = Len(s) + (k - Len(s))
    BY <1>1, <1>4
  <2> QED
    BY <2>1
<1> QED
  BY <1>1, <1>2, <1>3, <1>4

\* A line is in order when both stretches are and the one follows the other.
LEMMA ConcatSorted ==
    ASSUME NEW S, NEW s \in Seq(S), NEW u \in Seq(S)
    PROVE  Sorted(s \o u) <=> Sorted(s) /\ Sorted(u) /\ Follows(s, u)
<1> DEFINE w == s \o u
<1>1. /\ Len(s) \in Nat /\ Len(u) \in Nat /\ Len(w) = Len(s) + Len(u)
      /\ \A i \in 1..Len(s) : i \in 1..Len(w) /\ w[i] = s[i]
      /\ \A j \in 1..Len(u) : Len(s) + j \in 1..Len(w) /\ w[Len(s) + j] = u[j]
      /\ \A k \in 1..Len(w) : k \in 1..Len(s) \/ \E j \in 1..Len(u) : k = Len(s) + j
  BY ConcatElements
<1> HIDE DEF w
<1>2. ASSUME Sorted(w) PROVE Sorted(s) /\ Sorted(u) /\ Follows(s, u)
  <2>1. Sorted(s)
    BY <1>1, <1>2 DEF Sorted
  <2>2. Sorted(u)
    <3>1. \A j \in 1..Len(u) : Ws!InOrder(u[j])
      BY <1>1, <1>2 DEF Sorted
    <3>2. ASSUME NEW i \in 1..Len(u), NEW j \in 1..Len(u), i < j
          PROVE  Ws!Precedes(u[i], u[j])
      <4>1. Len(s) + i < Len(s) + j /\ Len(s) + i \in 1..Len(w) /\ Len(s) + j \in 1..Len(w)
        BY <1>1, <3>2
      <4>2. Ws!Precedes(w[Len(s) + i], w[Len(s) + j])
        BY <1>2, <4>1 DEF Sorted
      <4> QED
        BY <1>1, <4>2
    <3> QED
      BY <3>1, <3>2 DEF Sorted
  <2>3. Follows(s, u)
    <3>1. ASSUME NEW i \in 1..Len(s), NEW j \in 1..Len(u)
          PROVE  Ws!Precedes(s[i], u[j])
      <4>1. i < Len(s) + j /\ i \in 1..Len(w) /\ Len(s) + j \in 1..Len(w)
        BY <1>1
      <4>2. Ws!Precedes(w[i], w[Len(s) + j])
        BY <1>2, <4>1 DEF Sorted
      <4> QED
        BY <1>1, <4>2
    <3> QED
      BY <3>1 DEF Follows
  <2> QED
    BY <2>1, <2>2, <2>3
<1>3. ASSUME Sorted(s), Sorted(u), Follows(s, u) PROVE Sorted(w)
  <2>1. \A k \in 1..Len(w) : Ws!InOrder(w[k])
    BY <1>1, <1>3 DEF Sorted
  <2>2. ASSUME NEW k \in 1..Len(w), NEW l \in 1..Len(w), k < l
        PROVE  Ws!Precedes(w[k], w[l])
    <3>1. CASE k \in 1..Len(s) /\ l \in 1..Len(s)
      <4>1. Ws!Precedes(s[k], s[l])
        BY <1>3, <2>2, <3>1 DEF Sorted
      <4> QED
        BY <1>1, <3>1, <4>1
    <3>2. CASE k \in 1..Len(s) /\ l \notin 1..Len(s)
      <4>1. PICK j \in 1..Len(u) : l = Len(s) + j
        BY <1>1, <3>2
      <4>2. Ws!Precedes(s[k], u[j])
        BY <1>3, <3>2 DEF Follows
      <4> QED
        BY <1>1, <3>2, <4>1, <4>2
    <3>3. CASE k \notin 1..Len(s)
      <4>1. PICK i \in 1..Len(u) : k = Len(s) + i
        BY <1>1, <3>3
      <4>2. l \notin 1..Len(s)
        BY <1>1, <2>2, <4>1
      <4>3. PICK j \in 1..Len(u) : l = Len(s) + j
        BY <1>1, <4>2
      <4>4. i < j
        BY <1>1, <2>2, <4>1, <4>3
      <4>5. Ws!Precedes(u[i], u[j])
        BY <1>3, <4>4 DEF Sorted
      <4> QED
        BY <1>1, <4>1, <4>3, <4>5
    <3> QED
      BY <3>1, <3>2, <3>3
  <2> QED
    BY <2>1, <2>2 DEF Sorted
<1> QED
  BY <1>2, <1>3 DEF w

\* What follows a line, or is followed by it, does so for both stretches.
LEMMA ConcatFollows ==
    ASSUME NEW S, NEW s \in Seq(S), NEW u \in Seq(S)
    PROVE  /\ \A v : Follows(s \o u, v) <=> Follows(s, v) /\ Follows(u, v)
           /\ \A v : Follows(v, s \o u) <=> Follows(v, s) /\ Follows(v, u)
           /\ \A k : UpTo(s \o u, k) <=> UpTo(s, k) /\ UpTo(u, k)
<1> DEFINE w == s \o u
<1>1. /\ \A i \in 1..Len(s) : i \in 1..Len(w) /\ w[i] = s[i]
      /\ \A j \in 1..Len(u) : Len(s) + j \in 1..Len(w) /\ w[Len(s) + j] = u[j]
      /\ \A k \in 1..Len(w) : k \in 1..Len(s) \/ \E j \in 1..Len(u) : k = Len(s) + j
  BY ConcatElements
<1> HIDE DEF w
<1>2. \A v : Follows(w, v) <=> Follows(s, v) /\ Follows(u, v)
  <2> TAKE v
  <2>1. ASSUME Follows(w, v) PROVE Follows(s, v) /\ Follows(u, v)
    BY <1>1, <2>1 DEF Follows
  <2>2. ASSUME Follows(s, v), Follows(u, v) PROVE Follows(w, v)
    BY <1>1, <2>2 DEF Follows
  <2> QED
    BY <2>1, <2>2
<1>3. \A v : Follows(v, w) <=> Follows(v, s) /\ Follows(v, u)
  <2> TAKE v
  <2>1. ASSUME Follows(v, w) PROVE Follows(v, s) /\ Follows(v, u)
    BY <1>1, <2>1 DEF Follows
  <2>2. ASSUME Follows(v, s), Follows(v, u) PROVE Follows(v, w)
    BY <1>1, <2>2 DEF Follows
  <2> QED
    BY <2>1, <2>2
<1>4. \A k : UpTo(w, k) <=> UpTo(s, k) /\ UpTo(u, k)
  <2> TAKE k
  <2>1. ASSUME UpTo(w, k) PROVE UpTo(s, k) /\ UpTo(u, k)
    BY <1>1, <2>1 DEF UpTo
  <2>2. ASSUME UpTo(s, k), UpTo(u, k) PROVE UpTo(w, k)
    BY <1>1, <2>2 DEF UpTo
  <2> QED
    BY <2>1, <2>2
<1> QED
  BY <1>2, <1>3, <1>4 DEF w

(***************************************************************************)
(* A sequence is what a cut leaves of it, in a row.                        *)
(***************************************************************************)
LEMMA CutIsConcat ==
    ASSUME NEW S, NEW s \in Seq(S), NEW n \in 0..Len(s)
    PROVE  LET a == SubSeq(s, 1, n)
               b == SubSeq(s, n + 1, Len(s))
           IN  /\ a \in Seq(S) /\ b \in Seq(S) /\ Len(a) = n /\ Len(b) = Len(s) - n
               /\ s = a \o b
<1> DEFINE a == SubSeq(s, 1, n)
           b == SubSeq(s, n + 1, Len(s))
<1>1. Len(s) \in Nat /\ n \in Nat /\ n <= Len(s)
  OBVIOUS
<1>2. a \in Seq(S) /\ Len(a) = n /\ \A i \in 1..n : a[i] = s[i]
  BY <1>1
<1>3. b \in Seq(S) /\ Len(b) = Len(s) - n /\ \A i \in 1..(Len(s) - n) : b[i] = s[n + i]
  BY <1>1
<1> HIDE DEF a, b
<1>4. a \o b \in Seq(S) /\ Len(a \o b) = Len(s)
  BY <1>1, <1>2, <1>3
<1>5. ASSUME NEW k \in 1..Len(s) PROVE (a \o b)[k] = s[k]
  <2>1. CASE k <= n
    BY <1>1, <1>2, <1>3, <2>1
  <2>2. CASE k > n
    <3>1. k - n \in 1..Len(b) /\ n + (k - n) = k /\ k - n \in 1..(Len(s) - n)
      BY <1>1, <1>3, <2>2
    <3>2. (a \o b)[k] = b[k - n]
      BY <1>1, <1>2, <1>3, <2>2
    <3> QED
      BY <1>3, <3>1, <3>2
  <2>3. k <= n \/ k > n
    BY <1>1
  <2> QED
    BY <2>1, <2>2, <2>3
<1>6. s = a \o b
  BY <1>4, <1>5, SeqEqual
<1> QED
  BY <1>2, <1>3, <1>6 DEF a, b

\* A sequence is its front with its last element behind it.
LEMMA LastInPlace ==
    ASSUME NEW S, NEW s \in Seq(S), s # <<>>
    PROVE  /\ Ws!Front(s) \in Seq(S) /\ Ws!Last(s) \in S
           /\ <<Ws!Last(s)>> \in Seq(S) /\ s = Ws!Front(s) \o <<Ws!Last(s)>>
<1>1. Len(s) \in Nat /\ Len(s) >= 1 /\ Len(s) - 1 \in 0..Len(s) /\ (Len(s) - 1) + 1 = Len(s)
      /\ s[Len(s)] \in S
  OBVIOUS
<1>2. /\ SubSeq(s, 1, Len(s) - 1) \in Seq(S)
      /\ s = SubSeq(s, 1, Len(s) - 1) \o SubSeq(s, Len(s), Len(s))
  <2> DEFINE n == Len(s) - 1
  <2>1. n \in 0..Len(s) /\ n + 1 = Len(s)
    BY <1>1
  <2> HIDE DEF n
  <2>2. /\ SubSeq(s, 1, n) \in Seq(S)
        /\ s = SubSeq(s, 1, n) \o SubSeq(s, n + 1, Len(s))
    BY <2>1, CutIsConcat
  <2>3. /\ SubSeq(s, 1, n) \in Seq(S)
        /\ s = SubSeq(s, 1, n) \o SubSeq(s, Len(s), Len(s))
    BY <2>1, <2>2, Zenon
  <2> QED
    BY <2>3 DEF n
<1>3. <<s[Len(s)]>> \in Seq(S)
  BY <1>1
<1>4. SubSeq(s, Len(s), Len(s)) = <<s[Len(s)]>>
  <2> DEFINE b == SubSeq(s, Len(s), Len(s))
             l == <<s[Len(s)]>>
  <2>1. b \in Seq(S) /\ Len(b) = 1 /\ b[1] = s[Len(s)]
    BY <1>1
  <2>2. l \in Seq(S) /\ Len(l) = 1 /\ l[1] = s[Len(s)]
    BY <1>1
  <2> HIDE DEF b, l
  <2>3. \A i \in 1..Len(b) : b[i] = l[i]
    BY <2>1, <2>2
  <2>4. b = l
    BY <2>1, <2>2, <2>3, SeqEqual
  <2> QED
    BY <2>4 DEF b, l
<1> QED
  BY <1>1, <1>2, <1>3, <1>4 DEF Ws!Front, Ws!Last

\* Lines of no message and of one.
LEMMA ShortLines ==
    /\ Sorted(<<>>) /\ \A v : Follows(<<>>, v) /\ Follows(v, <<>>)
    /\ \A k : UpTo(<<>>, k)
    /\ \A m : Sorted(<<m>>) <=> Ws!InOrder(m)
    /\ \A m, k : UpTo(<<m>>, k) <=> \A f \in Ws!ToSet(m.parts) : f <= k
    /\ \A v, m : Follows(v, <<m>>) <=> \A i \in 1..Len(v) : Ws!Precedes(v[i], m)
<1>1. Len(<<>>) = 0 /\ 1..0 = {} /\ 1..1 = {1} /\ \A m : Len(<<m>>) = 1 /\ <<m>>[1] = m
  OBVIOUS
<1>2. Sorted(<<>>) /\ \A v : Follows(<<>>, v) /\ Follows(v, <<>>)
  BY <1>1 DEF Sorted, Follows
<1>3. \A k : UpTo(<<>>, k)
  BY <1>1 DEF UpTo
<1>4. \A m : Sorted(<<m>>) <=> Ws!InOrder(m)
  <2>1. ~(1 < 1)
    OBVIOUS
  <2> QED
    BY <1>1, <2>1, Zenon DEF Sorted
<1>5. \A m, k : UpTo(<<m>>, k) <=> \A f \in Ws!ToSet(m.parts) : f <= k
  BY <1>1, Zenon DEF UpTo
<1>6. \A v, m : Follows(v, <<m>>) <=> \A i \in 1..Len(v) : Ws!Precedes(v[i], m)
  <2> TAKE v, m
  <2>1. ASSUME Follows(v, <<m>>), NEW i \in 1..Len(v) PROVE Ws!Precedes(v[i], m)
    <3>1. 1 \in 1..Len(<<m>>)
      BY <1>1
    <3>2. Ws!Precedes(v[i], <<m>>[1])
      BY <2>1, <3>1 DEF Follows
    <3> QED
      BY <1>1, <3>2, Zenon
  <2>2. ASSUME \A i \in 1..Len(v) : Ws!Precedes(v[i], m) PROVE Follows(v, <<m>>)
    <3>1. ASSUME NEW i \in 1..Len(v), NEW j \in 1..Len(<<m>>)
          PROVE  Ws!Precedes(v[i], <<m>>[j])
      <4>1. j = 1
        BY <1>1
      <4> QED
        BY <1>1, <2>2, <4>1, Zenon
    <3> QED
      BY <3>1 DEF Follows
  <2> QED
    BY <2>1, <2>2
<1> QED
  BY <1>2, <1>3, <1>4, <1>5, <1>6

(***************************************************************************)
(* A frame that has just been read goes behind everything.                 *)
(***************************************************************************)
LEMMA FramesTyped ==
    /\ LastFrame \in Nat /\ MaxBatch \in Nat \ {0}
    /\ \A f \in Ws!Frames : f \in Nat
    /\ \A m \in Ws!Message : m.parts \in Seq(Ws!Frames) /\ Ws!ToSet(m.parts) \subseteq Nat
<1>1. LastFrame \in Nat /\ MaxBatch \in Nat \ {0}
  BY StreamsAssumption DEF Ws!FramesAssumption
<1>2. \A f \in Ws!Frames : f \in Nat
  BY <1>1 DEF Ws!Frames
<1>3. ASSUME NEW m \in Ws!Message PROVE m.parts \in Seq(Ws!Frames)
  BY DEF Ws!Message
<1>4. ASSUME NEW m \in Ws!Message PROVE Ws!ToSet(m.parts) \subseteq Nat
  BY <1>2, <1>3 DEF Ws!ToSet
<1> QED
  BY <1>1, <1>2, <1>3, <1>4

\* A line up to a frame is a line up to the next.
LEMMA UpToLater ==
    ASSUME NEW s \in Seq(Ws!Message), NEW k \in Nat, UpTo(s, k)
    PROVE  UpTo(s, k + 1)
<1> SUFFICES ASSUME NEW i \in 1..Len(s), NEW f \in Ws!ToSet(s[i].parts)
             PROVE  f <= k + 1
  BY DEF UpTo
<1>1. f <= k /\ s[i] \in Ws!Message
  BY DEF UpTo
<1>2. f \in Nat
  BY <1>1, FramesTyped
<1> QED
  BY <1>1, <1>2

\* The newest message follows every line read before it.
LEMMA NewestLast ==
    ASSUME NEW m \in Ws!Message, NEW k \in Nat, Ws!ToSet(m.parts) = {k + 1},
           NEW s \in Seq(Ws!Message), UpTo(s, k)
    PROVE  Follows(s, <<m>>)
<1>1. ASSUME NEW i \in 1..Len(s) PROVE Ws!Precedes(s[i], m)
  <2>1. s[i] \in Ws!Message
    OBVIOUS
  <2>2. \A f \in Ws!ToSet(s[i].parts) : f \in Nat /\ f <= k
    BY <2>1, FramesTyped DEF UpTo
  <2> QED
    BY <2>2 DEF Ws!Precedes
<1> QED
  BY <1>1, ShortLines

\* A message of one new frame.
LEMMA NewFrame ==
    ASSUME NEW knd \in Ws!Kinds, NEW k \in Nat, k + 1 \in Ws!Frames
    PROVE  LET new == [kind |-> knd, parts |-> <<k + 1>>]
           IN  /\ new \in Ws!Message /\ Ws!InOrder(new) /\ Ws!ToSet(new.parts) = {k + 1}
               /\ UpTo(<<new>>, k + 1)
<1> DEFINE p == <<k + 1>>
           new == [kind |-> knd, parts |-> p]
<1>1. p \in Seq(Ws!Frames) /\ Len(p) = 1 /\ p[1] = k + 1 /\ DOMAIN p = {1}
  OBVIOUS
<1> HIDE DEF p
<1>2. new \in Ws!Message /\ new.parts = p
  BY <1>1 DEF Ws!Message
<1>3. Ws!ToSet(p) = {k + 1}
  BY <1>1 DEF Ws!ToSet
<1> HIDE DEF new
<1>4. Ws!InOrder(new)
  BY <1>1, <1>2 DEF Ws!InOrder
<1>5. UpTo(<<new>>, k + 1)
  <2>1. \A f \in Ws!ToSet(new.parts) : f <= k + 1
    BY <1>2, <1>3
  <2> QED
    BY <2>1, ShortLines
<1> QED
  BY <1>2, <1>3, <1>4, <1>5 DEF new, p

(***************************************************************************)
(* A held message that the newest frame is joined to keeps its place.      *)
(***************************************************************************)
LEMMA JoinedMessage ==
    ASSUME NEW held \in Ws!Message, NEW k \in Nat, k + 1 \in Ws!Frames, UpTo(<<held>>, k)
    PROVE  LET m == [held EXCEPT !.parts = @ \o <<k + 1>>]
           IN  /\ m \in Ws!Message /\ UpTo(<<m>>, k + 1)
               /\ Ws!InOrder(held) => Ws!InOrder(m)
               /\ \A s \in Seq(Ws!Message) :
                     UpTo(s, k) /\ Follows(s, <<held>>) => Follows(s, <<m>>)
<1> DEFINE q == held.parts
           p == q \o <<k + 1>>
           m == [held EXCEPT !.parts = p]
<1>1. /\ q \in Seq(Ws!Frames) /\ Len(q) \in Nat
      /\ \A f \in Ws!ToSet(q) : f \in Nat /\ f <= k
  BY FramesTyped, ShortLines
<1>2. /\ p \in Seq(Ws!Frames) /\ Len(p) = Len(q) + 1
      /\ \A i \in 1..Len(q) : p[i] = q[i] /\ q[i] \in Ws!ToSet(q)
      /\ p[Len(q) + 1] = k + 1
  BY <1>1 DEF Ws!ToSet
<1>3. m \in Ws!Message /\ m.parts = p
  BY <1>2 DEF Ws!Message
<1>4. DOMAIN p = 1..(Len(q) + 1) /\ DOMAIN q = 1..Len(q)
  BY <1>1, <1>2
<1> HIDE DEF m, p, q
<1>5. Ws!ToSet(p) = Ws!ToSet(q) \cup {k + 1}
  <2>1. \A f : f \in Ws!ToSet(p) <=> \E i \in 1..(Len(q) + 1) : f = p[i]
    BY <1>4 DEF Ws!ToSet
  <2>2. \A f : f \in Ws!ToSet(q) <=> \E i \in 1..Len(q) : f = q[i]
    BY <1>4 DEF Ws!ToSet
  <2>3. \A i \in 1..(Len(q) + 1) : i \in 1..Len(q) \/ i = Len(q) + 1
    BY <1>1
  <2>4. Len(q) + 1 \in 1..(Len(q) + 1) /\ \A i \in 1..Len(q) : i \in 1..(Len(q) + 1)
    BY <1>1
  <2>5. ASSUME NEW f \in Ws!ToSet(p) PROVE f \in Ws!ToSet(q) \cup {k + 1}
    <3>1. PICK i \in 1..(Len(q) + 1) : f = p[i]
      BY <2>1
    <3> QED
      BY <1>2, <2>3, <3>1
  <2>6. ASSUME NEW f \in Ws!ToSet(q) PROVE f \in Ws!ToSet(p)
    <3>1. PICK i \in 1..Len(q) : f = q[i]
      BY <2>2
    <3> QED
      BY <1>2, <2>1, <2>4, <3>1
  <2>7. k + 1 \in Ws!ToSet(p)
    BY <1>2, <2>1, <2>4
  <2> QED
    BY <2>5, <2>6, <2>7
<1>6. UpTo(<<m>>, k + 1)
  <2>1. \A f \in Ws!ToSet(m.parts) : f <= k + 1
    BY <1>1, <1>3, <1>5
  <2> QED
    BY <2>1, ShortLines
<1>7. ASSUME Ws!InOrder(held) PROVE Ws!InOrder(m)
  <2>1. \A i, j \in 1..Len(q) : i < j => q[i] < q[j]
    BY <1>4, <1>7 DEF Ws!InOrder, q
  <2>2. ASSUME NEW i \in 1..(Len(q) + 1), NEW j \in 1..(Len(q) + 1), i < j
        PROVE  p[i] < p[j]
    <3>1. i \in 1..Len(q)
      BY <1>1, <2>2
    <3>2. CASE j \in 1..Len(q)
      BY <1>2, <2>1, <2>2, <3>1, <3>2
    <3>3. CASE j = Len(q) + 1
      <4>1. p[i] \in Nat /\ p[i] <= k /\ p[j] = k + 1
        BY <1>1, <1>2, <3>1, <3>3
      <4> QED
        BY <4>1
    <3> QED
      BY <1>1, <3>2, <3>3
  <2> QED
    BY <1>3, <1>4, <2>2 DEF Ws!InOrder
<1>8. ASSUME NEW s \in Seq(Ws!Message), UpTo(s, k), Follows(s, <<held>>)
      PROVE  Follows(s, <<m>>)
  <2>1. ASSUME NEW i \in 1..Len(s) PROVE Ws!Precedes(s[i], m)
    <3>1. s[i] \in Ws!Message /\ Ws!Precedes(s[i], held)
      BY <1>8, ShortLines
    <3>2. \A f \in Ws!ToSet(s[i].parts) : f \in Nat /\ f <= k
      BY <1>8, <3>1, FramesTyped DEF UpTo
    <3>3. \A f \in Ws!ToSet(s[i].parts), g \in Ws!ToSet(q) : f < g
      BY <3>1 DEF Ws!Precedes, q
    <3>4. \A f \in Ws!ToSet(s[i].parts) : f < k + 1
      BY <3>2
    <3>5. \A f \in Ws!ToSet(s[i].parts), g \in Ws!ToSet(p) : f < g
      BY <1>5, <3>3, <3>4
    <3> QED
      BY <1>3, <3>5 DEF Ws!Precedes
  <2> QED
    BY <2>1, ShortLines
<1> QED
  BY <1>3, <1>6, <1>7, <1>8 DEF m, p, q

-----------------------------------------------------------------------------
(***************************************************************************)
(* The connection starts with nothing read.                                *)
(***************************************************************************)
LEMMA WsInit == Ws!Init => WsIInv
<1> SUFFICES ASSUME Ws!Init PROVE WsIInv
  OBVIOUS
<1>1. /\ ws_state = "idle" /\ ws_queued = <<>> /\ pending = <<>> /\ shown = <<>> /\ ws_sent = 0
      /\ \A h \in Ws!Frames : handler[h] = "none" /\ batch[h] = <<>>
  BY DEF Ws!Init
<1>2. Ws!TypeOK
  <2>1. overtaken \in BOOLEAN /\ reading \in BOOLEAN
    BY DEF Ws!Init
  <2>2. \A h \in Ws!Frames : Len(batch[h]) <= MaxBatch
    BY <1>1, FramesTyped
  <2>3. <<>> \in Seq(Ws!Message) /\ Len(<<>>) <= 1 /\ 0 \in 0..LastFrame
    BY FramesTyped
  <2>4. /\ handler \in [Ws!Frames -> {"none", "taking", "calling", "holding", "clearing", "done"}]
        /\ batch \in [Ws!Frames -> Seq(Ws!Message)]
    BY DEF Ws!Init
  <2> QED
    BY <1>1, <2>1, <2>2, <2>3, <2>4 DEF Ws!TypeOK
<1>3. Ws!OneHandler /\ Ws!IdleIsEmpty
  BY <1>1 DEF Ws!OneHandler, Ws!IdleIsEmpty, Ws!Running
<1>4. Carried
  BY <1>1 DEF Carried
<1>5. FrameBound
  BY <1>1, ShortLines DEF FrameBound
<1>6. OneLine
  BY <1>1, ShortLines DEF OneLine
<1> QED
  BY <1>2, <1>3, <1>4, <1>5, <1>6 DEF WsIInv

\* The types of the messages, in one place.
LEMMA MessagesTyped ==
    ASSUME WsIInv
    PROVE  /\ ws_queued \in Seq(Ws!Message) /\ pending \in Seq(Ws!Message)
           /\ shown \in Seq(Ws!Message) /\ \A h \in Ws!Frames : batch[h] \in Seq(Ws!Message)
           /\ ws_sent \in 0..LastFrame /\ ws_sent \in Nat
           /\ ws_state \in {"idle", "processing", "accumulating"}
           /\ reading \in BOOLEAN /\ overtaken \in BOOLEAN
BY FramesTyped DEF WsIInv, Ws!TypeOK

\* A sequence of at most one element, when it has one.
LEMMA OnlyElement ==
    ASSUME NEW S, NEW p \in Seq(S), p # <<>>, Len(p) <= 1
    PROVE  p[1] \in S /\ p = <<p[1]>>
<1>1. Len(p) = 1
  <2>1. \A n \in Nat : n <= 1 /\ n # 0 => n = 1
    OBVIOUS
  <2>2. Len(p) \in Nat /\ Len(p) # 0
    BY EmptySeq
  <2> QED
    BY <2>1, <2>2, Zenon
<1>2. p[1] \in S /\ <<p[1]>> \in Seq(S)
  BY <1>1
<1>3. Len(<<p[1]>>) = 1 /\ \A i \in 1..1 : p[i] = <<p[1]>>[i]
  OBVIOUS
<1> QED
  BY <1>1, <1>2, <1>3, SeqEqual

(***************************************************************************)
(* A running handler has the connection for itself.                        *)
(***************************************************************************)
LEMMA RunningAlone ==
    ASSUME WsIInv, NEW h \in Ws!Frames,
           handler[h] \in {"taking", "calling", "holding", "clearing"}
    PROVE  /\ ws_state = "processing" /\ pending = <<>> /\ ~(h > ws_sent)
           /\ \A g \in Ws!Frames : g # h => handler[g] \in {"none", "done"} /\ batch[g] = <<>>
<1>1. h \in Ws!Running
  BY DEF Ws!Running
<1>2. ws_state = "processing" /\ \A g \in Ws!Running : g = h
  BY <1>1 DEF WsIInv, Ws!OneHandler
<1>3. \A g \in Ws!Frames : g # h => handler[g] \in {"none", "done"}
  BY <1>2 DEF Ws!Running
<1>4. \A g \in Ws!Frames : g # h => batch[g] = <<>>
  BY <1>3 DEF WsIInv, Carried
<1>5. pending = <<>>
  BY <1>2 DEF WsIInv, Ws!TypeOK
<1>6. ~(h > ws_sent)
  BY DEF WsIInv, Carried
<1> QED
  BY <1>2, <1>3, <1>4, <1>5, <1>6

(***************************************************************************)
(* What a step of a handler has to show.                                   *)
(***************************************************************************)
LEMMA HandlerKeeps ==
    ASSUME WsIInv, NEW h \in Ws!Frames,
           handler[h] \in {"taking", "calling", "holding", "clearing"},
           NEW x \in {"taking", "calling", "holding", "clearing", "done"}, Ws!Goes(h, x),
           ws_state' \in {"idle", "processing", "accumulating"},
           x = "done" <=> ws_state' # "processing",
           NEW b \in Seq(Ws!Message), batch' = [batch EXCEPT ![h] = b], Len(b) <= MaxBatch,
           x \notin {"calling", "holding"} => b = <<>>,
           x = "calling" => b # <<>>,
           x = "holding" => Len(b) = 1,
           ws_queued' \in Seq(Ws!Message), shown' \in Seq(Ws!Message),
           pending' \in Seq(Ws!Message), Len(pending') <= 1,
           pending' # <<>> => ws_state' = "accumulating",
           ws_state' = "idle" => ws_queued' = <<>>,
           UNCHANGED <<ws_sent, reading>>, overtaken' \in BOOLEAN,
           UpTo(shown', ws_sent), UpTo(ws_queued', ws_sent), UpTo(pending', ws_sent),
           UpTo(b, ws_sent),
           ~overtaken' => /\ Sorted(shown') /\ Sorted(ws_queued') /\ Sorted(pending')
                          /\ Follows(shown', ws_queued') /\ Follows(shown', pending')
                          /\ Sorted(b) /\ Follows(shown', b) /\ Follows(b, ws_queued')
                          /\ ws_state' = "accumulating" => ws_queued' = <<>>
    PROVE  WsIInv'
<1>1. /\ handler' \in [Ws!Frames -> {"none", "taking", "calling", "holding", "clearing", "done"}]
      /\ handler'[h] = x /\ \A g \in Ws!Frames : g # h => handler'[g] = handler[g]
  BY DEF Ws!Goes, WsIInv, Ws!TypeOK
<1>2. /\ batch' \in [Ws!Frames -> Seq(Ws!Message)]
      /\ batch'[h] = b /\ \A g \in Ws!Frames : g # h => batch'[g] = batch[g]
  BY DEF WsIInv, Ws!TypeOK
<1>3. /\ ~(h > ws_sent)
      /\ \A g \in Ws!Frames : g # h => handler[g] \in {"none", "done"} /\ batch[g] = <<>>
  BY RunningAlone
<1>4. Ws!TypeOK'
  <2>1. \A g \in Ws!Frames : Len(batch'[g]) <= MaxBatch
    BY <1>2 DEF WsIInv, Ws!TypeOK
  <2>2. ws_sent' \in 0..LastFrame /\ reading' \in BOOLEAN
    BY MessagesTyped
  <2> QED
    BY <1>1, <1>2, <2>1, <2>2 DEF Ws!TypeOK
<1>5. Ws!OneHandler'
  <2>1. \A g \in Ws!Frames : handler'[g] \notin {"none", "done"} => g = h
    BY <1>1, <1>3
  <2>2. handler'[h] \notin {"none", "done"} <=> ws_state' = "processing"
    BY <1>1
  <2> QED
    BY <2>1, <2>2 DEF Ws!OneHandler, Ws!Running
<1>6. Ws!IdleIsEmpty'
  BY DEF Ws!IdleIsEmpty
<1>7. Carried'
  <2> SUFFICES ASSUME NEW g \in Ws!Frames
               PROVE  /\ handler'[g] \notin {"calling", "holding"} => batch'[g] = <<>>
                      /\ handler'[g] = "calling" => batch'[g] # <<>>
                      /\ handler'[g] = "holding" => Len(batch'[g]) = 1
                      /\ g > ws_sent => handler'[g] = "none"
    BY DEF Carried
  <2>1. CASE g = h
    BY <1>1, <1>2, <1>3, <2>1
  <2>2. CASE g # h
    BY <1>1, <1>2, <2>2 DEF WsIInv, Carried
  <2> QED
    BY <2>1, <2>2
<1>8. FrameBound'
  <2>1. \A g \in Ws!Frames : UpTo(batch'[g], ws_sent)
    BY <1>2 DEF WsIInv, FrameBound
  <2> QED
    BY <2>1 DEF FrameBound
<1>9. ASSUME ~overtaken' PROVE OneLine'
  <2>1. \A g \in Ws!Frames :
            Sorted(batch'[g]) /\ Follows(shown', batch'[g]) /\ Follows(batch'[g], ws_queued')
    <3> TAKE g \in Ws!Frames
    <3>1. CASE g = h
      BY <1>2, <1>9, <3>1
    <3>2. CASE g # h
      <4>1. batch'[g] = <<>>
        BY <1>2, <1>3, <3>2
      <4> QED
        BY <4>1, ShortLines
    <3> QED
      BY <3>1, <3>2
  <2> QED
    BY <1>9, <2>1 DEF OneLine
<1> QED
  BY <1>4, <1>5, <1>6, <1>7, <1>8, <1>9 DEF WsIInv

-----------------------------------------------------------------------------
(***************************************************************************)
(* The steps of a handler.                                                 *)
(***************************************************************************)
LEMMA WsTakeKeeps ==
    ASSUME WsIInv, NEW h \in Ws!Frames, Ws!take(h) PROVE WsIInv'
<1>1. handler[h] = "taking" /\ UNCHANGED <<pending, ws_sent, reading, shown, overtaken>>
  BY DEF Ws!take
<1>2. ws_state = "processing" /\ pending = <<>> /\ batch[h] = <<>>
  BY <1>1, RunningAlone DEF WsIInv, Carried
<1>3. /\ UpTo(shown', ws_sent) /\ UpTo(pending', ws_sent) /\ UpTo(ws_queued, ws_sent)
      /\ Len(pending') <= 1 /\ pending' \in Seq(Ws!Message) /\ shown' \in Seq(Ws!Message)
      /\ overtaken' \in BOOLEAN
  BY <1>1, MessagesTyped DEF WsIInv, FrameBound, Ws!TypeOK
<1>4. CASE ws_queued = <<>>
  <2>1. /\ ws_state' = "idle" /\ Ws!Goes(h, "done") /\ UNCHANGED <<ws_queued, batch>>
    BY <1>4 DEF Ws!take
  <2>2. batch' = [batch EXCEPT ![h] = <<>>]
    BY <1>2, <2>1 DEF WsIInv, Ws!TypeOK
  <2>3. /\ <<>> \in Seq(Ws!Message) /\ Len(<<>>) <= MaxBatch
        /\ UpTo(<<>>, ws_sent) /\ Sorted(<<>>)
        /\ \A v : Follows(<<>>, v) /\ Follows(v, <<>>)
    BY FramesTyped, ShortLines
  <2>4. ws_queued' \in Seq(Ws!Message) /\ UpTo(ws_queued', ws_sent) /\ ws_queued' = <<>>
    BY <1>4, <2>1, <2>3
  <2>5. ~overtaken' => Sorted(shown') /\ Sorted(pending')
    BY <1>1 DEF WsIInv, OneLine
  <2>6. Sorted(ws_queued') /\ Follows(shown', ws_queued') /\ Follows(shown', pending')
        /\ Follows(shown', <<>>) /\ Follows(<<>>, ws_queued')
    BY <1>1, <1>2, <2>3, <2>4
  <2> QED
    BY <1>1, <1>2, <1>3, <2>1, <2>2, <2>3, <2>4, <2>5, <2>6, HandlerKeeps
<1>5. CASE ws_queued # <<>>
  <2>1. PICK n \in Ws!Batches : /\ batch' = [batch EXCEPT ![h] = SubSeq(ws_queued, 1, n)]
                                /\ ws_queued' = Ws!Remaining(n)
    BY <1>5 DEF Ws!take
  <2>2. Ws!Goes(h, "calling") /\ ws_state' = ws_state
    BY <1>5 DEF Ws!take
  <2>3. ws_queued \in Seq(Ws!Message)
    BY MessagesTyped
  <2>4. n \in 0..Len(ws_queued) /\ n >= 1 /\ n <= MaxBatch
    <3>1. Len(ws_queued) \in Nat /\ Len(ws_queued) >= 1
      BY <1>5, <2>3
    <3>2. n = 1 \/ (n \in 2..Len(ws_queued) /\ n <= MaxBatch)
      BY <2>1 DEF Ws!Batches
    <3> QED
      BY <3>1, <3>2, FramesTyped
  <2> DEFINE a == SubSeq(ws_queued, 1, n)
             b == SubSeq(ws_queued, n + 1, Len(ws_queued))
  <2>5. /\ a \in Seq(Ws!Message) /\ b \in Seq(Ws!Message) /\ Len(a) = n
        /\ ws_queued = a \o b
    BY <2>3, <2>4, CutIsConcat
  <2>6. batch' = [batch EXCEPT ![h] = a] /\ ws_queued' = b
    BY <2>1 DEF Ws!Remaining
  <2> HIDE DEF a, b
  <2>7. a # <<>> /\ Len(a) <= MaxBatch
    BY <2>4, <2>5
  <2>8. UpTo(a, ws_sent) /\ UpTo(ws_queued', ws_sent)
    BY <1>3, <2>5, <2>6, ConcatFollows
  <2>9. ASSUME ~overtaken'
        PROVE  /\ Sorted(shown') /\ Sorted(ws_queued') /\ Sorted(pending')
               /\ Follows(shown', ws_queued') /\ Follows(shown', pending')
               /\ Sorted(a) /\ Follows(shown', a) /\ Follows(a, ws_queued')
    <3>1. OneLine
      BY <1>1, <2>9 DEF WsIInv
    <3>2. Sorted(a) /\ Sorted(b) /\ Follows(a, b)
      BY <2>5, <3>1, ConcatSorted DEF OneLine
    <3>3. Follows(shown, a) /\ Follows(shown, b)
      BY <2>5, <3>1, ConcatFollows DEF OneLine
    <3> QED
      BY <1>1, <2>6, <3>1, <3>2, <3>3 DEF OneLine
  <2> QED
    BY <1>1, <1>2, <1>3, <2>2, <2>5, <2>6, <2>7, <2>8, <2>9, HandlerKeeps
<1> QED
  BY <1>4, <1>5

\* A handler asks the model: call_llm_batch.
LEMMA WsCallKeeps ==
    ASSUME WsIInv, NEW h \in Ws!Frames, Ws!call_llm_batch(h) PROVE WsIInv'
<1>1. /\ handler[h] = "calling"
      /\ UNCHANGED <<ws_state, ws_queued, pending, ws_sent, reading, overtaken>>
  BY DEF Ws!call_llm_batch
<1>2. ws_state = "processing" /\ pending = <<>> /\ batch[h] # <<>>
  BY <1>1, RunningAlone DEF WsIInv, Carried
<1>3. batch[h] \in Seq(Ws!Message) /\ shown \in Seq(Ws!Message)
  BY MessagesTyped
<1>4. /\ UpTo(shown, ws_sent) /\ UpTo(batch[h], ws_sent)
      /\ UpTo(ws_queued', ws_sent) /\ UpTo(pending', ws_sent)
      /\ Len(pending') <= 1 /\ pending' \in Seq(Ws!Message) /\ ws_queued' \in Seq(Ws!Message)
      /\ overtaken' \in BOOLEAN
  BY <1>1, MessagesTyped DEF WsIInv, FrameBound, Ws!TypeOK
<1>5. /\ <<>> \in Seq(Ws!Message) /\ Len(<<>>) <= MaxBatch
      /\ UpTo(<<>>, ws_sent) /\ Sorted(<<>>)
      /\ \A v : Follows(<<>>, v) /\ Follows(v, <<>>)
  BY FramesTyped, ShortLines
<1>6. ASSUME ~overtaken'
      PROVE  /\ Sorted(shown) /\ Sorted(batch[h]) /\ Sorted(ws_queued) /\ Sorted(pending)
             /\ Follows(shown, batch[h]) /\ Follows(shown, ws_queued)
             /\ Follows(batch[h], ws_queued)
  BY <1>1, <1>6 DEF WsIInv, OneLine
<1>7. ASSUME NEW x \in {"taking", "clearing"}, Ws!Goes(h, x),
             batch' = [batch EXCEPT ![h] = <<>>], shown' = shown \o batch[h]
      PROVE  WsIInv'
  <2>1. shown' \in Seq(Ws!Message) /\ UpTo(shown', ws_sent)
    BY <1>3, <1>4, <1>7, ConcatElements, ConcatFollows
  <2>2. ASSUME ~overtaken'
        PROVE  /\ Sorted(shown') /\ Sorted(ws_queued') /\ Sorted(pending')
               /\ Follows(shown', ws_queued') /\ Follows(shown', pending')
               /\ Follows(shown', <<>>) /\ Follows(<<>>, ws_queued')
    <3>1. Sorted(shown')
      BY <1>3, <1>6, <1>7, <2>2, ConcatSorted
    <3>2. Follows(shown', ws_queued)
      BY <1>3, <1>6, <1>7, <2>2, ConcatFollows
    <3> QED
      BY <1>1, <1>2, <1>5, <1>6, <2>2, <3>1, <3>2
  <2> QED
    BY <1>1, <1>2, <1>4, <1>5, <1>7, <2>1, <2>2, HandlerKeeps
<1>8. ASSUME Ws!Goes(h, "holding"), batch' = [batch EXCEPT ![h] = <<Ws!Last(@)>>],
             shown' = shown \o Ws!Front(batch[h])
      PROVE  WsIInv'
  <2> DEFINE f == Ws!Front(batch[h])
             l == <<Ws!Last(batch[h])>>
  <2>1. f \in Seq(Ws!Message) /\ l \in Seq(Ws!Message) /\ batch[h] = f \o l
    BY <1>2, <1>3, LastInPlace
  <2>2. batch' = [batch EXCEPT ![h] = l] /\ shown' = shown \o f
    BY <1>8 DEF WsIInv, Ws!TypeOK
  <2>3. Len(l) = 1 /\ Len(l) <= MaxBatch
    BY FramesTyped
  <2> HIDE DEF f, l
  <2>4. UpTo(f, ws_sent) /\ UpTo(l, ws_sent)
    BY <1>4, <2>1, ConcatFollows
  <2>5. shown' \in Seq(Ws!Message) /\ UpTo(shown', ws_sent)
    BY <1>3, <1>4, <2>1, <2>2, <2>4, ConcatElements, ConcatFollows
  <2>6. ASSUME ~overtaken'
        PROVE  /\ Sorted(shown') /\ Sorted(ws_queued') /\ Sorted(pending')
               /\ Follows(shown', ws_queued') /\ Follows(shown', pending')
               /\ Sorted(l) /\ Follows(shown', l) /\ Follows(l, ws_queued')
    <3>1. Sorted(f) /\ Sorted(l) /\ Follows(f, l)
      BY <1>6, <2>1, <2>6, ConcatSorted
    <3>2. /\ Follows(shown, f) /\ Follows(shown, l)
          /\ Follows(f, ws_queued) /\ Follows(l, ws_queued)
      BY <1>6, <2>1, <2>6, ConcatFollows
    <3>3. Sorted(shown')
      BY <1>3, <1>6, <2>1, <2>2, <2>6, <3>1, <3>2, ConcatSorted
    <3>4. Follows(shown', ws_queued) /\ Follows(shown', l)
      BY <1>3, <1>6, <2>1, <2>2, <2>6, <3>1, <3>2, ConcatFollows
    <3> QED
      BY <1>1, <1>2, <1>5, <1>6, <2>6, <3>1, <3>2, <3>3, <3>4
  <2> QED
    BY <1>1, <1>2, <1>4, <1>8, <2>1, <2>2, <2>3, <2>4, <2>5, <2>6, HandlerKeeps
<1> QED
  BY <1>7, <1>8 DEF Ws!call_llm_batch

\* The newest message is held back: hold.
LEMMA WsHoldKeeps ==
    ASSUME WsIInv, NEW h \in Ws!Frames, Ws!hold(h) PROVE WsIInv'
<1>1. /\ handler[h] = "holding" /\ pending' = batch[h]
      /\ batch' = [batch EXCEPT ![h] = <<>>] /\ ws_state' = "accumulating"
      /\ Ws!Goes(h, "done") /\ UNCHANGED <<ws_queued, ws_sent, reading, shown>>
  BY DEF Ws!hold
<1>2. Len(batch[h]) = 1
  BY <1>1 DEF WsIInv, Carried
<1>3. /\ <<>> \in Seq(Ws!Message) /\ Len(<<>>) <= MaxBatch
      /\ UpTo(<<>>, ws_sent) /\ Sorted(<<>>)
      /\ \A v : Follows(<<>>, v) /\ Follows(v, <<>>)
  BY FramesTyped, ShortLines
<1>4. overtaken' \in BOOLEAN
  BY DEF Ws!hold
<1>5. ASSUME ~overtaken' PROVE ~overtaken /\ ws_queued = <<>>
  BY <1>5 DEF Ws!hold
<1>6. /\ UpTo(shown', ws_sent) /\ UpTo(ws_queued', ws_sent) /\ UpTo(pending', ws_sent)
      /\ pending' \in Seq(Ws!Message) /\ Len(pending') <= 1
      /\ ws_queued' \in Seq(Ws!Message) /\ shown' \in Seq(Ws!Message)
  BY <1>1, <1>2, MessagesTyped DEF WsIInv, FrameBound
<1>7. ASSUME ~overtaken'
      PROVE  /\ Sorted(shown') /\ Sorted(ws_queued') /\ Sorted(pending')
             /\ Follows(shown', ws_queued') /\ Follows(shown', pending')
             /\ Follows(shown', <<>>) /\ Follows(<<>>, ws_queued') /\ ws_queued' = <<>>
  <2>1. OneLine
    BY <1>5, <1>7 DEF WsIInv
  <2> QED
    BY <1>1, <1>3, <1>5, <1>7, <2>1 DEF OneLine
<1> QED
  BY <1>1, <1>3, <1>4, <1>6, <1>7, HandlerKeeps

\* A close or a failure discards the queue: clear.
LEMMA WsClearKeeps ==
    ASSUME WsIInv, NEW h \in Ws!Frames, Ws!clear(h) PROVE WsIInv'
<1>1. /\ handler[h] = "clearing" /\ ws_state' = "idle" /\ ws_queued' = <<>>
      /\ Ws!Goes(h, "done") /\ UNCHANGED <<pending, ws_sent, reading, batch, shown, overtaken>>
  BY DEF Ws!clear
<1>2. pending = <<>> /\ batch[h] = <<>>
  BY <1>1, RunningAlone DEF WsIInv, Carried
<1>3. batch' = [batch EXCEPT ![h] = <<>>]
  BY <1>1, <1>2 DEF WsIInv, Ws!TypeOK
<1>4. /\ <<>> \in Seq(Ws!Message) /\ Len(<<>>) <= MaxBatch /\ Len(<<>>) <= 1
      /\ UpTo(<<>>, ws_sent) /\ Sorted(<<>>)
      /\ \A v : Follows(<<>>, v) /\ Follows(v, <<>>)
  BY FramesTyped, ShortLines
<1>5. UpTo(shown', ws_sent) /\ shown' \in Seq(Ws!Message) /\ overtaken' \in BOOLEAN
  BY <1>1, MessagesTyped DEF WsIInv, FrameBound
<1>6. ~overtaken' => Sorted(shown')
  BY <1>1 DEF WsIInv, OneLine
<1>7. /\ pending' = <<>> /\ pending' \in Seq(Ws!Message) /\ Len(pending') <= 1
      /\ ws_queued' \in Seq(Ws!Message) /\ UpTo(ws_queued', ws_sent) /\ UpTo(pending', ws_sent)
  BY <1>1, <1>2, <1>4
<1>8. /\ Sorted(ws_queued') /\ Sorted(pending')
      /\ Follows(shown', ws_queued') /\ Follows(shown', pending')
      /\ Follows(shown', <<>>) /\ Follows(<<>>, ws_queued')
  BY <1>1, <1>4, <1>7
<1> QED
  BY <1>1, <1>3, <1>4, <1>5, <1>6, <1>7, <1>8, HandlerKeeps

-----------------------------------------------------------------------------
(***************************************************************************)
(* The steps of the read loop.  What it puts at the front of the queue     *)
(* when no handler runs: the new message, joined to the one held back.     *)
(***************************************************************************)
LEMMA JoinInPlace ==
    ASSUME WsIInv, ws_state # "processing", NEW knd \in Ws!Kinds, ws_sent + 1 \in Ws!Frames
    PROVE  LET new == [kind |-> knd, parts |-> <<ws_sent + 1>>]
               q   == IF pending = <<>> THEN <<new>> ELSE Ws!Join(pending[1], new)
           IN  /\ q \in Seq(Ws!Message) /\ UpTo(q, ws_sent + 1)
               /\ ~overtaken => Sorted(q) /\ Follows(shown, q)
<1> DEFINE k == ws_sent
           new == [kind |-> knd, parts |-> <<k + 1>>]
           q == IF pending = <<>> THEN <<new>> ELSE Ws!Join(pending[1], new)
<1>1. k \in Nat /\ shown \in Seq(Ws!Message) /\ pending \in Seq(Ws!Message)
  BY MessagesTyped
<1>2. /\ new \in Ws!Message /\ Ws!InOrder(new) /\ Ws!ToSet(new.parts) = {k + 1}
      /\ UpTo(<<new>>, k + 1)
  BY <1>1, NewFrame
<1>3. new.parts = <<k + 1>>
  OBVIOUS
<1> HIDE DEF new
<1>4. <<new>> \in Seq(Ws!Message) /\ Sorted(<<new>>)
  BY <1>2, ShortLines
<1>5. UpTo(shown, k) /\ UpTo(pending, k)
  BY DEF WsIInv, FrameBound
<1>6. Follows(shown, <<new>>) /\ Follows(pending, <<new>>)
  BY <1>1, <1>2, <1>5, NewestLast
<1> HIDE DEF k
<1>7. CASE pending = <<>>
  <2>1. q = <<new>>
    BY <1>7
  <2>2. /\ q \in Seq(Ws!Message) /\ UpTo(q, k + 1)
        /\ ~overtaken => Sorted(q) /\ Follows(shown, q)
    BY <1>2, <1>4, <1>6, <2>1
  <2> QED
    BY <2>2 DEF new, k
<1>8. CASE pending # <<>>
  <2> DEFINE held == pending[1]
  <2>1. pending = <<held>> /\ held \in Ws!Message
    BY <1>8, OnlyElement DEF WsIInv, Ws!TypeOK
  <2> HIDE DEF held
  <2>2. q = Ws!Join(held, new)
    BY <1>8 DEF held
  <2>3. UpTo(<<held>>, k) /\ <<held>> \in Seq(Ws!Message) /\ Follows(<<held>>, <<new>>)
    BY <1>1, <1>5, <1>6, <2>1
  <2>4. ~overtaken => Sorted(<<held>>) /\ Follows(shown, <<held>>)
    BY <2>1 DEF WsIInv, OneLine
  <2>5. CASE held.kind = new.kind /\ new.kind # "ping"
    <3> DEFINE m == [held EXCEPT !.parts = @ \o <<k + 1>>]
    <3>1. q = <<m>>
      BY <1>3, <2>2, <2>5 DEF Ws!Join
    <3>2. /\ m \in Ws!Message /\ UpTo(<<m>>, k + 1)
          /\ Ws!InOrder(held) => Ws!InOrder(m)
          /\ \A s \in Seq(Ws!Message) : UpTo(s, k) /\ Follows(s, <<held>>) => Follows(s, <<m>>)
      BY <1>1, <2>1, <2>3, JoinedMessage DEF k
    <3> HIDE DEF m
    <3>3. <<m>> \in Seq(Ws!Message)
      BY <3>2
    <3>4. ~overtaken => Sorted(<<m>>)
      BY <2>4, <3>2, ShortLines
    <3>5. ~overtaken => Follows(shown, <<m>>)
      BY <1>1, <1>5, <2>4, <3>2
    <3>6. /\ q \in Seq(Ws!Message) /\ UpTo(q, k + 1)
          /\ ~overtaken => Sorted(q) /\ Follows(shown, q)
      BY <3>1, <3>2, <3>3, <3>4, <3>5
    <3> QED
      BY <3>6 DEF new, k
  <2>6. CASE ~(held.kind = new.kind /\ new.kind # "ping")
    <3>1. q = <<held, new>>
      BY <2>2, <2>6 DEF Ws!Join
    <3>2. <<held, new>> = <<held>> \o <<new>>
      OBVIOUS
    <3>3. q = <<held>> \o <<new>>
      BY <3>1, <3>2
    <3> HIDE DEF q
    <3>4. UpTo(<<held>>, k + 1)
      BY <1>1, <2>3, UpToLater
    <3>5. q \in Seq(Ws!Message)
      BY <1>4, <2>3, <3>3, ConcatElements
    <3>6. UpTo(q, k + 1)
      BY <1>2, <1>4, <2>3, <3>3, <3>4, ConcatFollows
    <3>7. ~overtaken => Sorted(q)
      BY <1>4, <2>3, <2>4, <3>3, ConcatSorted
    <3>8. ~overtaken => Follows(shown, q)
      BY <1>4, <1>6, <2>3, <2>4, <3>3, ConcatFollows
    <3> QED
      BY <3>5, <3>6, <3>7, <3>8 DEF q, new, k
  <2> QED
    BY <2>5, <2>6
<1> QED
  BY <1>7, <1>8

\* A message arrives: enqueue_inbound.
LEMMA EnqueueKeeps ==
    ASSUME WsIInv, NEW knd \in Ws!Kinds, Ws!enqueue_inbound(knd) PROVE WsIInv'
<1> DEFINE f == ws_sent + 1
           new == [kind |-> knd, parts |-> <<f>>]
<1>1. /\ ws_sent \in Nat /\ f \in Nat /\ f \in Ws!Frames /\ f > ws_sent /\ f \in 0..LastFrame
      /\ \A g \in Ws!Frames : g > f => g > ws_sent
  <2>1. ws_sent \in Nat /\ ws_sent < LastFrame
    BY MessagesTyped DEF Ws!enqueue_inbound
  <2> QED
    BY <2>1, FramesTyped DEF Ws!Frames
<1>2. ws_sent' = f /\ UNCHANGED <<reading, batch, shown, overtaken>>
  BY DEF Ws!enqueue_inbound
<1>3. /\ new \in Ws!Message /\ Ws!InOrder(new) /\ Ws!ToSet(new.parts) = {f}
      /\ UpTo(<<new>>, f)
  BY <1>1, NewFrame
<1>4. /\ UpTo(shown, f) /\ UpTo(ws_queued, f) /\ UpTo(pending, f)
      /\ \A h \in Ws!Frames : UpTo(batch[h], f)
  BY <1>1, MessagesTyped, UpToLater DEF WsIInv, FrameBound
<1>5. /\ ws_queued \in Seq(Ws!Message) /\ pending \in Seq(Ws!Message)
      /\ shown \in Seq(Ws!Message) /\ \A h \in Ws!Frames : batch[h] \in Seq(Ws!Message)
      /\ reading' \in BOOLEAN /\ overtaken' \in BOOLEAN
      /\ batch \in [Ws!Frames -> Seq(Ws!Message)]
      /\ \A h \in Ws!Frames : Len(batch[h]) <= MaxBatch
      /\ handler \in [Ws!Frames -> {"none", "taking", "calling", "holding", "clearing", "done"}]
  BY <1>2, MessagesTyped DEF WsIInv, Ws!TypeOK
<1>6. CASE ws_state = "processing"
  <2>1. /\ ws_queued' = Append(ws_queued, new) /\ UNCHANGED <<ws_state, pending, handler>>
    BY <1>6 DEF Ws!enqueue_inbound, Ws!Behind, Ws!PushBack
  <2> HIDE DEF f, new
  <2>2. <<new>> \in Seq(Ws!Message) /\ Sorted(<<new>>) /\ ws_queued' = ws_queued \o <<new>>
    <3>1. Append(ws_queued, new) = ws_queued \o <<new>>
      BY <1>3, <1>5
    <3> QED
      BY <1>3, <2>1, <3>1, ShortLines
  <2>3. ws_queued' \in Seq(Ws!Message) /\ UpTo(ws_queued', f)
    BY <1>3, <1>4, <1>5, <2>2, ConcatElements, ConcatFollows
  <2>4. Ws!TypeOK'
    BY <1>1, <1>2, <1>5, <2>1, <2>3 DEF WsIInv, Ws!TypeOK
  <2>5. Ws!OneHandler' /\ Ws!IdleIsEmpty'
    BY <1>6, <2>1 DEF WsIInv, Ws!OneHandler, Ws!Running, Ws!IdleIsEmpty
  <2>6. Carried'
    BY <1>1, <1>2, <2>1 DEF WsIInv, Carried
  <2>7. FrameBound'
    BY <1>2, <1>4, <2>1, <2>3 DEF FrameBound
  <2>8. ASSUME ~overtaken' PROVE OneLine'
    <3>1. OneLine
      BY <1>2, <2>8 DEF WsIInv
    <3>2. /\ Follows(shown, <<new>>) /\ Follows(ws_queued, <<new>>)
          /\ \A h \in Ws!Frames : Follows(batch[h], <<new>>)
      BY <1>1, <1>3, <1>5, NewestLast DEF WsIInv, FrameBound, f
    <3>3. Sorted(ws_queued')
      BY <1>5, <2>2, <3>1, <3>2, ConcatSorted DEF OneLine
    <3>4. Follows(shown, ws_queued') /\ \A h \in Ws!Frames : Follows(batch[h], ws_queued')
      <4>1. \A v : Follows(v, ws_queued') <=> Follows(v, ws_queued) /\ Follows(v, <<new>>)
        BY <1>5, <2>2, ConcatFollows
      <4> QED
        BY <3>1, <3>2, <4>1 DEF OneLine
    <3> QED
      BY <1>2, <1>6, <2>1, <3>1, <3>3, <3>4 DEF OneLine
  <2> QED
    BY <2>4, <2>5, <2>6, <2>7, <2>8 DEF WsIInv
<1>7. CASE ws_state # "processing"
  <2> DEFINE q == IF pending = <<>> THEN <<new>> ELSE Ws!Join(pending[1], new)
  <2>1. /\ ws_state' = "processing" /\ ws_queued' = q \o ws_queued /\ pending' = <<>>
        /\ handler' = [handler EXCEPT ![f] = "taking"]
    BY <1>7 DEF Ws!enqueue_inbound, Ws!Goes
  <2>2. /\ q \in Seq(Ws!Message) /\ UpTo(q, f)
        /\ ~overtaken => Sorted(q) /\ Follows(shown, q)
    BY <1>1, <1>7, JoinInPlace
  <2> HIDE DEF q, f, new
  <2>3. ws_queued' \in Seq(Ws!Message) /\ UpTo(ws_queued', f)
    BY <1>4, <1>5, <2>1, <2>2, ConcatElements, ConcatFollows
  <2>4. \A g \in Ws!Frames : handler[g] \in {"none", "done"} /\ batch[g] = <<>>
    <3>1. Ws!Running = {}
      BY <1>7 DEF WsIInv, Ws!OneHandler
    <3>2. \A g \in Ws!Frames : handler[g] \in {"none", "done"}
      BY <3>1 DEF Ws!Running
    <3> QED
      BY <3>2 DEF WsIInv, Carried
  <2>5. handler'[f] = "taking" /\ \A g \in Ws!Frames : g # f => handler'[g] = handler[g]
    BY <1>1, <1>5, <2>1
  <2>6. Ws!TypeOK'
    <3>1. handler' \in [Ws!Frames -> {"none", "taking", "calling", "holding", "clearing", "done"}]
      BY <1>5, <2>1
    <3>2. pending' \in Seq(Ws!Message) /\ Len(pending') <= 1
      BY <2>1
    <3> QED
      BY <1>1, <1>2, <1>5, <2>1, <2>3, <3>1, <3>2 DEF Ws!TypeOK
  <2>7. Ws!OneHandler'
    <3>1. \A g \in Ws!Frames : handler'[g] \notin {"none", "done"} => g = f
      BY <2>4, <2>5
    <3> QED
      BY <1>1, <2>1, <2>5, <3>1 DEF Ws!OneHandler, Ws!Running
  <2>8. Ws!IdleIsEmpty'
    BY <2>1 DEF Ws!IdleIsEmpty
  <2>9. Carried'
    <3> SUFFICES ASSUME NEW g \in Ws!Frames
                 PROVE  /\ handler'[g] \notin {"calling", "holding"} => batch'[g] = <<>>
                        /\ handler'[g] = "calling" => batch'[g] # <<>>
                        /\ handler'[g] = "holding" => Len(batch'[g]) = 1
                        /\ g > f => handler'[g] = "none"
      BY <1>2 DEF Carried
    <3>1. batch'[g] = <<>> /\ handler'[g] \in {"none", "done", "taking"}
      BY <1>2, <2>4, <2>5
    <3>2. g > f => g # f /\ handler[g] = "none"
      BY <1>1 DEF WsIInv, Carried
    <3> QED
      BY <2>5, <3>1, <3>2
  <2>10. FrameBound'
    <3>1. UpTo(pending', f)
      BY <2>1, ShortLines
    <3> QED
      BY <1>2, <1>4, <2>3, <3>1 DEF FrameBound
  <2>11. ASSUME ~overtaken' PROVE OneLine'
    <3>1. OneLine /\ ~overtaken
      BY <1>2, <2>11 DEF WsIInv
    <3>2. ws_queued = <<>>
      <4>1. ws_state = "idle" \/ ws_state = "accumulating"
        BY <1>7, MessagesTyped
      <4> QED
        BY <3>1, <4>1 DEF WsIInv, Ws!IdleIsEmpty, OneLine
    <3>3. Sorted(ws_queued) /\ Follows(q, ws_queued) /\ Follows(shown, ws_queued)
      BY <3>2, ShortLines
    <3>4. Sorted(ws_queued') /\ Follows(shown, ws_queued')
      BY <1>5, <2>1, <2>2, <3>1, <3>3, ConcatSorted, ConcatFollows
    <3>5. \A h \in Ws!Frames :
              Sorted(batch[h]) /\ Follows(shown, batch[h]) /\ Follows(batch[h], ws_queued')
      BY <2>4, ShortLines
    <3>6. Sorted(pending') /\ Follows(shown, pending')
      BY <2>1, ShortLines
    <3> QED
      BY <1>2, <2>1, <3>1, <3>4, <3>5, <3>6 DEF OneLine
  <2> QED
    BY <2>6, <2>7, <2>8, <2>9, <2>10, <2>11 DEF WsIInv
<1> QED
  BY <1>6, <1>7

(***************************************************************************)
(* Every step keeps the inductive invariant, which implies the invariant.  *)
(***************************************************************************)
LEMMA WsUnchanged ==
    ASSUME WsIInv, UNCHANGED <<ws_state, ws_queued, pending, ws_sent, handler, batch, shown,
                               overtaken>>, reading' \in BOOLEAN
    PROVE  WsIInv'
<1>1. Ws!TypeOK'
  BY DEF WsIInv, Ws!TypeOK
<1>2. Ws!OneHandler' /\ Ws!IdleIsEmpty'
  BY DEF WsIInv, Ws!OneHandler, Ws!Running, Ws!IdleIsEmpty
<1>3. Carried' /\ FrameBound'
  BY DEF WsIInv, Carried, FrameBound
<1>4. ~overtaken' => OneLine'
  BY DEF WsIInv, OneLine
<1> QED
  BY <1>1, <1>2, <1>3, <1>4 DEF WsIInv

\* Every step of a WebSocket connection keeps its inductive invariant.
LEMMA WsStep == WsIInv /\ [Ws!Next]_(Ws!vars) => WsIInv'
<1> SUFFICES ASSUME WsIInv, [Ws!Next]_(Ws!vars) PROVE WsIInv'
  OBVIOUS
<1>1. ASSUME NEW knd \in Ws!Kinds, Ws!enqueue_inbound(knd) PROVE WsIInv'
  BY <1>1, EnqueueKeeps
<1>2. CASE Ws!stop_reading
  BY <1>2, WsUnchanged DEF Ws!stop_reading
<1>3. ASSUME NEW h \in Ws!Frames, Ws!handler_step(h) PROVE WsIInv'
  BY <1>3, WsTakeKeeps, WsCallKeeps, WsHoldKeeps, WsClearKeeps DEF Ws!handler_step
<1>4. CASE UNCHANGED Ws!vars
  BY <1>4, MessagesTyped, WsUnchanged DEF Ws!vars
<1> QED
  BY <1>1, <1>2, <1>3, <1>4 DEF Ws!Next

\* The inductive invariant implies the invariant the runs check.
LEMMA WsImplied == WsIInv => WsInv
<1> SUFFICES ASSUME WsIInv PROVE Ws!InArrivalOrder
  BY DEF WsIInv, WsInv, Ws!WsInv
<1>1. DOMAIN shown = 1..Len(shown)
  BY MessagesTyped
<1> SUFFICES ASSUME ~overtaken PROVE Sorted(shown)
  BY <1>1 DEF Ws!InArrivalOrder, Sorted
<1> QED
  BY DEF WsIInv, OneLine

(***************************************************************************)
(* A WebSocket connection has one handler and keeps the order of arrival.  *)
(* For any number of frames and any batch size: the state is Processing    *)
(* exactly while the one handler runs, an Idle connection has nothing      *)
(* queued, and until a message is held back with others behind it the      *)
(* model is shown the frames in the order they came.                       *)
(***************************************************************************)
THEOREM FramesInOrder == Ws!Spec => []WsInv
<1>1. Ws!Spec => []WsIInv
  BY WsInit, WsStep, PTL DEF Ws!Spec
<1> QED
  BY <1>1, WsImplied, PTL

(***************************************************************************)
(* The two kinds of connection as the runs explore them.                   *)
(***************************************************************************)
THEOREM StreamsSafe == StreamsSpec => [](TcpInv /\ WsInv)
<1>1. StreamsInit => TcpIInv /\ WsIInv
  BY TcpInit, WsInit DEF StreamsInit
<1>2. TcpIInv /\ WsIInv /\ [StreamsNext]_<<kind, vars, wsVars>> => TcpIInv' /\ WsIInv'
  <2> SUFFICES ASSUME TcpIInv, WsIInv, [StreamsNext]_<<kind, vars, wsVars>>
               PROVE  TcpIInv' /\ WsIInv'
    OBVIOUS
  <2>1. /\ [Next]_vars
        /\ [Ws!Next]_(Ws!vars)
    BY DEF StreamsNext, wsVars, Ws!vars
  <2> QED
    BY <2>1, TcpStep, WsStep
<1>3. TcpIInv /\ WsIInv => TcpInv /\ WsInv
  BY TcpImplied, WsImplied
<1>4. StreamsSpec => [](TcpIInv /\ WsIInv)
  BY <1>1, <1>2, PTL DEF StreamsSpec
<1> QED
  BY <1>3, <1>4, PTL
=============================================================================
