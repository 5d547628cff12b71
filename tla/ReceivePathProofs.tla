------------------------- MODULE ReceivePathProofs -------------------------
(***************************************************************************)
(* The safety properties of ReceivePath, for every number of epoll and     *)
(* process threads, any frames, priorities and parts in which they arrive. *)
(***************************************************************************)
EXTENDS ReceivePath, FiniteSetTheorems, WellFoundedInduction, TLAPS

-----------------------------------------------------------------------------
(* Sequences. *)

LEMMA EmptyElements == Elements(<<>>) = {} /\ DOMAIN <<>> = {}
BY DEF Elements

LEMMA AppendElements ==
    ASSUME NEW S, NEW s \in Seq(S), NEW x \in S
    PROVE  /\ Append(s, x) \in Seq(S)
           /\ Elements(Append(s, x)) = Elements(s) \cup {x}
           /\ Len(s) \in Nat /\ DOMAIN s = 1..Len(s)
           /\ DOMAIN Append(s, x) = 1..(Len(s) + 1)
           /\ \A i \in 1..Len(s) : Append(s, x)[i] = s[i] /\ s[i] \in Elements(s)
           /\ Append(s, x)[Len(s) + 1] = x
<1>1. /\ Append(s, x) \in Seq(S) /\ Len(s) \in Nat
      /\ DOMAIN Append(s, x) = 1..(Len(s) + 1) /\ DOMAIN s = 1..Len(s)
      /\ \A i \in 1..Len(s) : Append(s, x)[i] = s[i]
      /\ Append(s, x)[Len(s) + 1] = x
    OBVIOUS
<1>2. \A i \in 1..(Len(s) + 1) : Append(s, x)[i] \in Elements(s) \cup {x}
    BY <1>1 DEF Elements
<1>3. x \in Elements(Append(s, x))
    BY <1>1 DEF Elements
<1>4. \A i \in 1..Len(s) : s[i] \in Elements(Append(s, x)) /\ s[i] \in Elements(s)
    BY <1>1 DEF Elements
<1> QED BY <1>1, <1>2, <1>3, <1>4 DEF Elements

\* The front of a sequence in which nothing is twice is gone when it is removed.
LEMMA TailElements ==
    ASSUME NEW S, NEW s \in Seq(S), s # <<>>,
           \A i, j \in DOMAIN s : s[i] = s[j] => i = j
    PROVE  /\ Tail(s) \in Seq(S) /\ Head(s) \in S /\ Head(s) \in Elements(s)
           /\ Elements(Tail(s)) = Elements(s) \ {Head(s)}
           /\ DOMAIN s = 1..Len(s) /\ DOMAIN Tail(s) = 1..(Len(s) - 1) /\ Len(s) \in Nat \ {0}
           /\ Head(s) = s[1]
           /\ \A i \in 1..(Len(s) - 1) : Tail(s)[i] = s[i + 1] /\ i + 1 \in DOMAIN s
<1>1. /\ Tail(s) \in Seq(S) /\ Len(s) \in Nat /\ Len(s) >= 1
      /\ DOMAIN s = 1..Len(s) /\ DOMAIN Tail(s) = 1..(Len(s) - 1)
      /\ \A i \in 1..(Len(s) - 1) : Tail(s)[i] = s[i + 1]
      /\ Head(s) = s[1] /\ s[1] \in S
    OBVIOUS
<1>2. Head(s) \in Elements(s)
    BY <1>1 DEF Elements
<1>3. \A i \in 1..(Len(s) - 1) : Tail(s)[i] \in Elements(s) /\ Tail(s)[i] # Head(s) /\ i + 1 \in DOMAIN s
  <2> TAKE i \in 1..(Len(s) - 1)
  <2>1. i + 1 \in 1..Len(s) /\ 1 \in 1..Len(s) /\ i + 1 # 1
      BY <1>1
  <2> QED BY <1>1, <2>1 DEF Elements
<1>4. \A k \in 1..Len(s) : s[k] # Head(s) => \E i \in 1..(Len(s) - 1) : Tail(s)[i] = s[k]
  <2> SUFFICES ASSUME NEW k \in 1..Len(s), k # 1
               PROVE  \E i \in 1..(Len(s) - 1) : Tail(s)[i] = s[k]
      BY <1>1
  <2>1. k - 1 \in 1..(Len(s) - 1) /\ (k - 1) + 1 = k
      BY <1>1
  <2> QED BY <1>1, <2>1
<1>5. Elements(Tail(s)) = Elements(s) \ {Head(s)}
  <2>1. ASSUME NEW x \in Elements(Tail(s)) PROVE x \in Elements(s) \ {Head(s)}
      BY <1>1, <1>3, <2>1 DEF Elements
  <2>2. ASSUME NEW x \in Elements(s) \ {Head(s)} PROVE x \in Elements(Tail(s))
    <3>1. PICK k \in 1..Len(s) : s[k] = x
        BY <1>1, <2>2 DEF Elements
    <3>2. PICK i \in 1..(Len(s) - 1) : Tail(s)[i] = x
        BY <1>4, <2>2, <3>1
    <3> QED BY <1>1, <3>2 DEF Elements
  <2> QED BY <2>1, <2>2
<1> QED BY <1>1, <1>2, <1>3, <1>5

LEMMA ElementsIn ==
    ASSUME NEW S, NEW s \in Seq(S)
    PROVE  /\ Elements(s) \subseteq S /\ Len(s) \in Nat /\ DOMAIN s = 1..Len(s)
           /\ \A i \in DOMAIN s : s[i] \in Elements(s)
BY DEF Elements

-----------------------------------------------------------------------------
(* The stream. *)

LEMMA LeastOf ==
    ASSUME NEW S \in SUBSET Nat, S # {}
    PROVE  \E x \in S : \A y \in S : x <= y
<1>1. PICK x \in S : \A y \in S : <<y, x>> \notin OpToRel(<, Nat)
    BY WFMin, NatLessThanWellFounded, Zenon
<1>2. \A y \in S : ~(y < x)
    BY <1>1 DEF OpToRel
<1>3. \A y \in S : x <= y
    BY <1>2
<1> QED BY <1>3

\* The frames lie one behind the other.
LEMMA EndsGrow ==
    \A i, j \in 0..Count : i < j => EndOf[i] < EndOf[j]
<1> SUFFICES ASSUME NEW i \in 0..Count,
                    ~\A j \in 0..Count : i < j => EndOf[i] < EndOf[j]
             PROVE  FALSE
    OBVIOUS
<1> DEFINE T == {j \in 0..Count : i < j /\ ~(EndOf[i] < EndOf[j])}
<1>0. Count \in Nat /\ HeaderUnits \in Nat /\ \A j \in 0..Count : EndOf[j] \in Nat
    BY ReceivePathAssumption
<1>1. T \in SUBSET Nat /\ T # {}
    BY <1>0
<1>2. PICK j \in T : \A y \in T : j <= y
    BY <1>1, LeastOf
<1>3. j \in Frames /\ j - 1 \in 0..Count /\ i <= j - 1
    BY <1>0, <1>2 DEF Frames
<1>4. EndOf[j] > EndOf[j - 1] + HeaderUnits
    BY <1>3, ReceivePathAssumption
<1>5. j - 1 \notin T
    BY <1>0, <1>2, <1>3
<1>6. EndOf[i] <= EndOf[j - 1]
    BY <1>0, <1>3, <1>5
<1> QED BY <1>0, <1>2, <1>3, <1>4, <1>6

\* Before the end, one frame is being received, and those before it were read.
LEMMA ReceivingFrame ==
    ASSUME TypeOK, ~AtEnd
    PROVE  /\ Receiving \in Frames
           /\ EndOf[Receiving - 1] <= read /\ read < EndOf[Receiving]
           /\ EndOf[Receiving] \in Nat
           /\ \A p \in Frames : EndOf[p] <= read <=> p < Receiving
           /\ \A p \in Frames : EndOf[p] <= EndOf[Receiving] <=> p <= Receiving
<1> DEFINE T == {i \in Frames : read < EndOf[i]}
<1>0. /\ Count \in Nat /\ HeaderUnits \in Nat /\ \A j \in 0..Count : EndOf[j] \in Nat
      /\ EndOf[0] = 0
    BY ReceivePathAssumption
<1>1. read \in Nat /\ read <= EndOf[Count] /\ read # EndOf[Count]
    BY <1>0 DEF TypeOK, AtEnd
<1>2. Count \in T
    BY <1>0, <1>1 DEF Frames
<1>3. PICK i \in T : \A y \in T : i <= y
  <2>1. T \in SUBSET Nat /\ T # {}
      BY <1>0, <1>2 DEF Frames
  <2> QED BY <2>1, LeastOf
<1>4. EndOf[i - 1] <= read
  <2>1. CASE i = 1 BY <2>1, <1>0, <1>1
  <2>2. CASE i # 1
    <3>1. i - 1 \in Frames /\ i - 1 \notin T
        BY <1>0, <1>3, <2>2 DEF Frames
    <3> QED BY <3>1, <1>0, <1>1 DEF Frames
  <2> QED BY <2>1, <2>2
<1>5. /\ Receiving \in Frames /\ EndOf[Receiving - 1] <= read /\ read < EndOf[Receiving]
    BY <1>3, <1>4 DEF Receiving
<1> DEFINE r == Receiving
<1>6. r \in 1..Count /\ r - 1 \in 0..Count /\ r \in 0..Count
    BY <1>0, <1>5 DEF Frames
<1> HIDE DEF r
<1>7. ASSUME NEW p \in Frames
      PROVE  (EndOf[p] <= read <=> p < r) /\ (EndOf[p] <= EndOf[r] <=> p <= r)
  <2>1. p \in 0..Count /\ EndOf[p] \in Nat /\ EndOf[r] \in Nat /\ EndOf[r - 1] \in Nat
      BY <1>0, <1>6 DEF Frames
  <2>2. p < r => EndOf[p] <= EndOf[r - 1] /\ EndOf[p] < EndOf[r]
      BY <2>1, <1>6, EndsGrow
  <2>3. r < p => EndOf[r] < EndOf[p]
      BY <2>1, <1>6, EndsGrow
  <2>4. EndOf[r - 1] <= read /\ read < EndOf[r]
      BY <1>5 DEF r
  <2> QED BY <2>1, <2>2, <2>3, <2>4, <1>6, <1>1
<1> QED BY <1>0, <1>5, <1>6, <1>7 DEF r

-----------------------------------------------------------------------------
(* Places. *)

Tagged(A, B, C, D) ==
    ({"batch"} \X A) \cup ({"queue"} \X B) \cup ({"process"} \X C) \cup ({"end"} \X D)

Lone(A, B, C, D) ==
    \/ \E a : A = {a} /\ B = {} /\ C = {} /\ D = {}
    \/ \E a : A = {} /\ B = {a} /\ C = {} /\ D = {}
    \/ \E a : A = {} /\ B = {} /\ C = {a} /\ D = {}
    \/ \E a : A = {} /\ B = {} /\ C = {} /\ D = {a}

LEMMA OneTagged ==
    ASSUME NEW A, NEW B, NEW C, NEW D
    PROVE  (\E x \in Tagged(A, B, C, D) : Tagged(A, B, C, D) = {x}) <=> Lone(A, B, C, D)
<1> DEFINE T == Tagged(A, B, C, D)
<1>1. /\ \A a : a \in A <=> <<"batch", a>> \in T
      /\ \A a : a \in B <=> <<"queue", a>> \in T
      /\ \A a : a \in C <=> <<"process", a>> \in T
      /\ \A a : a \in D <=> <<"end", a>> \in T
    BY DEF Tagged
<1>2. \A x \in T : \E a : \/ a \in A /\ x = <<"batch", a>>
                          \/ a \in B /\ x = <<"queue", a>>
                          \/ a \in C /\ x = <<"process", a>>
                          \/ a \in D /\ x = <<"end", a>>
  <2>1. ASSUME NEW x \in {"batch"} \X A PROVE \E a : a \in A /\ x = <<"batch", a>>
      BY <2>1
  <2>2. ASSUME NEW x \in {"queue"} \X B PROVE \E a : a \in B /\ x = <<"queue", a>>
      BY <2>2
  <2>3. ASSUME NEW x \in {"process"} \X C PROVE \E a : a \in C /\ x = <<"process", a>>
      BY <2>3
  <2>4. ASSUME NEW x \in {"end"} \X D PROVE \E a : a \in D /\ x = <<"end", a>>
      BY <2>4
  <2> QED BY <2>1, <2>2, <2>3, <2>4 DEF Tagged
<1>3. \A a, b : <<"batch", a>> # <<"queue", b>> /\ <<"batch", a>> # <<"process", b>>
                /\ <<"batch", a>> # <<"end", b>> /\ <<"queue", a>> # <<"process", b>>
                /\ <<"queue", a>> # <<"end", b>> /\ <<"process", a>> # <<"end", b>>
    OBVIOUS
<1>4. \A a, b : /\ <<"batch", a>> = <<"batch", b>> => a = b
                /\ <<"queue", a>> = <<"queue", b>> => a = b
                /\ <<"process", a>> = <<"process", b>> => a = b
                /\ <<"end", a>> = <<"end", b>> => a = b
    OBVIOUS
<1> HIDE DEF T
<1>5. ASSUME NEW x \in T, T = {x}
      PROVE  \/ \E a : A = {a} /\ B = {} /\ C = {} /\ D = {}
             \/ \E a : A = {} /\ B = {a} /\ C = {} /\ D = {}
             \/ \E a : A = {} /\ B = {} /\ C = {a} /\ D = {}
             \/ \E a : A = {} /\ B = {} /\ C = {} /\ D = {a}
  <2>1. PICK a : \/ a \in A /\ x = <<"batch", a>>
                 \/ a \in B /\ x = <<"queue", a>>
                 \/ a \in C /\ x = <<"process", a>>
                 \/ a \in D /\ x = <<"end", a>>
      BY <1>2
  <2>2. CASE a \in A /\ x = <<"batch", a>>
    <3>1. A = {a} /\ B = {} /\ C = {} /\ D = {}
        BY <2>2, <1>1, <1>3, <1>4, <1>5
    <3> QED BY <3>1
  <2>3. CASE a \in B /\ x = <<"queue", a>>
    <3>1. A = {} /\ B = {a} /\ C = {} /\ D = {}
        BY <2>3, <1>1, <1>3, <1>4, <1>5
    <3> QED BY <3>1
  <2>4. CASE a \in C /\ x = <<"process", a>>
    <3>1. A = {} /\ B = {} /\ C = {a} /\ D = {}
        BY <2>4, <1>1, <1>3, <1>4, <1>5
    <3> QED BY <3>1
  <2>5. CASE a \in D /\ x = <<"end", a>>
    <3>1. A = {} /\ B = {} /\ C = {} /\ D = {a}
        BY <2>5, <1>1, <1>3, <1>4, <1>5
    <3> QED BY <3>1
  <2> QED BY <2>1, <2>2, <2>3, <2>4, <2>5
<1>6. ASSUME NEW a, A = {a} /\ B = {} /\ C = {} /\ D = {}
      PROVE  \E x \in T : T = {x}
  <2>1. T = {<<"batch", a>>}
      BY <1>6 DEF T, Tagged
  <2> QED BY <2>1
<1>7. ASSUME NEW a, A = {} /\ B = {a} /\ C = {} /\ D = {}
      PROVE  \E x \in T : T = {x}
  <2>1. T = {<<"queue", a>>}
      BY <1>7 DEF T, Tagged
  <2> QED BY <2>1
<1>8. ASSUME NEW a, A = {} /\ B = {} /\ C = {a} /\ D = {}
      PROVE  \E x \in T : T = {x}
  <2>1. T = {<<"process", a>>}
      BY <1>8 DEF T, Tagged
  <2> QED BY <2>1
<1>9. ASSUME NEW a, A = {} /\ B = {} /\ C = {} /\ D = {a}
      PROVE  \E x \in T : T = {x}
  <2>1. T = {<<"end", a>>}
      BY <1>9 DEF T, Tagged
  <2> QED BY <2>1
<1> QED BY <1>5, <1>6, <1>7, <1>8, <1>9 DEF T, Lone

LEMMA NoneTagged ==
    ASSUME NEW A, NEW B, NEW C, NEW D
    PROVE  Tagged(A, B, C, D) = {} <=> A = {} /\ B = {} /\ C = {} /\ D = {}
<1>1. /\ \A a \in A : <<"batch", a>> \in Tagged(A, B, C, D)
      /\ \A a \in B : <<"queue", a>> \in Tagged(A, B, C, D)
      /\ \A a \in C : <<"process", a>> \in Tagged(A, B, C, D)
      /\ \A a \in D : <<"end", a>> \in Tagged(A, B, C, D)
    BY DEF Tagged
<1>2. A = {} /\ B = {} /\ C = {} /\ D = {} => Tagged(A, B, C, D) = {}
    BY DEF Tagged
<1> QED BY <1>1, <1>2

\* Where one frame is.
Placed(p) ==
    \/ EndOf[p] <= read /\ \E e \in Epolls : ReadBy(p) = {e} /\ QueuesOf(p) = {}
                                             /\ WorkedBy(p) = {} /\ Outcomes(p) = {}
    \/ EndOf[p] <= read /\ \E l \in LevelSet : ReadBy(p) = {} /\ QueuesOf(p) = {l}
                                               /\ WorkedBy(p) = {} /\ Outcomes(p) = {}
    \/ EndOf[p] <= read /\ \E t \in Processes : ReadBy(p) = {} /\ QueuesOf(p) = {}
                                                /\ WorkedBy(p) = {t} /\ Outcomes(p) = {}
    \/ EndOf[p] <= read /\ \E k : ReadBy(p) = {} /\ QueuesOf(p) = {}
                                  /\ WorkedBy(p) = {} /\ Outcomes(p) = {k}
    \/ ~(EndOf[p] <= read) /\ ReadBy(p) = {} /\ QueuesOf(p) = {}
                           /\ WorkedBy(p) = {} /\ Outcomes(p) = {}

LEMMA EachIsPlaced == InOnePlace <=> \A p \in Frames : Placed(p)
<1> SUFFICES ASSUME NEW p \in Frames
             PROVE  Placed(p) <=>
                      IF EndOf[p] <= read THEN \E x \in Places(p) : Places(p) = {x}
                                          ELSE Places(p) = {}
    BY DEF InOnePlace
<1>1. Places(p) = Tagged(ReadBy(p), QueuesOf(p), WorkedBy(p), Outcomes(p))
    BY DEF Places, Tagged
<1>2. ReadBy(p) \subseteq Epolls /\ QueuesOf(p) \subseteq LevelSet /\ WorkedBy(p) \subseteq Processes
    BY DEF ReadBy, QueuesOf, WorkedBy
<1>3. Places(p) = {} <=> ReadBy(p) = {} /\ QueuesOf(p) = {} /\ WorkedBy(p) = {} /\ Outcomes(p) = {}
    BY <1>1, NoneTagged, Zenon
<1>4. (\E x \in Places(p) : Places(p) = {x}) <=>
         \/ \E a : ReadBy(p) = {a} /\ QueuesOf(p) = {} /\ WorkedBy(p) = {} /\ Outcomes(p) = {}
         \/ \E a : ReadBy(p) = {} /\ QueuesOf(p) = {a} /\ WorkedBy(p) = {} /\ Outcomes(p) = {}
         \/ \E a : ReadBy(p) = {} /\ QueuesOf(p) = {} /\ WorkedBy(p) = {a} /\ Outcomes(p) = {}
         \/ \E a : ReadBy(p) = {} /\ QueuesOf(p) = {} /\ WorkedBy(p) = {} /\ Outcomes(p) = {a}
  <2>1. (\E x \in Places(p) : Places(p) = {x}) <=>
          Lone(ReadBy(p), QueuesOf(p), WorkedBy(p), Outcomes(p))
      BY <1>1, OneTagged
  <2> QED BY <2>1 DEF Lone
<1>5. CASE EndOf[p] <= read
    BY <1>2, <1>4, <1>5 DEF Placed
<1>6. CASE ~(EndOf[p] <= read)
    BY <1>3, <1>6 DEF Placed
<1> QED BY <1>5, <1>6

LEMMA PlacedAccounted ==
    ASSUME InOnePlace, LostWhenBroken PROVE PackagesAccounted
<1> SUFFICES ASSUME NEW p \in Frames
             PROVE  Cardinality(Places(p)) = IF EndOf[p] <= read THEN 1 ELSE 0
    BY DEF PackagesAccounted
<1>1. CASE EndOf[p] <= read
  <2>1. PICK x \in Places(p) : Places(p) = {x}
      BY <1>1 DEF InOnePlace
  <2>2. Cardinality({x}) = 1
      BY FS_Singleton
  <2> QED BY <1>1, <2>1, <2>2
<1>2. CASE ~(EndOf[p] <= read)
    BY <1>2, FS_EmptySet DEF InOnePlace
<1> QED BY <1>1, <1>2

\* A place that is known is the only one.
LEMMA OnlyPlace ==
    ASSUME InOnePlace, NEW p \in Frames
    PROVE  /\ \A e \in Epolls : p \in Elements(batch[e]) =>
                /\ EndOf[p] <= read /\ ReadBy(p) = {e} /\ QueuesOf(p) = {}
                /\ WorkedBy(p) = {} /\ Outcomes(p) = {}
           /\ \A l \in LevelSet : p \in Elements(waiting[l]) =>
                /\ EndOf[p] <= read /\ ReadBy(p) = {} /\ QueuesOf(p) = {l}
                /\ WorkedBy(p) = {} /\ Outcomes(p) = {}
           /\ \A t \in Processes : work[t] = p =>
                /\ EndOf[p] <= read /\ ReadBy(p) = {} /\ QueuesOf(p) = {}
                /\ WorkedBy(p) = {t} /\ Outcomes(p) = {}
           /\ ~(EndOf[p] <= read) => /\ ReadBy(p) = {} /\ QueuesOf(p) = {}
                                     /\ WorkedBy(p) = {} /\ Outcomes(p) = {}
<1>1. Placed(p)
    BY EachIsPlaced
<1>2. /\ \A e \in Epolls : p \in Elements(batch[e]) <=> e \in ReadBy(p)
      /\ \A l \in LevelSet : p \in Elements(waiting[l]) <=> l \in QueuesOf(p)
      /\ \A t \in Processes : work[t] = p <=> t \in WorkedBy(p)
    BY DEF ReadBy, QueuesOf, WorkedBy
<1> QED BY <1>1, <1>2 DEF Placed

-----------------------------------------------------------------------------
(* What the steps do to the places. *)

LEMMA BatchMoves ==
    ASSUME TypeOK, NEW e \in Epolls, NEW b \in Seq(Frames), batch' = [batch EXCEPT ![e] = b]
    PROVE  /\ batch' \in [Epolls -> Seq(Frames)] /\ batch'[e] = b
           /\ \A u \in Epolls : u # e => batch'[u] = batch[u]
           /\ \A p \in Frames : ReadBy(p)' = IF p \in Elements(b) THEN ReadBy(p) \cup {e}
                                                                  ELSE ReadBy(p) \ {e}
<1>1. /\ batch' \in [Epolls -> Seq(Frames)] /\ batch'[e] = b
      /\ \A u \in Epolls : u # e => batch'[u] = batch[u]
    BY DEF TypeOK
<1>2. ASSUME NEW p \in Frames
      PROVE  ReadBy(p)' = IF p \in Elements(b) THEN ReadBy(p) \cup {e} ELSE ReadBy(p) \ {e}
  <2>1. ReadBy(p)' = {u \in Epolls : p \in Elements(batch'[u])}
      BY DEF ReadBy, Elements
  <2> QED BY <1>1, <2>1 DEF ReadBy
<1> QED BY <1>1, <1>2

LEMMA QueueMoves ==
    ASSUME TypeOK, NEW l \in LevelSet, NEW s \in Seq(Frames), waiting' = [waiting EXCEPT ![l] = s]
    PROVE  /\ waiting' \in [LevelSet -> Seq(Frames)] /\ waiting'[l] = s
           /\ \A k \in LevelSet : k # l => waiting'[k] = waiting[k]
           /\ \A p \in Frames : QueuesOf(p)' = IF p \in Elements(s) THEN QueuesOf(p) \cup {l}
                                                                    ELSE QueuesOf(p) \ {l}
<1>1. /\ waiting' \in [LevelSet -> Seq(Frames)] /\ waiting'[l] = s
      /\ \A k \in LevelSet : k # l => waiting'[k] = waiting[k]
    BY DEF TypeOK
<1>2. ASSUME NEW p \in Frames
      PROVE  QueuesOf(p)' = IF p \in Elements(s) THEN QueuesOf(p) \cup {l} ELSE QueuesOf(p) \ {l}
  <2>1. QueuesOf(p)' = {k \in LevelSet : p \in Elements(waiting'[k])}
      BY DEF QueuesOf, Elements
  <2> QED BY <1>1, <2>1 DEF QueuesOf
<1> QED BY <1>1, <1>2

LEMMA WorkMoves ==
    ASSUME TypeOK, NEW t \in Processes, NEW w \in Frames \cup {NoPackage},
           work' = [work EXCEPT ![t] = w]
    PROVE  /\ work' \in [Processes -> Frames \cup {NoPackage}] /\ work'[t] = w
           /\ \A u \in Processes : u # t => work'[u] = work[u]
           /\ \A p \in Frames : WorkedBy(p)' = IF p = w THEN WorkedBy(p) \cup {t}
                                                        ELSE WorkedBy(p) \ {t}
<1>1. /\ work' \in [Processes -> Frames \cup {NoPackage}] /\ work'[t] = w
      /\ \A u \in Processes : u # t => work'[u] = work[u]
    BY DEF TypeOK
<1> QED BY <1>1 DEF WorkedBy

LEMMA OutcomeMoves ==
    ASSUME NEW A, NEW B, NEW C,
           refused' = refused \cup A, done' = done \cup B, lost' = lost \cup C
    PROVE  \A p \in Frames :
             Outcomes(p)' = Outcomes(p) \cup (IF p \in A THEN {"refused"} ELSE {})
                              \cup (IF p \in B THEN {"done"} ELSE {})
                              \cup (IF p \in C THEN {"lost"} ELSE {})
BY DEF Outcomes

LEMMA WaitingIs ==
    ASSUME TypeOK
    PROVE  /\ Waiting \subseteq Frames
           /\ \A q \in Frames : q \in Waiting <=> QueuesOf(q) # {}
           /\ \A q : q \in Waiting <=> \E l \in LevelSet : q \in Elements(waiting[l])
<1>1. \A q : q \in Waiting <=> \E l \in LevelSet : q \in Elements(waiting[l])
    BY DEF Waiting
<1>2. \A l \in LevelSet : Elements(waiting[l]) \subseteq Frames
    BY ElementsIn DEF TypeOK
<1> QED BY <1>1, <1>2 DEF QueuesOf

-----------------------------------------------------------------------------
(* Steps that move no package. *)

\* The frames of which the end was read.
SameRead == \A p \in Frames : EndOf[p] <= read' <=> EndOf[p] <= read

LEMMA PackagesStay ==
    ASSUME IInv, UNCHANGED <<batch, queueVars, work, refused, done, lost>>, SameRead
    PROVE  InOnePlace' /\ BatchesInOrder' /\ QueuesByPriority' /\ OvertakenIsLate' /\ QueuedInOrder'
<1>1. ASSUME NEW p \in Frames PROVE Placed(p)'
  <2>1. Placed(p)
      BY EachIsPlaced DEF IInv
  <2>2. /\ ReadBy(p)' = ReadBy(p) /\ QueuesOf(p)' = QueuesOf(p)
        /\ WorkedBy(p)' = WorkedBy(p) /\ Outcomes(p)' = Outcomes(p)
      BY DEF ReadBy, QueuesOf, WorkedBy, Outcomes, Elements, queueVars
  <2>3. EndOf[p] <= read' <=> EndOf[p] <= read
      BY DEF SameRead
  <2> QED BY <2>1, <2>2, <2>3 DEF Placed
<1>2. InOnePlace'
  <2>1. (\A p \in Frames : Placed(p))'
      BY <1>1
  <2> QED BY <2>1, EachIsPlaced, PTL
<1>3. BatchesInOrder'
    BY DEF IInv, BatchesInOrder
<1>4. QueuesByPriority'
    BY DEF IInv, QueuesByPriority, Elements, queueVars
<1>5. OvertakenIsLate'
    BY DEF IInv, OvertakenIsLate, Elements, queueVars
<1>6. QueuedInOrder'
    BY DEF IInv, QueuedInOrder, queueVars
<1> QED BY <1>2, <1>3, <1>4, <1>5, <1>6

LEMMA LooksStay ==
    ASSUME IInv, UNCHANGED <<batch, waiting, processVars>>, SameRead
    PROVE  LooksInTurn'
<1>1. Waiting' = Waiting
    BY DEF Waiting, Elements
<1>2. \A q : ReadBy(q)' = ReadBy(q)
    BY DEF ReadBy, Elements
<1>3. \A t \in Processes : before[t] \subseteq Frames
    BY DEF IInv, TypeOK
<1> QED BY <1>1, <1>2, <1>3 DEF IInv, LooksInTurn, Looking, processVars, SameRead

\* What such a step has to show besides.
LEMMA QuietStep ==
    ASSUME IInv, UNCHANGED <<batch, queueVars, processVars, refused, lost>>, SameRead,
           TypeOK', UnreadHasEvent', LostWhenBroken'
    PROVE  IInv'
BY PackagesStay, LooksStay DEF IInv, queueVars, processVars

LEMMA ReadStays == read' = read => SameRead
BY DEF SameRead

LEMMA InitInv == Init => IInv
<1> SUFFICES ASSUME Init PROVE IInv
    OBVIOUS
<1>0. /\ Count \in Nat /\ \A j \in 0..Count : EndOf[j] \in Nat
      /\ EndOf[0] = 0 /\ Levels \in Nat \ {0}
    BY ReceivePathAssumption
<1>1. TypeOK
  <2>1. EndOf[Count] \in Nat
      BY <1>0
  <2>2. <<>> \in Seq(Frames) /\ 0 \in 0..Levels
      BY <1>0
  <2>3. arrived \in 0..EndOf[Count] /\ read \in 0..arrived
      BY <2>1 DEF Init
  <2>4. /\ batch \in [Epolls -> Seq(Frames)] /\ waiting \in [LevelSet -> Seq(Frames)]
        /\ scan \in [Processes -> 0..Levels]
      BY <2>2 DEF Init
  <2>5. /\ fin \in BOOLEAN /\ edge \in BOOLEAN /\ torn \in BOOLEAN /\ closed \in BOOLEAN
        /\ session \in BOOLEAN /\ breaking \in BOOLEAN /\ stage \in Stages
        /\ missed \subseteq Causes
      BY DEF Init, Stages
  <2>6. /\ reader \in Epolls \cup {NoThread} /\ pc \in [Epolls -> Steps]
        /\ loop \in [Epolls -> BOOLEAN] /\ found \in [Processes -> BOOLEAN]
        /\ work \in [Processes -> Frames \cup {NoPackage}] /\ before \in [Processes -> SUBSET Frames]
        /\ refused \subseteq Frames /\ done \subseteq Frames /\ lost \subseteq Frames
        /\ late \subseteq Frames
      BY DEF Init, Steps
  <2> QED BY <2>3, <2>4, <2>5, <2>6 DEF TypeOK
<1>2. UnreadHasEvent
    BY DEF Init, UnreadHasEvent
<1>3. /\ \A e \in Epolls : batch[e] = <<>>
      /\ \A l \in LevelSet : waiting[l] = <<>>
    BY DEF Init
<1>4. InOnePlace
  <2>1. ASSUME NEW p \in Frames PROVE Placed(p)
    <3>1. p \in 0..Count /\ 0 \in 0..Count /\ 0 < p
        BY <1>0 DEF Frames
    <3>2. ~(EndOf[p] <= read)
        BY <1>0, <3>1, EndsGrow DEF Init
    <3>3. ReadBy(p) = {} /\ QueuesOf(p) = {}
        BY <1>3, EmptyElements DEF ReadBy, QueuesOf
    <3>4. WorkedBy(p) = {} /\ Outcomes(p) = {}
        BY ReceivePathAssumption DEF Init, WorkedBy, Outcomes
    <3> QED BY <3>2, <3>3, <3>4 DEF Placed
  <2> QED BY <2>1, EachIsPlaced
<1>5. LostWhenBroken
    BY DEF Init, LostWhenBroken
<1>6. BatchesInOrder
    BY <1>3, EmptyElements DEF BatchesInOrder
<1>7. QueuesByPriority /\ QueuedInOrder
    BY <1>3, EmptyElements DEF QueuesByPriority, QueuedInOrder
<1>8. OvertakenIsLate
    BY <1>3, EmptyElements DEF OvertakenIsLate
<1>9. LooksInTurn
    BY DEF Init, LooksInTurn, Looking
<1> QED BY <1>1, <1>2, <1>4, <1>5, <1>6, <1>7, <1>8, <1>9 DEF IInv

LEMMA EndsAreNat == Count \in Nat /\ EndOf[Count] \in Nat /\ \A j \in 0..Count : EndOf[j] \in Nat
BY ReceivePathAssumption

LEMMA ArriveStep == ASSUME IInv, Arrive PROVE IInv'
<1>1. SameRead
    BY ReadStays DEF Arrive
<1>2. TypeOK'
  <2>1. \A k \in Cuts : k \in Nat
      BY ReceivePathAssumption
  <2> QED BY <2>1, EndsAreNat
          DEF Arrive, IInv, TypeOK, Monitored, hubVars, epollVars, queueVars, processVars
<1>3. UnreadHasEvent'
    BY DEF Arrive, UnreadHasEvent, Monitored
<1>4. LostWhenBroken'
    BY DEF Arrive, IInv, LostWhenBroken, hubVars, epollVars
<1> QED BY <1>1, <1>2, <1>3, <1>4, QuietStep DEF Arrive, epollVars

LEMMA PeerClosesStep == ASSUME IInv, PeerCloses PROVE IInv'
<1>1. SameRead
    BY ReadStays DEF PeerCloses
<1>2. TypeOK'
    BY DEF PeerCloses, IInv, TypeOK, Monitored, hubVars, epollVars, queueVars, processVars
<1>3. UnreadHasEvent'
    BY DEF PeerCloses, UnreadHasEvent, Monitored
<1>4. LostWhenBroken'
    BY DEF PeerCloses, IInv, LostWhenBroken, hubVars, epollVars
<1> QED BY <1>1, <1>2, <1>3, <1>4, QuietStep DEF PeerCloses, epollVars

LEMMA AddMonitorStep == ASSUME IInv, AddMonitorSocket PROVE IInv'
<1>1. SameRead
    BY ReadStays DEF AddMonitorSocket
<1>2. TypeOK'
    BY DEF AddMonitorSocket, IInv, TypeOK, Stages, peerVars, hubVars, epollVars, queueVars, processVars
<1>3. UnreadHasEvent'
  <2>1. arrived \in Nat /\ read \in Nat /\ read <= arrived
      BY EndsAreNat DEF IInv, TypeOK
  <2>2. arrived' = arrived /\ read' = read /\ fin' = fin /\ closed' = closed
        /\ edge' = (~closed /\ (arrived > 0 \/ fin))
      BY DEF AddMonitorSocket, peerVars
  <2>3. ~edge' /\ ~closed' => ~(arrived > 0) /\ ~fin'
      BY <2>2
  <2>4. ~(arrived > 0) => Available' = 0
      BY <2>1, <2>2 DEF Available
  <2> QED BY <2>3, <2>4 DEF UnreadHasEvent
<1>4. LostWhenBroken'
    BY DEF AddMonitorSocket, IInv, LostWhenBroken, hubVars, epollVars
<1> QED BY <1>1, <1>2, <1>3, <1>4, QuietStep DEF AddMonitorSocket, epollVars

LEMMA MapStep == ASSUME IInv, MapSocket PROVE IInv'
<1>1. SameRead
    BY ReadStays DEF MapSocket
<1>2. TypeOK'
    BY DEF MapSocket, IInv, TypeOK, Stages, peerVars, hubVars, epollVars, queueVars, processVars
<1>3. UnreadHasEvent'
    BY DEF MapSocket, IInv, UnreadHasEvent, Available, peerVars, hubVars, epollVars
<1>4. LostWhenBroken'
    BY DEF MapSocket, IInv, LostWhenBroken, hubVars, epollVars
<1> QED BY <1>1, <1>2, <1>3, <1>4, QuietStep DEF MapSocket, epollVars

LEMMA TakeEventStep == ASSUME IInv, NEW e \in Epolls, TakeEvent(e) PROVE IInv'
<1>1. SameRead
    BY ReadStays DEF TakeEvent
<1>2. TypeOK'
    BY DEF TakeEvent, Goto, IInv, TypeOK, Steps, Causes, peerVars, hubVars, queueVars, processVars
<1>3. UnreadHasEvent'
    BY DEF TakeEvent, Goto, IInv, TypeOK, UnreadHasEvent, peerVars, hubVars
<1>4. LostWhenBroken'
    BY DEF TakeEvent, IInv, LostWhenBroken, hubVars
<1> QED BY <1>1, <1>2, <1>3, <1>4, QuietStep DEF TakeEvent

LEMMA TryReceiveLockStep == ASSUME IInv, NEW e \in Epolls, TryReceiveLock(e) PROVE IInv'
<1>1. SameRead
    BY ReadStays DEF TryReceiveLock
<1>2. TypeOK'
    BY DEF TryReceiveLock, Goto, IInv, TypeOK, Steps, Causes, peerVars, hubVars, queueVars, processVars
<1>3. UnreadHasEvent'
  <2>1. CASE pc'[e] = "receive"
      BY <2>1 DEF UnreadHasEvent
  <2>2. CASE pc'[e] # "receive"
      BY <2>2 DEF TryReceiveLock, Goto, IInv, TypeOK, UnreadHasEvent, hubVars
  <2> QED BY <2>1, <2>2
<1>4. LostWhenBroken'
    BY DEF TryReceiveLock, IInv, LostWhenBroken, hubVars
<1> QED BY <1>1, <1>2, <1>3, <1>4, QuietStep DEF TryReceiveLock

\* All there is was read, and it ends no frame.
LEMMA ReadToTheEnd ==
    ASSUME TypeOK, ~HasFrame, read' = arrived PROVE SameRead
<1>1. arrived \in Nat /\ read \in Nat /\ read <= arrived /\ arrived <= EndOf[Count]
    BY EndsAreNat DEF TypeOK
<1>2. CASE AtEnd
    BY <1>1, <1>2, EndsAreNat DEF AtEnd, SameRead
<1>3. CASE ~AtEnd
  <2>1. /\ Receiving \in Frames /\ arrived < EndOf[Receiving]
        /\ \A p \in Frames : EndOf[p] <= read <=> p < Receiving
        /\ \A p \in Frames : EndOf[p] <= EndOf[Receiving] <=> p <= Receiving
        /\ EndOf[Receiving] \in Nat
      BY <1>1, <1>3, ReceivingFrame DEF HasFrame
  <2>2. \A p \in Frames : p \in Int /\ EndOf[p] \in Nat /\ Receiving \in Int
      BY <2>1, EndsAreNat DEF Frames
  <2>3. ASSUME NEW p \in Frames PROVE EndOf[p] <= read' <=> EndOf[p] <= read
      BY <1>1, <2>1, <2>2
  <2> QED BY <2>3 DEF SameRead
<1> QED BY <1>2, <1>3

LEMMA ReceivePartStep == ASSUME IInv, NEW e \in Epolls, ReceivePart(e) PROVE IInv'
<1>0. arrived \in Nat /\ read \in Nat /\ read <= arrived /\ arrived <= EndOf[Count]
    BY EndsAreNat DEF IInv, TypeOK
<1>1. SameRead
    BY ReadToTheEnd DEF ReceivePart, IInv
<1>2. TypeOK'
    BY <1>0 DEF ReceivePart, Goto, IInv, TypeOK, Steps, Causes, peerVars, hubVars, queueVars,
                processVars
<1>3. UnreadHasEvent'
    BY <1>0 DEF ReceivePart, UnreadHasEvent, Available, peerVars
<1>4. LostWhenBroken'
    BY DEF ReceivePart, IInv, LostWhenBroken, hubVars
<1> QED BY <1>1, <1>2, <1>3, <1>4, QuietStep DEF ReceivePart

LEMMA TearLengthStep == ASSUME IInv, NEW e \in Epolls, TearLength(e) PROVE IInv'
<1>1. SameRead
    BY ReadStays DEF TearLength
<1>2. TypeOK'
    BY DEF TearLength, Goto, IInv, TypeOK, Steps, peerVars, hubVars, queueVars, processVars
<1>3. UnreadHasEvent'
    BY DEF TearLength, UnreadHasEvent
<1>4. LostWhenBroken'
    BY DEF TearLength, IInv, LostWhenBroken, hubVars
<1> QED BY <1>1, <1>2, <1>3, <1>4, QuietStep DEF TearLength

LEMMA LeaveStep == ASSUME IInv, NEW e \in Epolls, Leave(e) PROVE IInv'
<1>1. SameRead
    BY ReadStays DEF Leave, socketVars
<1>2. TypeOK'
    BY DEF Leave, Goto, IInv, TypeOK, Steps, peerVars, socketVars, hubVars, queueVars, processVars
<1>3. UnreadHasEvent'
    BY DEF Leave, Goto, IInv, TypeOK, UnreadHasEvent, Available, peerVars, socketVars, hubVars
<1>4. LostWhenBroken'
    BY DEF Leave, IInv, LostWhenBroken, hubVars
<1> QED BY <1>1, <1>2, <1>3, <1>4, QuietStep DEF Leave

LEMMA PushDoneStep == ASSUME IInv, NEW e \in Epolls, PushDone(e) PROVE IInv'
<1>1. SameRead
    BY ReadStays DEF PushDone, socketVars
<1>2. TypeOK'
    BY DEF PushDone, Goto, IInv, TypeOK, Steps, peerVars, socketVars, hubVars, queueVars, processVars
<1>3. UnreadHasEvent'
    BY DEF PushDone, Goto, IInv, TypeOK, UnreadHasEvent, Available, peerVars, socketVars, hubVars
<1>4. LostWhenBroken'
    BY DEF PushDone, IInv, LostWhenBroken, hubVars
<1> QED BY <1>1, <1>2, <1>3, <1>4, QuietStep DEF PushDone

LEMMA UnregisteStep == ASSUME IInv, NEW e \in Epolls, UnregisteConnection(e) PROVE IInv'
<1>1. SameRead
    BY ReadStays DEF UnregisteConnection
<1>2. TypeOK'
    BY DEF UnregisteConnection, Goto, IInv, TypeOK, Steps, Stages, peerVars, hubVars, queueVars,
           processVars
<1>3. UnreadHasEvent'
    BY DEF UnregisteConnection, UnreadHasEvent
<1>4. LostWhenBroken'
    BY DEF UnregisteConnection, IInv, LostWhenBroken, hubVars
<1> QED BY <1>1, <1>2, <1>3, <1>4, QuietStep DEF UnregisteConnection

LEMMA CheckTimeoutStep == ASSUME IInv, CheckTimeout PROVE IInv'
<1>1. SameRead
    BY ReadStays DEF CheckTimeout, socketVars
<1>2. TypeOK'
    BY DEF CheckTimeout, IInv, TypeOK, peerVars, socketVars, epollVars, queueVars, processVars
<1>3. UnreadHasEvent'
    BY DEF CheckTimeout, IInv, UnreadHasEvent, Available, peerVars, socketVars, epollVars
<1>4. LostWhenBroken'
    BY DEF CheckTimeout, LostWhenBroken
<1> QED BY <1>1, <1>2, <1>3, <1>4, QuietStep DEF CheckTimeout, epollVars

LEMMA HandleBreakStep == ASSUME IInv, HandleBreak PROVE IInv'
<1>1. SameRead
    BY ReadStays DEF HandleBreak
<1>2. TypeOK'
    BY DEF HandleBreak, IInv, TypeOK, Stages, peerVars, epollVars, queueVars, processVars
<1>3. UnreadHasEvent'
    BY DEF HandleBreak, UnreadHasEvent
<1>4. LostWhenBroken'
    BY DEF HandleBreak, LostWhenBroken
<1> QED BY <1>1, <1>2, <1>3, <1>4, QuietStep DEF HandleBreak, epollVars

-----------------------------------------------------------------------------
(* The process threads. *)

\* A thread that did nothing looks on as before, when what waits anew was in a
\* batch and no package came back into one.
LEMMA LooksOn ==
    ASSUME IInv, NEW u \in Processes,
           scan'[u] = scan[u], found'[u] = found[u], before'[u] = before[u], work'[u] = work[u],
           \A q \in Frames : EndOf[q] <= read /\ ReadBy(q) = {} =>
               EndOf[q] <= read' /\ ReadBy(q)' = {} /\ (q \in Waiting' => q \in Waiting)
    PROVE  Looking(u)'
<1>1. Looking(u) /\ before[u] \subseteq Frames
    BY DEF IInv, LooksInTurn, TypeOK
<1>2. /\ found'[u] => scan'[u] < Levels /\ work'[u] = NoPackage
      /\ \A q \in before'[u] : EndOf[q] <= read' /\ ReadBy(q)' = {}
      /\ \A q \in before'[u] : q \in Waiting' => scan'[u] <= Priority[q]
    BY <1>1 DEF Looking
<1> QED BY <1>2 DEF Looking

\* What waits was read and is in no batch.
LEMMA WaitingOnly ==
    ASSUME IInv, NEW q \in Waiting
    PROVE  /\ q \in Frames /\ EndOf[q] <= read /\ ReadBy(q) = {}
           /\ Priority[q] \in LevelSet /\ q \in Elements(waiting[Priority[q]])
<1>1. PICK l \in LevelSet : q \in Elements(waiting[l])
    BY WaitingIs DEF IInv
<1>2. q \in Frames
    BY WaitingIs DEF IInv
<1>3. EndOf[q] <= read /\ ReadBy(q) = {}
    BY <1>1, <1>2, OnlyPlace DEF IInv
<1>4. Priority[q] = l
    BY <1>1 DEF IInv, QueuesByPriority
<1> QED BY <1>1, <1>2, <1>3, <1>4

LEMMA StartsOver ==
    ASSUME IInv, NEW t \in Processes, StartOver(t),
           UNCHANGED <<batch, read>>, Waiting' \subseteq Waiting
    PROVE  /\ scan' \in [Processes -> 0..Levels] /\ found' \in [Processes -> BOOLEAN]
           /\ before' \in [Processes -> SUBSET Frames]
           /\ Looking(t)'
           /\ \A u \in Processes \ {t} :
                  scan'[u] = scan[u] /\ found'[u] = found[u] /\ before'[u] = before[u]
<1>0. 0 \in 0..Levels /\ \A l \in LevelSet : 0 <= l
    BY ReceivePathAssumption DEF LevelSet
<1>1. Waiting \subseteq Frames
    BY WaitingIs DEF IInv
<1>2. /\ scan' \in [Processes -> 0..Levels] /\ found' \in [Processes -> BOOLEAN]
      /\ before' \in [Processes -> SUBSET Frames]
      /\ scan'[t] = 0 /\ found'[t] = FALSE /\ before'[t] = Waiting
      /\ \A u \in Processes \ {t} :
             scan'[u] = scan[u] /\ found'[u] = found[u] /\ before'[u] = before[u]
    BY <1>0, <1>1 DEF StartOver, IInv, TypeOK
<1>3. \A q \in Waiting : EndOf[q] <= read' /\ ReadBy(q)' = {} /\ 0 <= Priority[q]
  <2>1. \A q : ReadBy(q)' = ReadBy(q)
      BY DEF ReadBy, Elements
  <2> QED BY <1>0, <2>1, WaitingOnly
<1>4. Looking(t)'
    BY <1>2, <1>3 DEF Looking
<1> QED BY <1>2, <1>4

\* The parts of the invariant the process threads leave alone.
LEMMA OtherPartStays ==
    ASSUME IInv, UNCHANGED <<peerVars, socketVars, hubVars, epollVars>>
    PROVE  UnreadHasEvent' /\ LostWhenBroken' /\ BatchesInOrder' /\ SameRead
BY DEF IInv, UnreadHasEvent, Available, LostWhenBroken, BatchesInOrder, SameRead,
       peerVars, socketVars, hubVars, epollVars

LEMMA LookStep == ASSUME IInv, NEW t \in Processes, Look(t) PROVE IInv'
<1>1. /\ UnreadHasEvent' /\ LostWhenBroken' /\ BatchesInOrder' /\ SameRead
    BY OtherPartStays DEF Look
<1>2. TypeOK'
  <2>1. \A n \in 0..Levels : n < Levels => n + 1 \in 0..Levels
      BY ReceivePathAssumption
  <2> QED BY <2>1 DEF Look, IInv, TypeOK, peerVars, socketVars, hubVars, epollVars, queueVars
<1>3. InOnePlace' /\ QueuesByPriority' /\ OvertakenIsLate' /\ QueuedInOrder'
    BY <1>1, PackagesStay DEF Look, epollVars
<1>4. \A q : ReadBy(q)' = ReadBy(q)
    BY DEF Look, epollVars, ReadBy, Elements
<1>5. Waiting' = Waiting /\ read' = read
    BY DEF Look, queueVars, socketVars, Waiting, Elements
<1>6. Looking(t)'
  <2>0. /\ scan[t] \in Nat /\ scan[t] < Levels /\ Levels \in Nat /\ scan[t] \in LevelSet
        /\ work'[t] = NoPackage /\ before'[t] = before[t] /\ before[t] \subseteq Frames
        /\ Looking(t)
      BY ReceivePathAssumption DEF Look, IInv, TypeOK, LevelSet, LooksInTurn
  <2>1. CASE waiting[scan[t]] = <<>>
    <3>1. scan'[t] = scan[t] + 1 /\ found'[t] = found[t] /\ ~found[t]
        BY <2>1 DEF Look, IInv, TypeOK
    <3>2. ASSUME NEW q \in before[t], q \in Waiting PROVE scan[t] + 1 <= Priority[q]
      <4>1. Priority[q] \in LevelSet /\ q \in Elements(waiting[Priority[q]])
          BY <3>2, WaitingOnly
      <4>2. Priority[q] # scan[t]
          BY <4>1, <2>1, EmptyElements
      <4>3. scan[t] <= Priority[q]
          BY <2>0, <3>2 DEF Looking
      <4> QED BY <4>1, <4>2, <4>3, <2>0 DEF LevelSet
    <3> QED BY <3>1, <3>2, <2>0, <1>4, <1>5 DEF Looking
  <2>2. CASE waiting[scan[t]] # <<>>
    <3>1. scan'[t] = scan[t]
        BY <2>2 DEF Look
    <3> QED BY <3>1, <2>0, <1>4, <1>5 DEF Looking
  <2> QED BY <2>1, <2>2
<1>7. ASSUME NEW u \in Processes, u # t PROVE Looking(u)'
  <2>1. scan'[u] = scan[u] /\ found'[u] = found[u] /\ before'[u] = before[u] /\ work'[u] = work[u]
      BY <1>7 DEF Look, IInv, TypeOK
  <2> QED BY <2>1, <1>4, <1>5, LooksOn
<1> QED BY <1>1, <1>2, <1>3, <1>6, <1>7 DEF IInv, LooksInTurn

LEMMA WakeStep == ASSUME IInv, NEW t \in Processes, Wake(t) PROVE IInv'
<1>1. /\ UnreadHasEvent' /\ LostWhenBroken' /\ BatchesInOrder' /\ SameRead
    BY OtherPartStays DEF Wake
<1>2. Waiting' = Waiting /\ read' = read /\ batch' = batch
    BY DEF Wake, queueVars, socketVars, epollVars, Waiting, Elements
<1>3. InOnePlace' /\ QueuesByPriority' /\ OvertakenIsLate' /\ QueuedInOrder'
    BY <1>1, PackagesStay DEF Wake, epollVars
<1>4. /\ scan' \in [Processes -> 0..Levels] /\ found' \in [Processes -> BOOLEAN]
      /\ before' \in [Processes -> SUBSET Frames]
      /\ Looking(t)'
      /\ \A u \in Processes \ {t} :
             scan'[u] = scan[u] /\ found'[u] = found[u] /\ before'[u] = before[u]
    BY <1>2, StartsOver DEF Wake
<1>5. TypeOK'
    BY <1>4 DEF Wake, IInv, TypeOK, peerVars, socketVars, hubVars, epollVars, queueVars
<1>6. ASSUME NEW u \in Processes, u # t PROVE Looking(u)'
  <2>1. work'[u] = work[u] /\ \A q : ReadBy(q)' = ReadBy(q)
      BY <1>2 DEF Wake, ReadBy, Elements
  <2> QED BY <2>1, <1>2, <1>4, <1>6, LooksOn
<1> QED BY <1>1, <1>3, <1>4, <1>5, <1>6 DEF IInv, LooksInTurn

LEMMA QueuesStay ==
    ASSUME IInv, UNCHANGED <<batch, queueVars>>
    PROVE  BatchesInOrder' /\ QueuesByPriority' /\ OvertakenIsLate' /\ QueuedInOrder'
<1>1. BatchesInOrder'
    BY DEF IInv, BatchesInOrder
<1>2. QueuesByPriority'
    BY DEF IInv, QueuesByPriority, Elements, queueVars
<1>3. OvertakenIsLate'
    BY DEF IInv, OvertakenIsLate, Elements, queueVars
<1>4. QueuedInOrder'
    BY DEF IInv, QueuedInOrder, queueVars
<1> QED BY <1>1, <1>2, <1>3, <1>4

LEMMA FinishStep == ASSUME IInv, NEW t \in Processes, Finish(t) PROVE IInv'
<1> DEFINE p0 == work[t]
<1>0. p0 \in Frames /\ NoPackage \notin Frames
    BY ReceivePathAssumption DEF Finish, IInv, TypeOK
<1>1. /\ UnreadHasEvent' /\ LostWhenBroken' /\ SameRead
    BY OtherPartStays DEF Finish
<1>2. Waiting' = Waiting /\ read' = read /\ batch' = batch
    BY DEF Finish, queueVars, socketVars, epollVars, Waiting, Elements
<1>3. BatchesInOrder' /\ QueuesByPriority' /\ OvertakenIsLate' /\ QueuedInOrder'
    BY QueuesStay DEF Finish, epollVars
<1>4. /\ scan' \in [Processes -> 0..Levels] /\ found' \in [Processes -> BOOLEAN]
      /\ before' \in [Processes -> SUBSET Frames]
      /\ Looking(t)'
      /\ \A u \in Processes \ {t} :
             scan'[u] = scan[u] /\ found'[u] = found[u] /\ before'[u] = before[u]
    BY <1>2, StartsOver DEF Finish
<1>5. /\ work' \in [Processes -> Frames \cup {NoPackage}]
      /\ \A u \in Processes : u # t => work'[u] = work[u]
      /\ \A p \in Frames : WorkedBy(p)' = WorkedBy(p) \ {t}
    BY <1>0, WorkMoves DEF Finish, IInv
<1>6. TypeOK'
    BY <1>0, <1>4, <1>5 DEF Finish, IInv, TypeOK, peerVars, socketVars, hubVars, epollVars, queueVars
<1>7. InOnePlace'
  <2>1. ASSUME NEW p \in Frames PROVE Placed(p)'
    <3>1. /\ ReadBy(p)' = ReadBy(p) /\ QueuesOf(p)' = QueuesOf(p)
          /\ Outcomes(p)' = Outcomes(p) \cup (IF p = p0 THEN {"done"} ELSE {})
        BY DEF Finish, ReadBy, QueuesOf, Outcomes, Elements, epollVars, queueVars
    <3>2. CASE p = p0
      <4>1. /\ EndOf[p] <= read /\ ReadBy(p) = {} /\ QueuesOf(p) = {}
            /\ WorkedBy(p) = {t} /\ Outcomes(p) = {}
          BY <3>2, OnlyPlace DEF IInv
      <4>2. /\ EndOf[p] <= read' /\ ReadBy(p)' = {} /\ QueuesOf(p)' = {}
            /\ WorkedBy(p)' = {} /\ Outcomes(p)' = {"done"}
          BY <4>1, <3>1, <3>2, <1>2, <1>5
      <4> QED BY <4>2 DEF Placed
    <3>3. CASE p # p0
      <4>1. WorkedBy(p)' = WorkedBy(p)
          BY <1>5, <3>3 DEF WorkedBy
      <4>2. Outcomes(p)' = Outcomes(p)
          BY <3>1, <3>3
      <4>3. Placed(p)
          BY EachIsPlaced DEF IInv
      <4> QED BY <4>1, <4>2, <4>3, <3>1, <1>2 DEF Placed
    <3> QED BY <3>2, <3>3
  <2>2. (\A p \in Frames : Placed(p))'
      BY <2>1
  <2> QED BY <2>2, EachIsPlaced, PTL
<1>8. ASSUME NEW u \in Processes, u # t PROVE Looking(u)'
  <2>1. work'[u] = work[u] /\ \A q : ReadBy(q)' = ReadBy(q)
      BY <1>2, <1>5, <1>8 DEF ReadBy, Elements
  <2> QED BY <2>1, <1>2, <1>4, <1>8, LooksOn
<1> QED BY <1>1, <1>3, <1>4, <1>6, <1>7, <1>8 DEF IInv, LooksInTurn

LEMMA TryMovePopStep == ASSUME IInv, NEW t \in Processes, TryMovePop(t) PROVE IInv'
<1> DEFINE l == scan[t]
           queue == waiting[l]
           p0 == Head(queue)
<1>0. /\ l \in LevelSet /\ work[t] = NoPackage /\ NoPackage \notin Frames
      /\ queue \in Seq(Frames)
      /\ \A i, j \in DOMAIN queue : queue[i] = queue[j] => i = j
  <2>1. Looking(t) /\ found[t] /\ scan[t] \in 0..Levels
      BY DEF TryMovePop, IInv, LooksInTurn, TypeOK
  <2>2. l \in LevelSet /\ work[t] = NoPackage
      BY <2>1, ReceivePathAssumption DEF Looking, LevelSet
  <2> QED BY <2>2, ReceivePathAssumption DEF IInv, TypeOK, QueuesByPriority
<1>1. /\ UnreadHasEvent' /\ LostWhenBroken' /\ BatchesInOrder' /\ SameRead
    BY OtherPartStays DEF TryMovePop
<1>2. read' = read /\ batch' = batch /\ late' = late
      /\ refused' = refused /\ done' = done /\ lost' = lost
    BY DEF TryMovePop, socketVars, epollVars
<1>3. \A q : ReadBy(q)' = ReadBy(q) /\ Outcomes(q)' = Outcomes(q)
    BY <1>2 DEF ReadBy, Outcomes, Elements
<1>4. CASE queue = <<>>
  <2>1. StartOver(t) /\ waiting' = waiting /\ work' = work
      BY <1>4 DEF TryMovePop
  <2>2. Waiting' = Waiting
      BY <2>1 DEF Waiting, Elements
  <2>3. /\ scan' \in [Processes -> 0..Levels] /\ found' \in [Processes -> BOOLEAN]
        /\ before' \in [Processes -> SUBSET Frames]
        /\ Looking(t)'
        /\ \A u \in Processes \ {t} :
               scan'[u] = scan[u] /\ found'[u] = found[u] /\ before'[u] = before[u]
      BY <1>2, <2>1, <2>2, StartsOver
  <2>4. TypeOK'
      BY <2>1, <2>3, <1>2 DEF TryMovePop, IInv, TypeOK, peerVars, socketVars, hubVars, epollVars
  <2>5. InOnePlace' /\ QueuesByPriority' /\ OvertakenIsLate' /\ QueuedInOrder'
      BY <1>1, <1>2, <2>1, PackagesStay DEF queueVars
  <2>6. ASSUME NEW u \in Processes, u # t PROVE Looking(u)'
      BY <2>1, <2>2, <2>3, <2>6, <1>2, <1>3, LooksOn
  <2> QED BY <1>1, <2>3, <2>4, <2>5, <2>6 DEF IInv, LooksInTurn
<1>5. CASE queue # <<>>
  <2> DEFINE rest == Tail(queue)
  <2>1. /\ rest \in Seq(Frames) /\ p0 \in Frames /\ p0 \in Elements(queue)
        /\ Elements(rest) = Elements(queue) \ {p0}
        /\ DOMAIN queue = 1..Len(queue) /\ DOMAIN rest = 1..(Len(queue) - 1) /\ Len(queue) \in Nat \ {0}
        /\ \A i \in 1..(Len(queue) - 1) : rest[i] = queue[i + 1] /\ i + 1 \in DOMAIN queue
      BY <1>0, <1>5, TailElements
  <2>2. /\ waiting' = [waiting EXCEPT ![l] = rest]
        /\ work' = [work EXCEPT ![t] = p0]
        /\ found' = [found EXCEPT ![t] = FALSE]
        /\ before' = [before EXCEPT ![t] = {}] /\ scan' = scan
      BY <1>5 DEF TryMovePop
  <2>3. /\ waiting' \in [LevelSet -> Seq(Frames)] /\ waiting'[l] = rest
        /\ \A k \in LevelSet : k # l => waiting'[k] = waiting[k]
        /\ \A p \in Frames : QueuesOf(p)' = IF p \in Elements(rest) THEN QueuesOf(p) \cup {l}
                                                                    ELSE QueuesOf(p) \ {l}
      BY <2>1, <2>2, <1>0, QueueMoves DEF IInv
  <2>4. /\ work' \in [Processes -> Frames \cup {NoPackage}] /\ work'[t] = p0
        /\ \A u \in Processes : u # t => work'[u] = work[u]
        /\ \A p \in Frames : WorkedBy(p)' = IF p = p0 THEN WorkedBy(p) \cup {t}
                                                      ELSE WorkedBy(p) \ {t}
      BY <2>1, <2>2, WorkMoves DEF IInv
  <2>5. TypeOK'
      BY <2>2, <2>3, <2>4, <1>2 DEF TryMovePop, IInv, TypeOK, peerVars, socketVars, hubVars, epollVars
  <2>6. \A k \in LevelSet : Elements(waiting'[k]) \subseteq Elements(waiting[k])
      BY <2>1, <2>3
  <2>7. InOnePlace'
    <3>1. ASSUME NEW p \in Frames PROVE Placed(p)'
      <4>1. CASE p = p0
        <5>1. /\ EndOf[p] <= read /\ ReadBy(p) = {} /\ QueuesOf(p) = {l}
              /\ WorkedBy(p) = {} /\ Outcomes(p) = {}
            BY <4>1, <2>1, <1>0, OnlyPlace DEF IInv
        <5>2. QueuesOf(p)' = {} /\ WorkedBy(p)' = {t}
            BY <5>1, <4>1, <2>1, <2>3, <2>4
        <5> QED BY <5>1, <5>2, <1>2, <1>3 DEF Placed
      <4>2. CASE p # p0
        <5>1. QueuesOf(p)' = QueuesOf(p)
            BY <4>2, <2>1, <2>3, <1>0 DEF QueuesOf
        <5>2. WorkedBy(p)' = WorkedBy(p)
            BY <4>2, <2>4, <1>0 DEF WorkedBy
        <5>3. Placed(p)
            BY EachIsPlaced DEF IInv
        <5> QED BY <5>1, <5>2, <5>3, <1>2, <1>3 DEF Placed
      <4> QED BY <4>1, <4>2
    <3>2. (\A p \in Frames : Placed(p))'
        BY <3>1
    <3> QED BY <3>2, EachIsPlaced, PTL
  <2> HIDE DEF queue, rest, p0, l
  <2>8. QueuesByPriority'
    <3> SUFFICES ASSUME NEW k \in LevelSet
                 PROVE  /\ \A p \in Elements(waiting'[k]) : Priority[p] = k
                        /\ \A i, j \in DOMAIN waiting'[k] : waiting'[k][i] = waiting'[k][j] => i = j
        BY DEF QueuesByPriority, Elements
    <3>1. \A p \in Elements(waiting'[k]) : Priority[p] = k
        BY <2>6 DEF IInv, QueuesByPriority
    <3>2. CASE k = l
      <4> SUFFICES ASSUME NEW i \in 1..(Len(queue) - 1), NEW j \in 1..(Len(queue) - 1),
                          rest[i] = rest[j]
                   PROVE  i = j
          BY <3>1, <3>2, <2>1, <2>3
      <4>1. i + 1 = j + 1
          BY <2>1, <1>0
      <4> QED BY <4>1, <2>1
    <3>3. CASE k # l
        BY <3>1, <3>3, <2>3 DEF IInv, QueuesByPriority
    <3> QED BY <3>2, <3>3
  <2>9. QueuedInOrder'
    <3> SUFFICES ASSUME NEW k \in LevelSet
                 PROVE  \A i, j \in DOMAIN waiting'[k] :
                          i < j /\ waiting'[k][j] \notin late => waiting'[k][i] < waiting'[k][j]
        BY <1>2 DEF QueuedInOrder
    <3>1. \A i, j \in DOMAIN queue : i < j /\ queue[j] \notin late => queue[i] < queue[j]
        BY <1>0 DEF IInv, QueuedInOrder, queue
    <3>2. CASE k = l
      <4> SUFFICES ASSUME NEW i \in 1..(Len(queue) - 1), NEW j \in 1..(Len(queue) - 1), i < j,
                          rest[j] \notin late
                   PROVE  rest[i] < rest[j]
          BY <3>2, <2>1, <2>3
      <4>1. i + 1 < j + 1
          BY <2>1
      <4> QED BY <4>1, <3>1, <2>1
    <3>3. CASE k # l
        BY <3>3, <2>3 DEF IInv, QueuedInOrder
    <3> QED BY <3>2, <3>3
  <2>10. OvertakenIsLate'
    <3>1. \A e \in Epolls : \A p \in Elements(batch[e]) : Priority[p] \in LevelSet
      <4>1. \A p \in Frames : Priority[p] \in LevelSet
          BY ReceivePathAssumption DEF LevelSet
      <4> QED BY <4>1, ElementsIn DEF IInv, TypeOK
    <3>2. \A e \in Epolls : \A p \in Elements(batch[e]) :
            \A q \in Elements(waiting'[Priority[p]]) : p < q => p \in late
        BY <3>1, <2>6 DEF IInv, OvertakenIsLate
    <3> QED BY <3>2, <1>2 DEF OvertakenIsLate, Elements
  <2>11. Waiting' \subseteq Waiting
      BY <2>6 DEF Waiting, Elements
  <2>12. ASSUME NEW u \in Processes PROVE Looking(u)'
    <3>1. CASE u = t
      <4>1. found'[t] = FALSE /\ before'[t] = {}
          BY <2>2 DEF IInv, TypeOK
      <4> QED BY <4>1, <3>1 DEF Looking
    <3>2. CASE u # t
      <4>1. /\ scan'[u] = scan[u] /\ found'[u] = found[u] /\ before'[u] = before[u]
            /\ work'[u] = work[u]
          BY <3>2, <2>2, <2>4 DEF IInv, TypeOK
      <4> QED BY <4>1, <2>11, <1>2, <1>3, LooksOn
    <3> QED BY <3>1, <3>2
  <2> QED BY <1>1, <2>5, <2>7, <2>8, <2>9, <2>10, <2>12 DEF IInv, LooksInTurn
<1> QED BY <1>4, <1>5

-----------------------------------------------------------------------------
(* The epoll threads. *)

LEMMA BatchTypes ==
    ASSUME IInv, NEW e \in Epolls
    PROVE  /\ batch[e] \in Seq(Frames) /\ Elements(batch[e]) \subseteq Frames
           /\ Len(batch[e]) \in Nat /\ DOMAIN batch[e] = 1..Len(batch[e])
           /\ \A i, j \in DOMAIN batch[e] : batch[e][i] = batch[e][j] => i = j
           /\ \A i, j \in DOMAIN batch[e] : i < j => batch[e][i] < batch[e][j]
           /\ \A i \in DOMAIN batch[e] : batch[e][i] \in Elements(batch[e])
<1>1. batch[e] \in Seq(Frames)
    BY DEF IInv, TypeOK
<1>2. /\ Elements(batch[e]) \subseteq Frames
      /\ Len(batch[e]) \in Nat /\ DOMAIN batch[e] = 1..Len(batch[e])
      /\ \A i \in DOMAIN batch[e] : batch[e][i] \in Elements(batch[e])
    BY <1>1, ElementsIn
<1>3. \A i, j \in DOMAIN batch[e] : i < j => batch[e][i] < batch[e][j]
    BY DEF IInv, BatchesInOrder
<1>4. \A i \in DOMAIN batch[e] : batch[e][i] \in Nat
    BY <1>2 DEF Frames
<1>5. \A i, j \in DOMAIN batch[e] : batch[e][i] = batch[e][j] => i = j
  <2> SUFFICES ASSUME NEW i \in DOMAIN batch[e], NEW j \in DOMAIN batch[e],
                      batch[e][i] = batch[e][j], i # j
               PROVE  FALSE
      OBVIOUS
  <2>1. i < j \/ j < i
      BY <1>2
  <2>2. batch[e][i] < batch[e][j] \/ batch[e][j] < batch[e][i]
      BY <2>1, <1>3
  <2> QED BY <2>2, <1>4
<1> QED BY <1>1, <1>2, <1>3, <1>5

LEMMA PushOneStep == ASSUME IInv, NEW e \in Epolls, PushOne(e) PROVE IInv'
<1> DEFINE list == batch[e]
           p0 == Head(list)
           rest == Tail(list)
           l == Priority[p0]
           queue == waiting[l]
<1>1. /\ rest \in Seq(Frames) /\ p0 \in Frames /\ p0 \in Elements(list)
      /\ Elements(rest) = Elements(list) \ {p0}
      /\ DOMAIN list = 1..Len(list) /\ DOMAIN rest = 1..(Len(list) - 1) /\ Len(list) \in Nat \ {0}
      /\ p0 = list[1]
      /\ \A i \in 1..(Len(list) - 1) : rest[i] = list[i + 1] /\ i + 1 \in DOMAIN list
    BY BatchTypes, TailElements DEF PushOne
<1>2. /\ batch' = [batch EXCEPT ![e] = rest]
      /\ waiting' = [waiting EXCEPT ![l] = Append(queue, p0)]
      /\ late' = late \cup Overtaken(e, p0)
      /\ read' = read /\ refused' = refused /\ lost' = lost /\ done' = done
      /\ work' = work /\ scan' = scan /\ found' = found /\ before' = before
    BY DEF PushOne, socketVars, processVars
<1>3. l \in LevelSet /\ queue \in Seq(Frames)
    BY <1>1, ReceivePathAssumption DEF LevelSet, IInv, TypeOK
<1>4. /\ Append(queue, p0) \in Seq(Frames)
      /\ Elements(Append(queue, p0)) = Elements(queue) \cup {p0}
      /\ Len(queue) \in Nat /\ DOMAIN queue = 1..Len(queue)
      /\ DOMAIN Append(queue, p0) = 1..(Len(queue) + 1)
      /\ \A i \in 1..Len(queue) : Append(queue, p0)[i] = queue[i] /\ queue[i] \in Elements(queue)
      /\ Append(queue, p0)[Len(queue) + 1] = p0
    BY <1>1, <1>3, AppendElements
<1>5. /\ batch' \in [Epolls -> Seq(Frames)] /\ batch'[e] = rest
      /\ \A u \in Epolls : u # e => batch'[u] = batch[u]
      /\ \A p \in Frames : ReadBy(p)' = IF p \in Elements(rest) THEN ReadBy(p) \cup {e}
                                                                ELSE ReadBy(p) \ {e}
    BY <1>1, <1>2, BatchMoves DEF IInv
<1>6. /\ waiting' \in [LevelSet -> Seq(Frames)] /\ waiting'[l] = Append(queue, p0)
      /\ \A k \in LevelSet : k # l => waiting'[k] = waiting[k]
      /\ \A p \in Frames : QueuesOf(p)' = IF p \in Elements(Append(queue, p0))
                                            THEN QueuesOf(p) \cup {l} ELSE QueuesOf(p) \ {l}
  <2> HIDE DEF queue, p0, l, list
  <2>1. ASSUME NEW s \in Seq(Frames), s = Append(queue, p0)
        PROVE  /\ waiting' \in [LevelSet -> Seq(Frames)] /\ waiting'[l] = s
               /\ \A k \in LevelSet : k # l => waiting'[k] = waiting[k]
               /\ \A p \in Frames : QueuesOf(p)' = IF p \in Elements(s) THEN QueuesOf(p) \cup {l}
                                                                        ELSE QueuesOf(p) \ {l}
    <3>1. waiting' = [waiting EXCEPT ![l] = s] /\ TypeOK
        BY <1>2, <2>1 DEF IInv
    <3> QED BY <3>1, <1>3, QueueMoves
  <2> QED BY <2>1, <1>4
<1>7. /\ EndOf[p0] <= read /\ ReadBy(p0) = {e} /\ QueuesOf(p0) = {}
      /\ WorkedBy(p0) = {} /\ Outcomes(p0) = {}
    BY <1>1, OnlyPlace DEF IInv
<1>8. Overtaken(e, p0) \subseteq Frames
    BY BatchTypes DEF Overtaken
<1>9. /\ p0 \notin Elements(queue)
      /\ \A u \in Epolls \ {e} : p0 \notin Elements(batch[u])
    BY <1>1, <1>3, <1>7 DEF ReadBy, QueuesOf
<1>10. \A q \in Elements(queue) : p0 < q => p0 \in late
    BY <1>1 DEF IInv, OvertakenIsLate
<1>11. \A q \in Elements(rest) : p0 < q
  <2> SUFFICES ASSUME NEW i \in 1..(Len(list) - 1) PROVE p0 < rest[i]
      BY <1>1 DEF Elements
  <2>1. 1 \in DOMAIN list /\ 1 < i + 1
      BY <1>1
  <2> QED BY <2>1, <1>1, BatchTypes
<1>12. Elements(list) \subseteq Frames /\ \A u \in Epolls : Elements(batch[u]) \subseteq Frames
    BY BatchTypes
<1>13. Elements(queue) \subseteq Frames
    BY <1>3, ElementsIn
<1> HIDE DEF list, p0, rest, l, queue
<1>14. TypeOK'
    BY <1>2, <1>5, <1>6, <1>8 DEF PushOne, IInv, TypeOK, peerVars, socketVars, hubVars
<1>15. UnreadHasEvent' /\ LostWhenBroken'
    BY DEF PushOne, IInv, UnreadHasEvent, LostWhenBroken, Available, peerVars, socketVars, hubVars
<1>16. \A q : WorkedBy(q)' = WorkedBy(q) /\ Outcomes(q)' = Outcomes(q)
    BY <1>2 DEF WorkedBy, Outcomes
<1>17. InOnePlace'
  <2>1. ASSUME NEW p \in Frames PROVE Placed(p)'
    <3>1. CASE p = p0
      <4>1. ReadBy(p)' = {} /\ QueuesOf(p)' = {l}
          BY <3>1, <1>1, <1>4, <1>5, <1>6, <1>7
      <4> QED BY <3>1, <4>1, <1>2, <1>3, <1>7, <1>16 DEF Placed
    <3>2. CASE p # p0
      <4>1. ReadBy(p)' = ReadBy(p)
          BY <3>2, <1>1, <1>5 DEF ReadBy, list
      <4>2. QueuesOf(p)' = QueuesOf(p)
          BY <3>2, <1>3, <1>4, <1>6 DEF QueuesOf, queue
      <4>3. Placed(p)
          BY EachIsPlaced DEF IInv
      <4> QED BY <4>1, <4>2, <4>3, <1>2, <1>16 DEF Placed
    <3> QED BY <3>1, <3>2
  <2>2. (\A p \in Frames : Placed(p))'
      BY <2>1
  <2> QED BY <2>2, EachIsPlaced, PTL
<1>18. BatchesInOrder'
  <2> SUFFICES ASSUME NEW u \in Epolls, NEW i \in DOMAIN batch'[u], NEW j \in DOMAIN batch'[u], i < j
               PROVE  batch'[u][i] < batch'[u][j]
      BY DEF BatchesInOrder
  <2>1. CASE u = e
    <3>1. i \in 1..(Len(list) - 1) /\ j \in 1..(Len(list) - 1)
        BY <2>1, <1>1, <1>5
    <3>2. i + 1 < j + 1 /\ i + 1 \in DOMAIN list /\ j + 1 \in DOMAIN list
        BY <3>1, <1>1
    <3>3. list[i + 1] < list[j + 1]
        BY <3>2, BatchTypes DEF list
    <3> QED BY <2>1, <3>1, <3>3, <1>1, <1>5
  <2>2. CASE u # e
      BY <2>2, <1>5, BatchTypes
  <2> QED BY <2>1, <2>2
<1>19. QueuesByPriority'
  <2> SUFFICES ASSUME NEW k \in LevelSet
               PROVE  /\ \A p \in Elements(waiting'[k]) : Priority[p] = k
                      /\ \A i, j \in DOMAIN waiting'[k] : waiting'[k][i] = waiting'[k][j] => i = j
      BY DEF QueuesByPriority, Elements
  <2>0. /\ \A p \in Elements(waiting[k]) : Priority[p] = k
        /\ \A i, j \in DOMAIN waiting[k] : waiting[k][i] = waiting[k][j] => i = j
      BY DEF IInv, QueuesByPriority
  <2>1. CASE k = l
    <3>1. \A p \in Elements(waiting'[k]) : Priority[p] = k
        BY <2>0, <2>1, <1>4, <1>6 DEF l, queue
    <3>2. \A i, j \in 1..(Len(queue) + 1) : Append(queue, p0)[i] = Append(queue, p0)[j] => i = j
      <4> SUFFICES ASSUME NEW i \in 1..(Len(queue) + 1), NEW j \in 1..(Len(queue) + 1),
                          Append(queue, p0)[i] = Append(queue, p0)[j]
                   PROVE  i = j
          OBVIOUS
      <4>1. CASE i \in 1..Len(queue) /\ j \in 1..Len(queue)
          BY <4>1, <2>0, <2>1, <1>4 DEF queue
      <4>2. CASE i \in 1..Len(queue) /\ j = Len(queue) + 1
          BY <4>2, <1>4, <1>9
      <4>3. CASE i = Len(queue) + 1 /\ j \in 1..Len(queue)
          BY <4>3, <1>4, <1>9
      <4>4. CASE i = Len(queue) + 1 /\ j = Len(queue) + 1
          BY <4>4
      <4> QED BY <4>1, <4>2, <4>3, <4>4, <1>4
    <3> QED BY <3>1, <3>2, <2>1, <1>4, <1>6
  <2>2. CASE k # l
      BY <2>2, <2>0, <1>6
  <2> QED BY <2>1, <2>2
<1>20. late \subseteq late'
    BY <1>2
<1>21. QueuedInOrder'
  <2> SUFFICES ASSUME NEW k \in LevelSet, NEW i \in DOMAIN waiting'[k], NEW j \in DOMAIN waiting'[k],
                      i < j, waiting'[k][j] \notin late'
               PROVE  waiting'[k][i] < waiting'[k][j]
      BY DEF QueuedInOrder
  <2>0. \A h, g \in DOMAIN waiting[k] :
            h < g /\ waiting[k][g] \notin late => waiting[k][h] < waiting[k][g]
      BY DEF IInv, QueuedInOrder
  <2>1. CASE k = l
    <3>1. i \in 1..(Len(queue) + 1) /\ j \in 1..(Len(queue) + 1)
        BY <2>1, <1>4, <1>6
    <3>2. CASE j = Len(queue) + 1
      <4>1. i \in 1..Len(queue)
          BY <3>1, <3>2, <1>4
      <4>2. queue[i] \in Elements(queue) /\ waiting'[k][i] = queue[i] /\ waiting'[k][j] = p0
          BY <4>1, <3>2, <2>1, <1>4, <1>6
      <4>3. ~(p0 < queue[i]) /\ p0 # queue[i]
          BY <4>2, <1>9, <1>10, <1>20
      <4>4. p0 \in Nat /\ queue[i] \in Nat
          BY <4>2, <1>1, <1>13 DEF Frames
      <4> QED BY <4>2, <4>3, <4>4
    <3>3. CASE j # Len(queue) + 1
      <4>1. i \in 1..Len(queue) /\ j \in 1..Len(queue)
          BY <3>1, <3>3, <1>4
      <4> QED BY <4>1, <2>0, <2>1, <1>4, <1>6, <1>20 DEF queue
    <3> QED BY <3>2, <3>3
  <2>2. CASE k # l
      BY <2>2, <2>0, <1>6, <1>20
  <2> QED BY <2>1, <2>2
<1>22. OvertakenIsLate'
  <2> SUFFICES ASSUME NEW u \in Epolls, NEW p \in Elements(batch'[u]),
                      NEW q \in Elements(waiting'[Priority[p]]), p < q
               PROVE  p \in late'
      BY DEF OvertakenIsLate, Elements
  <2>1. p \in Elements(batch[u]) /\ (u = e => p \in Elements(rest))
      BY <1>1, <1>5 DEF list
  <2>2. p \in Frames /\ Priority[p] \in LevelSet
      BY <2>1, <1>12, ReceivePathAssumption DEF LevelSet
  <2>3. CASE q \in Elements(waiting[Priority[p]])
      BY <2>1, <2>3, <1>20 DEF IInv, OvertakenIsLate
  <2>4. CASE q \notin Elements(waiting[Priority[p]])
    <3>1. q = p0 /\ Priority[p] = l
        BY <2>2, <2>4, <1>4, <1>6 DEF queue
    <3>2. u # e
      <4>1. u = e => p0 < p
          BY <2>1, <1>11
      <4> QED BY <4>1, <3>1, <2>2, <1>1 DEF Frames
    <3>3. p \in Overtaken(e, p0)
        BY <2>1, <3>1, <3>2 DEF Overtaken, l
    <3> QED BY <3>3, <1>2
  <2> QED BY <2>3, <2>4
<1>23. LooksInTurn'
  <2> SUFFICES ASSUME NEW u \in Processes PROVE Looking(u)'
      BY DEF LooksInTurn
  <2>1. ASSUME NEW q \in Frames, EndOf[q] <= read, ReadBy(q) = {}
        PROVE  EndOf[q] <= read' /\ ReadBy(q)' = {} /\ (q \in Waiting' => q \in Waiting)
    <3>1. q # p0
        BY <2>1, <1>7
    <3>2. q \notin Elements(rest)
        BY <2>1, <1>1 DEF ReadBy, list
    <3>3. ReadBy(q)' = {}
        BY <2>1, <3>2, <1>5
    <3>4. q \in Waiting' => q \in Waiting
      <4> SUFFICES ASSUME NEW k \in LevelSet, q \in Elements(waiting'[k]) PROVE q \in Waiting
          BY DEF Waiting, Elements
      <4>1. q \in Elements(waiting[k])
          BY <3>1, <1>4, <1>6 DEF queue
      <4> QED BY <4>1 DEF Waiting
    <3> QED BY <2>1, <3>3, <3>4, <1>2
  <2> QED BY <2>1, <1>2, LooksOn
<1> QED BY <1>14, <1>15, <1>17, <1>18, <1>19, <1>21, <1>22, <1>23 DEF IInv

LEMMA NextFrame ==
    ASSUME IInv, HasFrame, read' = EndOf[Receiving]
    PROVE  /\ Receiving \in Frames /\ ~(EndOf[Receiving] <= read) /\ read' \in 0..arrived
           /\ \A p \in Frames : EndOf[p] <= read' <=> EndOf[p] <= read \/ p = Receiving
           /\ \A p \in Frames : EndOf[p] <= read => p < Receiving
           /\ ReadBy(Receiving) = {} /\ QueuesOf(Receiving) = {}
           /\ WorkedBy(Receiving) = {} /\ Outcomes(Receiving) = {}
<1>0. TypeOK /\ ~AtEnd /\ arrived >= EndOf[Receiving] /\ InOnePlace
    BY DEF IInv, HasFrame
<1>1. /\ Receiving \in Frames /\ read < EndOf[Receiving] /\ EndOf[Receiving] \in Nat
      /\ \A p \in Frames : EndOf[p] <= read <=> p < Receiving
      /\ \A p \in Frames : EndOf[p] <= EndOf[Receiving] <=> p <= Receiving
    BY <1>0, ReceivingFrame
<1>2. arrived \in Nat /\ read \in Nat
    BY <1>0, EndsAreNat DEF TypeOK
<1>3. ~(EndOf[Receiving] <= read) /\ read' \in 0..arrived
    BY <1>0, <1>1, <1>2
<1>4. \A p \in Frames : p \in Int
    BY DEF Frames
<1>5. \A p \in Frames : EndOf[p] <= read' <=> EndOf[p] <= read \/ p = Receiving
    BY <1>1, <1>4
<1>6. /\ ReadBy(Receiving) = {} /\ QueuesOf(Receiving) = {}
      /\ WorkedBy(Receiving) = {} /\ Outcomes(Receiving) = {}
    BY <1>0, <1>1, <1>3, OnlyPlace
<1> QED BY <1>1, <1>3, <1>5, <1>6

LEMMA ReceiveFrameStep == ASSUME IInv, NEW e \in Epolls, ReceiveFrame(e) PROVE IInv'
<1> DEFINE list == batch[e]
<1>0. PICK r \in Frames : r = Receiving
    BY NextFrame DEF ReceiveFrame
<1>1. /\ r \in Frames /\ ~(EndOf[r] <= read) /\ read' \in 0..arrived
      /\ \A p \in Frames : EndOf[p] <= read' <=> EndOf[p] <= read \/ p = r
      /\ \A p \in Frames : EndOf[p] <= read => p < r
      /\ ReadBy(r) = {} /\ QueuesOf(r) = {} /\ WorkedBy(r) = {} /\ Outcomes(r) = {}
    BY <1>0, NextFrame DEF ReceiveFrame
<1>2. \/ /\ batch' = [batch EXCEPT ![e] = Append(list, r)] /\ refused' = refused
         /\ pc' = pc /\ missed' = missed /\ loop' = [loop EXCEPT ![e] = TRUE]
      \/ /\ batch' = batch /\ refused' = refused \cup {r}
         /\ pc' = pc /\ missed' = missed /\ loop' = [loop EXCEPT ![e] = TRUE]
      \/ /\ batch' = batch /\ refused' = refused \cup {r} /\ loop' = loop
         /\ \/ pc' = pc /\ missed' = missed
            \/ pc' = [pc EXCEPT ![e] = "leave"] /\ missed' = missed \cup {"overflow"}
    BY <1>0 DEF ReceiveFrame, Goto
<1>3. /\ pc[e] = "receive" /\ lost' = lost /\ done' = done /\ work' = work /\ waiting' = waiting
      /\ late' = late /\ scan' = scan /\ found' = found /\ before' = before
      /\ breaking' = breaking /\ session' = session
    BY DEF ReceiveFrame, Reading, queueVars, processVars
<1>4. UnreadHasEvent'
  <2>1. pc'[e] = "receive" \/ missed' # {}
      BY <1>2, <1>3
  <2> QED BY <2>1 DEF UnreadHasEvent
<1>5. LostWhenBroken'
    BY <1>3 DEF IInv, LostWhenBroken
<1>6. \A q : WorkedBy(q)' = WorkedBy(q) /\ QueuesOf(q)' = QueuesOf(q)
    BY <1>3 DEF WorkedBy, QueuesOf, Elements
<1>7. QueuesByPriority' /\ QueuedInOrder'
  <2>1. QueuesByPriority'
      BY <1>3 DEF IInv, QueuesByPriority, Elements
  <2>2. QueuedInOrder'
      BY <1>3 DEF IInv, QueuedInOrder
  <2> QED BY <2>1, <2>2
<1>8. Waiting' = Waiting
    BY <1>3 DEF Waiting, Elements
<1>9. /\ \A u \in Epolls : batch'[u] \in Seq(Frames)
      /\ \A u \in Epolls : Elements(batch'[u]) \subseteq Elements(batch[u]) \cup {r}
      /\ BatchesInOrder'
      /\ batch' \in [Epolls -> Seq(Frames)]
      /\ \A p \in Frames : p # r => ReadBy(p)' = ReadBy(p)
      /\ \/ ReadBy(r)' = {e} /\ refused' = refused
         \/ ReadBy(r)' = {} /\ refused' = refused \cup {r}
  <2>1. CASE batch' = [batch EXCEPT ![e] = Append(list, r)] /\ refused' = refused
    <3>1. /\ list \in Seq(Frames) /\ Elements(list) \subseteq Frames
          /\ Len(list) \in Nat /\ DOMAIN list = 1..Len(list)
          /\ \A i, j \in DOMAIN list : i < j => list[i] < list[j]
          /\ \A i \in DOMAIN list : list[i] \in Elements(list)
        BY BatchTypes
    <3>2. /\ Append(list, r) \in Seq(Frames)
          /\ Elements(Append(list, r)) = Elements(list) \cup {r}
          /\ DOMAIN Append(list, r) = 1..(Len(list) + 1)
          /\ \A i \in 1..Len(list) : Append(list, r)[i] = list[i]
          /\ Append(list, r)[Len(list) + 1] = r
        BY <1>1, <3>1, AppendElements
    <3>3. /\ batch' \in [Epolls -> Seq(Frames)] /\ batch'[e] = Append(list, r)
          /\ \A u \in Epolls : u # e => batch'[u] = batch[u]
          /\ \A p \in Frames : ReadBy(p)' = IF p \in Elements(Append(list, r))
                                              THEN ReadBy(p) \cup {e} ELSE ReadBy(p) \ {e}
      <4>1. ASSUME NEW s \in Seq(Frames), s = Append(list, r)
            PROVE  /\ batch' \in [Epolls -> Seq(Frames)] /\ batch'[e] = s
                   /\ \A u \in Epolls : u # e => batch'[u] = batch[u]
                   /\ \A p \in Frames : ReadBy(p)' = IF p \in Elements(s) THEN ReadBy(p) \cup {e}
                                                                          ELSE ReadBy(p) \ {e}
        <5>1. batch' = [batch EXCEPT ![e] = s] /\ TypeOK
            BY <2>1, <4>1 DEF IInv
        <5> QED BY <5>1, BatchMoves
      <4> QED BY <4>1, <3>2
    <3>4. \A q \in Elements(list) : q < r
      <4> SUFFICES ASSUME NEW q \in Elements(list) PROVE q < r
          OBVIOUS
      <4>1. EndOf[q] <= read
          BY <3>1, OnlyPlace DEF IInv
      <4> QED BY <4>1, <3>1, <1>1
    <3> HIDE DEF list
    <3>5. \A u \in Epolls : Elements(batch'[u]) \subseteq Elements(batch[u]) \cup {r}
        BY <3>2, <3>3 DEF list
    <3>6. BatchesInOrder'
      <4> SUFFICES ASSUME NEW u \in Epolls, NEW i \in DOMAIN batch'[u], NEW j \in DOMAIN batch'[u],
                          i < j
                   PROVE  batch'[u][i] < batch'[u][j]
          BY DEF BatchesInOrder
      <4>1. CASE u # e
          BY <4>1, <3>3, BatchTypes
      <4>2. CASE u = e /\ j = Len(list) + 1
        <5>1. i \in 1..Len(list)
            BY <4>2, <3>1, <3>2, <3>3
        <5> QED BY <5>1, <4>2, <3>1, <3>2, <3>3, <3>4
      <4>3. CASE u = e /\ j # Len(list) + 1
        <5>1. i \in 1..Len(list) /\ j \in 1..Len(list)
            BY <4>3, <3>1, <3>2, <3>3
        <5> QED BY <5>1, <4>3, <3>1, <3>2, <3>3
      <4> QED BY <4>1, <4>2, <4>3
    <3>7. \A p \in Frames : p # r => ReadBy(p)' = ReadBy(p)
      <4> SUFFICES ASSUME NEW p \in Frames, p # r PROVE ReadBy(p)' = ReadBy(p)
          OBVIOUS
      <4>1. p \in Elements(list) => e \in ReadBy(p)
          BY DEF ReadBy, list
      <4>2. p \notin Elements(list) => e \notin ReadBy(p)
          BY DEF ReadBy, list
      <4>3. CASE p \in Elements(list)
        <5>1. ReadBy(p)' = ReadBy(p) \cup {e}
            BY <4>3, <3>2, <3>3
        <5> QED BY <5>1, <4>1, <4>3
      <4>4. CASE p \notin Elements(list)
        <5>1. ReadBy(p)' = ReadBy(p) \ {e}
            BY <4>4, <3>2, <3>3
        <5> QED BY <5>1, <4>2, <4>4
      <4> QED BY <4>3, <4>4
    <3>8. ReadBy(r)' = {e}
        BY <1>1, <3>2, <3>3
    <3> QED BY <2>1, <3>3, <3>5, <3>6, <3>7, <3>8
  <2>2. CASE batch' = batch /\ refused' = refused \cup {r}
    <3>1. \A q : ReadBy(q)' = ReadBy(q)
        BY <2>2 DEF ReadBy, Elements
    <3>2. BatchesInOrder'
        BY <2>2 DEF IInv, BatchesInOrder
    <3> QED BY <2>2, <3>1, <3>2, <1>1 DEF IInv, TypeOK
  <2> QED BY <2>1, <2>2, <1>2
<1>10. TypeOK'
  <2>1. /\ pc' \in [Epolls -> Steps] /\ loop' \in [Epolls -> BOOLEAN] /\ missed' \subseteq Causes
        /\ refused' \subseteq Frames
      BY <1>1, <1>2 DEF IInv, TypeOK, Steps, Causes
  <2>2. read' \in 0..arrived'
      BY <1>1 DEF ReceiveFrame, peerVars
  <2> QED BY <1>9, <2>1, <2>2
          DEF ReceiveFrame, IInv, TypeOK, peerVars, queueVars, processVars
<1>11. InOnePlace'
  <2>1. ASSUME NEW p \in Frames PROVE Placed(p)'
    <3>1. CASE p = r
      <4>1. CASE ReadBy(r)' = {e} /\ refused' = refused
        <5>1. Outcomes(r)' = Outcomes(r)
            BY <4>1, <1>3 DEF Outcomes
        <5> QED BY <3>1, <4>1, <5>1, <1>1, <1>6 DEF Placed
      <4>2. CASE ReadBy(r)' = {} /\ refused' = refused \cup {r}
        <5>1. Outcomes(r)' = Outcomes(r) \cup {"refused"}
            BY <4>2, <1>3 DEF Outcomes
        <5>2. Outcomes(r)' = {"refused"}
            BY <5>1, <1>1
        <5> QED BY <3>1, <4>2, <5>2, <1>1, <1>6 DEF Placed
      <4> QED BY <4>1, <4>2, <1>9
    <3>2. CASE p # r
      <4>1. Outcomes(p)' = Outcomes(p)
          BY <3>2, <1>3, <1>9 DEF Outcomes
      <4>2. Placed(p) /\ ReadBy(p)' = ReadBy(p) /\ (EndOf[p] <= read' <=> EndOf[p] <= read)
          BY <3>2, <1>1, <1>9, EachIsPlaced DEF IInv
      <4> QED BY <4>1, <4>2, <1>6 DEF Placed
    <3> QED BY <3>1, <3>2
  <2>2. (\A p \in Frames : Placed(p))'
      BY <2>1
  <2> QED BY <2>2, EachIsPlaced, PTL
<1>12. OvertakenIsLate'
  <2> SUFFICES ASSUME NEW u \in Epolls, NEW p \in Elements(batch'[u]),
                      NEW q \in Elements(waiting[Priority[p]]), p < q
               PROVE  p \in late
      BY <1>3 DEF OvertakenIsLate, Elements
  <2>1. CASE p = r
    <3>1. Priority[p] \in LevelSet
        BY <2>1, <1>1, ReceivePathAssumption DEF LevelSet
    <3>2. q \in Waiting
        BY <3>1 DEF Waiting
    <3>3. q \in Frames /\ EndOf[q] <= read
        BY <3>2, WaitingOnly
    <3>4. q < p
        BY <3>3, <2>1, <1>1
    <3> QED BY <3>3, <3>4, <2>1, <1>1 DEF Frames
  <2>2. CASE p # r
    <3>1. p \in Elements(batch[u])
        BY <2>2, <1>9
    <3> QED BY <3>1 DEF IInv, OvertakenIsLate
  <2> QED BY <2>1, <2>2
<1>13. LooksInTurn'
  <2> SUFFICES ASSUME NEW u \in Processes PROVE Looking(u)'
      BY DEF LooksInTurn
  <2>1. \A q \in Frames : EndOf[q] <= read /\ ReadBy(q) = {} =>
            EndOf[q] <= read' /\ ReadBy(q)' = {} /\ (q \in Waiting' => q \in Waiting)
      BY <1>1, <1>8, <1>9
  <2> QED BY <2>1, <1>3, LooksOn
<1> QED BY <1>4, <1>5, <1>7, <1>9, <1>10, <1>11, <1>12, <1>13 DEF IInv

LEMMA FailStep == ASSUME IInv, NEW e \in Epolls, Fail(e) PROVE IInv'
<1> DEFINE list == batch[e]
<1>1. \E X \in SUBSET Frames :
        /\ lost' = lost \cup Elements(list) \cup X
        /\ \A p \in Frames : EndOf[p] <= read' <=> EndOf[p] <= read \/ p \in X
        /\ \A p \in X : ~(EndOf[p] <= read)
        /\ read' \in 0..arrived
        /\ \/ closed' = closed \/ closed' = TRUE
  <2>0. read \in 0..arrived /\ arrived \in Nat
      BY EndsAreNat DEF IInv, TypeOK
  <2>1. CASE /\ AtHead /\ Available = 0 /\ fin
             /\ lost' = lost \cup Elements(batch[e])
             /\ UNCHANGED <<read, closed>>
    <3>1. {} \in SUBSET Frames /\ lost' = lost \cup Elements(list) \cup {}
        BY <2>1
    <3>2. /\ read' \in 0..arrived /\ closed' = closed
          /\ \A p \in Frames : EndOf[p] <= read' <=> EndOf[p] <= read \/ p \in {}
        BY <2>0, <2>1
    <3> QED BY <3>1, <3>2
  <2>2. CASE /\ ~HasFrame /\ lost' = lost \cup Elements(batch[e])
             /\ read' = arrived /\ closed' = TRUE
    <3>1. {} \in SUBSET Frames /\ lost' = lost \cup Elements(list) \cup {}
        BY <2>2
    <3>2. SameRead
        BY <2>2, ReadToTheEnd DEF IInv
    <3>3. \A p \in Frames : EndOf[p] <= read' <=> EndOf[p] <= read \/ p \in {}
        BY <3>2 DEF SameRead
    <3>4. read' \in 0..arrived /\ closed' = TRUE /\ \A p \in {} : ~(EndOf[p] <= read)
        BY <2>0, <2>2
    <3> QED BY <3>1, <3>3, <3>4
  <2>3. CASE /\ HasFrame /\ lost' = lost \cup Elements(batch[e]) \cup {Receiving}
             /\ read' = EndOf[Receiving] /\ closed' = TRUE
    <3>1. /\ Receiving \in Frames /\ ~(EndOf[Receiving] <= read) /\ read' \in 0..arrived
          /\ \A p \in Frames : EndOf[p] <= read' <=> EndOf[p] <= read \/ p = Receiving
        BY <2>3, NextFrame
    <3>2. {Receiving} \in SUBSET Frames
        BY <3>1
    <3> QED BY <2>3, <3>1, <3>2
  <2> QED BY <2>1, <2>2, <2>3 DEF Fail
<1>2. PICK X \in SUBSET Frames :
        /\ lost' = lost \cup Elements(list) \cup X
        /\ \A p \in Frames : EndOf[p] <= read' <=> EndOf[p] <= read \/ p \in X
        /\ \A p \in X : ~(EndOf[p] <= read)
        /\ read' \in 0..arrived
        /\ closed' = closed \/ closed' = TRUE
    BY <1>1
<1>3. /\ batch' = [batch EXCEPT ![e] = <<>>] /\ breaking' = TRUE
      /\ pc' = [pc EXCEPT ![e] = "unregister"]
      /\ refused' = refused /\ done' = done /\ work' = work /\ waiting' = waiting
      /\ late' = late /\ scan' = scan /\ found' = found /\ before' = before
      /\ edge' = (edge /\ ~closed') /\ reader' = NoThread
    BY DEF Fail, Goto, queueVars, processVars
<1>4. /\ batch' \in [Epolls -> Seq(Frames)] /\ batch'[e] = <<>>
      /\ \A u \in Epolls : u # e => batch'[u] = batch[u]
      /\ \A p \in Frames : ReadBy(p)' = ReadBy(p) \ {e}
  <2>1. <<>> \in Seq(Frames) /\ TypeOK
      BY DEF IInv
  <2> QED BY <1>3, <2>1, BatchMoves, EmptyElements
<1>5. Elements(list) \subseteq Frames
    BY BatchTypes
<1>6. TypeOK'
    BY <1>2, <1>3, <1>4, <1>5 DEF Fail, IInv, TypeOK, Steps, peerVars, queueVars, processVars
<1>7. UnreadHasEvent'
  <2>1. pc'[e] = "unregister"
      BY <1>3 DEF IInv, TypeOK
  <2> QED BY <2>1 DEF UnreadHasEvent
<1>8. LostWhenBroken'
    BY <1>3 DEF LostWhenBroken
<1>9. \A u \in Epolls : Elements(batch'[u]) \subseteq Elements(batch[u])
    BY <1>4, EmptyElements
<1>10. BatchesInOrder'
  <2> SUFFICES ASSUME NEW u \in Epolls
               PROVE  \A i, j \in DOMAIN batch'[u] : i < j => batch'[u][i] < batch'[u][j]
      BY DEF BatchesInOrder
  <2>1. CASE u = e
      BY <2>1, <1>4, EmptyElements
  <2>2. CASE u # e
      BY <2>2, <1>4, BatchTypes
  <2> QED BY <2>1, <2>2
<1>11. QueuesByPriority' /\ QueuedInOrder'
  <2>1. QueuesByPriority'
      BY <1>3 DEF IInv, QueuesByPriority, Elements
  <2>2. QueuedInOrder'
      BY <1>3 DEF IInv, QueuedInOrder
  <2> QED BY <2>1, <2>2
<1>12. OvertakenIsLate'
    BY <1>3, <1>9 DEF IInv, OvertakenIsLate, Elements
<1>13. InOnePlace'
  <2>1. ASSUME NEW p \in Frames PROVE Placed(p)'
    <3>1. WorkedBy(p)' = WorkedBy(p) /\ QueuesOf(p)' = QueuesOf(p)
        BY <1>3 DEF WorkedBy, QueuesOf, Elements
    <3>2. Outcomes(p)' = IF p \in Elements(list) \cup X THEN Outcomes(p) \cup {"lost"} ELSE Outcomes(p)
        BY <1>2, <1>3 DEF Outcomes
    <3>3. CASE p \in Elements(list)
      <4>1. /\ EndOf[p] <= read /\ ReadBy(p) = {e} /\ QueuesOf(p) = {}
            /\ WorkedBy(p) = {} /\ Outcomes(p) = {}
          BY <3>3, OnlyPlace DEF IInv
      <4>2. EndOf[p] <= read' /\ ReadBy(p)' = {} /\ Outcomes(p)' = {"lost"}
          BY <4>1, <3>2, <3>3, <1>2, <1>4
      <4> QED BY <4>1, <4>2, <3>1 DEF Placed
    <3>4. CASE p \in X
      <4>1. /\ ReadBy(p) = {} /\ QueuesOf(p) = {} /\ WorkedBy(p) = {} /\ Outcomes(p) = {}
          BY <3>4, <1>2, OnlyPlace DEF IInv
      <4>2. EndOf[p] <= read' /\ ReadBy(p)' = {} /\ Outcomes(p)' = {"lost"}
          BY <4>1, <3>2, <3>4, <1>2, <1>4
      <4> QED BY <4>1, <4>2, <3>1 DEF Placed
    <3>5. CASE p \notin Elements(list) /\ p \notin X
      <4>1. e \notin ReadBy(p)
          BY <3>5 DEF ReadBy
      <4>2. /\ ReadBy(p)' = ReadBy(p) /\ Outcomes(p)' = Outcomes(p)
            /\ (EndOf[p] <= read' <=> EndOf[p] <= read)
          BY <4>1, <3>2, <3>5, <1>2, <1>4
      <4>3. Placed(p)
          BY EachIsPlaced DEF IInv
      <4> QED BY <4>2, <4>3, <3>1 DEF Placed
    <3> QED BY <3>3, <3>4, <3>5
  <2>2. (\A p \in Frames : Placed(p))'
      BY <2>1
  <2> QED BY <2>2, EachIsPlaced, PTL
<1>14. LooksInTurn'
  <2> SUFFICES ASSUME NEW u \in Processes PROVE Looking(u)'
      BY DEF LooksInTurn
  <2>1. Waiting' = Waiting
      BY <1>3 DEF Waiting, Elements
  <2>2. \A q \in Frames : EndOf[q] <= read /\ ReadBy(q) = {} =>
            EndOf[q] <= read' /\ ReadBy(q)' = {} /\ (q \in Waiting' => q \in Waiting)
      BY <1>2, <1>4, <2>1
  <2> QED BY <2>2, <1>3, LooksOn
<1> QED BY <1>6, <1>7, <1>8, <1>10, <1>11, <1>12, <1>13, <1>14 DEF IInv

-----------------------------------------------------------------------------
(* The theorems. *)

LEMMA NextInv == IInv /\ [Next]_vars => IInv'
<1> SUFFICES ASSUME IInv, [Next]_vars PROVE IInv'
    OBVIOUS
<1>1. CASE UNCHANGED vars
  <2>1. SameRead /\ TypeOK' /\ UnreadHasEvent' /\ LostWhenBroken'
      BY <1>1 DEF vars, peerVars, socketVars, hubVars, epollVars, queueVars, processVars,
                  SameRead, IInv, TypeOK, UnreadHasEvent, Available, LostWhenBroken
  <2> QED BY <1>1, <2>1, QuietStep DEF vars, epollVars
<1>2. CASE Arrive BY <1>2, ArriveStep
<1>3. CASE PeerCloses BY <1>3, PeerClosesStep
<1>4. CASE AddMonitorSocket BY <1>4, AddMonitorStep
<1>5. CASE MapSocket BY <1>5, MapStep
<1>6. ASSUME NEW e \in Epolls, EpollStep(e) PROVE IInv'
    BY <1>6, TakeEventStep, TryReceiveLockStep, ReceiveFrameStep, ReceivePartStep, TearLengthStep,
       FailStep, LeaveStep, PushOneStep, PushDoneStep, UnregisteStep DEF EpollStep
<1>7. ASSUME NEW t \in Processes, ProcessStep(t) PROVE IInv'
    BY <1>7, LookStep, TryMovePopStep, FinishStep, WakeStep DEF ProcessStep
<1>8. CASE CheckTimeout BY <1>8, CheckTimeoutStep
<1>9. CASE HandleBreak BY <1>9, HandleBreakStep
<1> QED BY <1>1, <1>2, <1>3, <1>4, <1>5, <1>6, <1>7, <1>8, <1>9 DEF Next

\* The invariant of the receiving side: each frame that was read is in one
\* place, batches are in order, and the scans have passed nothing that waited.
THEOREM ReceivePathInvariant == Spec => []IInv
<1>1. Init => IInv
    BY InitInv
<1>2. IInv /\ [Next]_vars => IInv'
    BY NextInv
<1> QED BY <1>1, <1>2, PTL DEF Spec

\* The socket, the batches, the queues and the scans keep their types, so that
\* no queue is looked at behind the last one.
THEOREM ReceivePathTypes == Spec => []TypeOK
<1>1. IInv => TypeOK
    BY DEF IInv
<1> QED BY <1>1, ReceivePathInvariant, PTL

\* Data that came are read unless one of the named causes gave their event away
\* (EpollEx::OnEpollInEvent, EpollEx::RegisteConnection, OnDataCanReceive).
THEOREM UnreadDataHasACause == Spec => []NothingLeftBehind
<1>1. IInv => NothingLeftBehind
    BY DEF IInv, UnreadHasEvent, NothingLeftBehind
<1> QED BY <1>1, ReceivePathInvariant, PTL

\* No package is processed twice, and none is lost but by a connection that
\* failed (ConnectSession::OnDataCanReceive, TryMovePop of the process threads).
THEOREM ReceivedPackagesKept == Spec => []PackagesAccounted
<1>1. IInv => PackagesAccounted
    BY PlacedAccounted DEF IInv
<1> QED BY <1>1, ReceivePathInvariant, PTL

\* Packages of a priority are queued in the order they were sent, but for those
\* a thread had read and not yet pushed when another one pushed a later one.
THEOREM ReceivedPackagesInOrder == Spec => []QueuedInOrder
<1>1. IInv => QueuedInOrder
    BY DEF IInv
<1> QED BY <1>1, ReceivePathInvariant, PTL

LEMMA TakenInTurn ==
    ASSUME IInv, Next, NEW t \in Processes, work[t] = NoPackage, work'[t] # NoPackage,
           NEW q \in before[t], q \in Waiting'
    PROVE  Priority[q] >= Priority[work'[t]]
<1>1. TryMovePop(t)
  <2>1. CASE Arrive \/ PeerCloses \/ AddMonitorSocket \/ MapSocket \/ CheckTimeout \/ HandleBreak
      BY <2>1 DEF Arrive, PeerCloses, AddMonitorSocket, MapSocket, CheckTimeout, HandleBreak,
                  processVars
  <2>2. ASSUME NEW e \in Epolls, EpollStep(e) PROVE FALSE
      BY <2>2 DEF EpollStep, TakeEvent, TryReceiveLock, ReceiveFrame, ReceivePart, TearLength, Fail,
                  Leave, PushOne, PushDone, UnregisteConnection, processVars
  <2>3. ASSUME NEW u \in Processes, ProcessStep(u) PROVE u = t /\ TryMovePop(t)
    <3>1. CASE Look(u) \/ Wake(u)
        BY <3>1 DEF Look, Wake
    <3>2. CASE Finish(u)
        BY <3>2 DEF Finish, IInv, TypeOK
    <3>3. CASE TryMovePop(u)
        BY <3>3 DEF TryMovePop, IInv, TypeOK
    <3> QED BY <2>3, <3>1, <3>2, <3>3 DEF ProcessStep
  <2> QED BY <2>1, <2>2, <2>3 DEF Next
<1> DEFINE l == scan[t]
           queue == waiting[l]
<1>2. l \in LevelSet /\ Looking(t) /\ queue \in Seq(Frames)
      /\ \A i, j \in DOMAIN queue : queue[i] = queue[j] => i = j
  <2>1. Looking(t) /\ found[t] /\ scan[t] \in 0..Levels
      BY <1>1 DEF TryMovePop, IInv, LooksInTurn, TypeOK
  <2>2. l \in LevelSet
      BY <2>1, ReceivePathAssumption DEF Looking, LevelSet
  <2> QED BY <2>1, <2>2 DEF IInv, TypeOK, QueuesByPriority
<1>3. queue # <<>>
    BY <1>1 DEF TryMovePop
<1>4. /\ waiting' = [waiting EXCEPT ![l] = Tail(queue)] /\ work'[t] = Head(queue)
    BY <1>1, <1>3 DEF TryMovePop, IInv, TypeOK
<1>5. Head(queue) \in Elements(queue) /\ Elements(Tail(queue)) \subseteq Elements(queue)
  <2>1. /\ Head(queue) \in Elements(queue)
        /\ Elements(Tail(queue)) = Elements(queue) \ {Head(queue)}
      BY <1>2, <1>3, TailElements
  <2> QED BY <2>1
<1>6. Priority[work'[t]] = l
    BY <1>2, <1>4, <1>5 DEF IInv, QueuesByPriority
<1>7. q \in Waiting
  <2>1. PICK k \in LevelSet : q \in Elements(waiting'[k])
      BY DEF Waiting, Elements
  <2>2. q \in Elements(waiting[k])
      BY <2>1, <1>2, <1>4, <1>5 DEF IInv, TypeOK
  <2> QED BY <2>2 DEF Waiting
<1>8. l <= Priority[q]
    BY <1>2, <1>7 DEF Looking
<1>9. Priority[q] \in LevelSet
    BY <1>7, WaitingOnly
<1>10. l \in Int /\ Priority[q] \in Int
    BY <1>2, <1>9 DEF LevelSet
<1> QED BY <1>6, <1>8, <1>10

\* A process thread takes no package while a more urgent one waits that was
\* there when it began to look (the scan of m_pWaitProcessList in NetworkHub).
THEOREM UrgentPackagesTaken == Spec => UrgentTakenFirst
<1>1. IInv /\ [Next]_vars =>
        [\A t \in Processes :
           work[t] = NoPackage /\ work'[t] # NoPackage =>
             \A q \in before[t] \cap Waiting' : Priority[q] >= Priority[work'[t]]]_vars
    BY TakenInTurn
<1> QED BY <1>1, ReceivePathInvariant, PTL DEF Spec, UrgentTakenFirst
=============================================================================
