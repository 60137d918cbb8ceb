------------------------- MODULE BlockGrabberProofs -------------------------
(***************************************************************************)
(* Proofs about BlockGrabber and the action queue that it feeds, for a     *)
(* chain of any height and any number of grabbers, runs, faults and        *)
(* restarts: the type invariant, that actions run one at a time, that no   *)
(* saved block is lost on the way to the parser without a trace, and that  *)
(* the database settles in the order of the chain.                         *)
(***************************************************************************)
EXTENDS BlockGrabber, SequenceTheorems, WellFoundedInduction, TLAPS

-----------------------------------------------------------------------------
(* Sequences *)

\* What is left of a sequence from which one entry was taken.
LEMMA RemoveAtFacts ==
  ASSUME NEW S, NEW s \in Seq(S), NEW k \in DOMAIN s
  PROVE  /\ RemoveAt(s, k) \in Seq(S)
         /\ Len(RemoveAt(s, k)) = Len(s) - 1
         /\ \A i \in 1 .. Len(s) - 1 :
              RemoveAt(s, k)[i] = IF i < k THEN s[i] ELSE s[i + 1]
  <1> DEFINE a == SubSeq(s, 1, k - 1)
             b == SubSeq(s, k + 1, Len(s))
  <1>1. /\ Len(s) \in Nat /\ k \in 1 .. Len(s)
        /\ \A i \in 1 .. Len(s) : s[i] \in S
    BY LenProperties, ElementOfSeq
  <1>2. /\ a \in Seq(S) /\ Len(a) = k - 1
        /\ \A i \in 1 .. k - 1 : a[i] = s[i]
    <2>1. 1 \in Int /\ k - 1 \in Int /\ \A i \in 1 .. k - 1 : s[i] \in S
      BY <1>1
    <2>2. /\ a \in Seq(S) /\ Len(a) = IF 1 <= k - 1 THEN k - 1 - 1 + 1 ELSE 0
          /\ \A i \in 1 .. k - 1 - 1 + 1 : a[i] = s[1 + i - 1]
      BY <2>1, SubSeqProperties
    <2> HIDE DEF a
    <2> QED  BY <1>1, <2>2
  <1>3. /\ b \in Seq(S) /\ Len(b) = Len(s) - k
        /\ \A i \in 1 .. Len(s) - k : b[i] = s[k + i]
    <2>1. k + 1 \in Int /\ Len(s) \in Int /\ \A i \in k + 1 .. Len(s) : s[i] \in S
      BY <1>1
    <2>2. /\ b \in Seq(S) /\ Len(b) = IF k + 1 <= Len(s) THEN Len(s) - (k + 1) + 1 ELSE 0
          /\ \A i \in 1 .. Len(s) - (k + 1) + 1 : b[i] = s[k + 1 + i - 1]
      BY <2>1, SubSeqProperties
    <2> HIDE DEF b
    <2> QED  BY <1>1, <2>2
  <1> HIDE DEF a, b
  <1>4. PICK c : c = a \o b
    OBVIOUS
  <1>5. /\ c \in Seq(S) /\ Len(c) = Len(a) + Len(b)
        /\ \A i \in 1 .. Len(a) + Len(b) : c[i] = IF i <= Len(a) THEN a[i] ELSE b[i - Len(a)]
    BY <1>2, <1>3, <1>4, ConcatProperties
  <1>6. Len(a) + Len(b) = Len(s) - 1
    BY <1>1, <1>2, <1>3
  <1>7. ASSUME NEW i \in 1 .. Len(s) - 1
        PROVE  c[i] = IF i < k THEN s[i] ELSE s[i + 1]
    <2>1. c[i] = IF i <= Len(a) THEN a[i] ELSE b[i - Len(a)]
      BY <1>5, <1>6
    <2>2. ASSUME i < k PROVE c[i] = s[i]
      BY <1>1, <1>2, <2>1, <2>2
    <2>3. ASSUME i >= k PROVE c[i] = s[i + 1]
      <3>1. i - Len(a) = i - k + 1 /\ i - k + 1 \in 1 .. Len(s) - k /\ k + (i - k + 1) = i + 1
        BY <1>1, <1>2, <2>3
      <3>2. b[i - k + 1] = s[i + 1]
        BY <1>3, <3>1
      <3> QED  BY <1>1, <1>2, <2>1, <2>3, <3>1, <3>2
    <2> QED  BY <1>1, <2>2, <2>3
  <1>8. RemoveAt(s, k) = c
    BY <1>4 DEF RemoveAt, a, b
  <1> QED  BY <1>5, <1>6, <1>7, <1>8

\* Every nonempty set of naturals has a least element.
LEMMA LeastNatural ==
  ASSUME NEW T \in SUBSET Nat, T # {}
  PROVE  \E m \in T : \A k \in T : m <= k
  <1>1. PICK m \in T : \A k \in T : ~ (<<k, m>> \in OpToRel(<, Nat))
    BY NatLessThanWellFounded, WFMin
  <1>2. \A k \in T : ~ (k < m)
    BY <1>1 DEF OpToRel
  <1> QED  BY <1>2

\* An action's last time comes last, and no other action is forgotten.
LEMMA LaterFacts ==
  ASSUME NEW S, NEW order \in Seq(S), NEW a \in S
  PROVE  /\ Later(order, a) \in Seq(S)
         /\ Range(order) \union {a} \subseteq Range(Later(order, a))
  <1> DEFINE I == {i \in 1 .. Len(order) : order[i] = a}
             rest == RemoveFirst(order, a)
  <1>1. Len(order) \in Nat /\ DOMAIN order = 1 .. Len(order)
    BY LenProperties
  <1>2. rest \in Seq(S) /\ \A i \in 1 .. Len(order) :
                              order[i] # a => \E j \in DOMAIN rest : rest[j] = order[i]
    <2>1. CASE I = {}
      <3>1. rest = order
        BY <2>1 DEF RemoveFirst
      <3> QED  BY <1>1, <3>1
    <2>2. CASE I # {}
      <3>1. Min(I) \in I
        <4>1. I \in SUBSET Nat
          BY <1>1
        <4> HIDE DEF I
        <4>2. \E x \in I : \A y \in I : x <= y
          BY <2>2, <4>1, LeastNatural
        <4> QED  BY <4>2 DEF Min
      <3>2. rest = RemoveAt(order, Min(I))
        BY <2>2 DEF RemoveFirst, SelectInSeq
      <3>3. PICK k \in DOMAIN order : k = Min(I) /\ order[k] = a
        BY <1>1, <3>1
      <3>4. /\ rest \in Seq(S) /\ Len(rest) = Len(order) - 1
            /\ \A i \in 1 .. Len(order) - 1 :
                 rest[i] = IF i < k THEN order[i] ELSE order[i + 1]
        BY <3>2, <3>3, RemoveAtFacts
      <3> HIDE DEF rest
      <3>5. DOMAIN rest = 1 .. Len(order) - 1
        BY <3>4, LenProperties
      <3>6. ASSUME NEW i \in 1 .. Len(order), order[i] # a
            PROVE  \E j \in DOMAIN rest : rest[j] = order[i]
        <4>1. CASE i < k
          BY <1>1, <3>3, <3>4, <3>5, <4>1
        <4>2. CASE i > k
          <5>1. i - 1 \in DOMAIN rest /\ ~(i - 1 < k)
            BY <1>1, <3>3, <3>5, <4>2
          <5> QED  BY <1>1, <3>4, <3>5, <5>1
        <4> QED  BY <1>1, <3>3, <3>6, <4>1, <4>2
      <3> QED  BY <3>4, <3>6
    <2> QED  BY <2>1, <2>2
  <1> HIDE DEF rest
  <1>3. /\ Append(rest, a) \in Seq(S) /\ Len(Append(rest, a)) = Len(rest) + 1
        /\ \A i \in 1 .. Len(rest) : Append(rest, a)[i] = rest[i]
        /\ Append(rest, a)[Len(rest) + 1] = a
    BY <1>2, AppendProperties
  <1>4. /\ Len(rest) \in Nat /\ DOMAIN rest = 1 .. Len(rest)
        /\ DOMAIN Append(rest, a) = 1 .. Len(rest) + 1
    BY <1>2, <1>3, LenProperties
  <1>5. Later(order, a) = Append(rest, a)
    BY DEF Later, rest
  <1>6. a \in Range(Append(rest, a))
    BY <1>3, <1>4 DEF Range
  <1>7. ASSUME NEW i \in 1 .. Len(order) PROVE order[i] \in Range(Append(rest, a))
    <2>1. CASE order[i] = a
      BY <1>6, <2>1
    <2>2. CASE order[i] # a
      BY <1>2, <1>3, <1>4, <2>2 DEF Range
    <2> QED  BY <2>1, <2>2
  <1> QED  BY SMTT(30), <1>1, <1>3, <1>5, <1>6, <1>7 DEF Range

-----------------------------------------------------------------------------
(* The action queue *)

\* The flag says whether actions are outstanding.
QueueInv ==
  /\ {action_que, executing, applied} \subseteq Seq(1 .. height)
  /\ dropped \subseteq 1 .. height
  /\ action_que_processing = (action_que # <<>>)
  /\ OneAtATime

\* An action that is added leaves the queue's types and its one action at a time.
LEMMA QueueAdds ==
  ASSUME QueueInv, NEW a \in 1 .. height, addToActionQue(a), height' = height
  PROVE  /\ QueueInv'
         /\ Range(action_que') = Range(action_que) \union {a}
         /\ UNCHANGED <<applied, dropped>>
  <1> DEFINE S == 1 .. height
  <1>1. /\ action_que \in Seq(S) /\ executing \in Seq(S) /\ applied \in Seq(S)
        /\ dropped \subseteq S
        /\ UNCHANGED <<applied, dropped>> /\ a \in S
    BY DEF QueueInv, addToActionQue
  <1>2. action_que' = Append(action_que, a)
    BY DEF addToActionQue, executeActionQue
  <1> HIDE DEF S
  <1>3. /\ action_que' \in Seq(S) /\ action_que' # <<>>
        /\ Len(action_que') = Len(action_que) + 1
        /\ \A i \in 1 .. Len(action_que) : action_que'[i] = action_que[i]
        /\ action_que'[Len(action_que) + 1] = a
        /\ Head(action_que') = IF action_que = <<>> THEN a ELSE Head(action_que)
    BY <1>1, <1>2, AppendProperties, HeadTailAppend
  <1>4. /\ Len(action_que) \in Nat /\ DOMAIN action_que = 1 .. Len(action_que)
        /\ DOMAIN action_que' = 1 .. Len(action_que) + 1
    BY <1>1, <1>3, LenProperties
  <1>5. Range(action_que') = Range(action_que) \union {a}
    BY <1>3, <1>4 DEF Range
  <1>6. CASE action_que = <<>>
    <2>1. executing = <<>>
      BY <1>6 DEF QueueInv, OneAtATime
    <2>2. action_que_processing' = TRUE /\ executing' = Append(<<>>, a)
      BY <1>2, <1>3, <1>6, <2>1 DEF QueueInv, addToActionQue, executeActionQue
    <2>3. /\ executing' \in Seq(S) /\ Len(executing') = 1 /\ executing'[1] = a
      BY <1>1, <2>1, <2>2, AppendProperties
    <2>4. executing' # <<>>
      BY <2>3
    <2>5. OneAtATime'
      BY <1>3, <1>6, <2>3, <2>4 DEF OneAtATime
    <2> QED  BY <1>1, <1>3, <1>5, <2>2, <2>3, <2>5 DEF QueueInv, S
  <1>7. CASE action_que # <<>>
    <2>1. UNCHANGED <<action_que_processing, executing>> /\ action_que_processing = TRUE
      BY <1>7 DEF QueueInv, addToActionQue
    <2> QED  BY <1>1, <1>3, <1>5, <1>7, <2>1 DEF QueueInv, OneAtATime, S
  <1> QED  BY <1>6, <1>7

\* What was awaited was the first of the queue, and no other action leaves it.
LEMMA QueueMovesOn ==
  ASSUME QueueInv, NEW k \in DOMAIN executing, MoveOn(k), height' = height
  PROVE  /\ {action_que', executing'} \subseteq Seq(1 .. height)
         /\ action_que_processing' = (action_que' # <<>>)
         /\ OneAtATime'
         /\ executing[k] \in 1 .. height
         /\ Range(action_que) \subseteq Range(action_que') \union {executing[k]}
  <1> DEFINE S == 1 .. height
  <1>1. /\ action_que \in Seq(S) /\ executing \in Seq(S)
        /\ Len(executing) <= 1
        /\ executing # <<>> => action_que # <<>> /\ executing[1] = Head(action_que)
    BY DEF QueueInv, OneAtATime
  <1> HIDE DEF S
  <1>2. /\ Len(executing) \in Nat /\ DOMAIN executing = 1 .. Len(executing)
        /\ Len(action_que) \in Nat /\ DOMAIN action_que = 1 .. Len(action_que)
    BY <1>1, LenProperties
  <1>3. k = 1 /\ Len(executing) = 1 /\ executing # <<>>
    BY <1>1, <1>2
  <1>4. /\ action_que # <<>> /\ executing[k] = Head(action_que) /\ Head(action_que) \in S
        /\ Head(action_que) = action_que[1]
        /\ Tail(action_que) \in Seq(S) /\ Len(Tail(action_que)) = Len(action_que) - 1
        /\ \A i \in 1 .. Len(Tail(action_que)) : Tail(action_que)[i] = action_que[i + 1]
    BY <1>1, <1>3, HeadTailProperties
  <1>5. RemoveAt(executing, k) = <<>>
    <2>1. RemoveAt(executing, k) \in Seq(S) /\ Len(RemoveAt(executing, k)) = Len(executing) - 1
      BY <1>1, RemoveAtFacts
    <2>2. Len(RemoveAt(executing, k)) = 0
      BY <1>3, <2>1
    <2> QED  BY <2>1, <2>2, EmptySeq
  <1>6. action_que' = Tail(action_que)
    BY <1>4 DEF MoveOn, executeActionQue
  <1>7. /\ action_que_processing' = (action_que' # <<>>)
        /\ executing' = IF action_que' = <<>> THEN <<>> ELSE Append(<<>>, Head(action_que'))
    BY <1>5, <1>6 DEF MoveOn, executeActionQue
  <1>8. ASSUME action_que' = <<>> PROVE executing' \in Seq(S) /\ OneAtATime'
    <2>1. executing' = <<>> /\ Len(executing') = 0
      BY <1>7, <1>8
    <2>2. OneAtATime'
      BY <1>8, <2>1 DEF OneAtATime
    <2> QED  BY <2>1, <2>2, EmptySeq
  <1>9. ASSUME action_que' # <<>> PROVE executing' \in Seq(S) /\ OneAtATime'
    <2>1. PICK q : q = action_que'
      OBVIOUS
    <2>2. q \in Seq(S) /\ q # <<>> /\ Head(q) \in S
      BY <1>4, <1>6, <1>9, <2>1, HeadTailProperties
    <2>3. PICK x : x = Append(<<>>, Head(q))
      OBVIOUS
    <2>4. <<>> \in Seq(S) /\ Len(<<>>) = 0
      BY EmptySeq
    <2>5. x \in Seq(S) /\ Len(x) <= 1 /\ x[1] = Head(q) /\ x # <<>>
      BY <2>2, <2>3, <2>4, AppendProperties
    <2>6. executing' = x
      BY <1>7, <1>9, <2>1, <2>3
    <2>7. /\ executing' \in Seq(S) /\ Len(executing') <= 1 /\ executing' # <<>>
          /\ executing'[1] = Head(action_que')
      BY <2>1, <2>5, <2>6, Zenon
    <2> QED  BY <1>9, <2>7 DEF OneAtATime
  <1>10. action_que' \in Seq(S) /\ executing' \in Seq(S) /\ OneAtATime'
    <2>1. action_que' \in Seq(S)
      BY <1>4, <1>6
    <2> QED  BY <1>8, <1>9, <2>1
  <1>11. Range(action_que) \subseteq Range(action_que') \union {executing[k]}
    <2>1. DOMAIN action_que' = 1 .. Len(action_que) - 1
      BY <1>4, <1>6, LenProperties
    <2>2. ASSUME NEW i \in 1 .. Len(action_que)
          PROVE  action_que[i] \in Range(action_que') \union {executing[k]}
      <3>1. CASE i = 1
        BY <1>4, <3>1
      <3>2. CASE i # 1
        <4>1. i - 1 \in 1 .. Len(action_que) - 1 /\ i - 1 + 1 = i
          BY <1>2, <3>2
        <4>2. action_que'[i - 1] = action_que[i]
          BY <1>4, <1>6, <4>1
        <4> QED  BY <2>1, <4>1, <4>2 DEF Range
      <3> QED  BY <3>1, <3>2
    <2> QED  BY <1>2, <2>2 DEF Range
  <1> QED  BY <1>4, <1>7, <1>10, <1>11 DEF S

-----------------------------------------------------------------------------
(* Grabbers and runs *)

GrabberSet(h) ==
  [bypass_wipe : BOOLEAN, connected : BOOLEAN, currBlockNum : Nat,
   currBatchMax : 0 .. h, timers : Nat]

\* Runs of n grabbers at height h.  A batch ends at the chain's latest block
\* at most; nothing is fetched before the latest block is known, and there is
\* always a block left to process.
RunSet(n, h) ==
  {x \in [of : 1 .. n, at : {"latest", "wiping", "wiped", "fetching", "processing"},
          slow : BOOLEAN, after : Nat, fetched : Seq({"block", "error", "slow"})] :
     /\ x.after + Len(x.fetched) <= h
     /\ x.at = "latest" => x.fetched = <<>>
     /\ x.at = "processing" => x.fetched # <<>>}

ListsInv ==
  /\ grabbers \in Seq(GrabberSet(height)) /\ Len(grabbers) <= MaxGrabbers
  /\ runs \in Seq(RunSet(Len(grabbers), height))

GrabInv ==
  /\ height \in Numbers
  /\ {Blocks, saves, skipped} \subseteq SUBSET (1 .. height)
  /\ ListsInv

\* The entries of the lists are of their types, and a run is of a grabber there is.
LEMMA ListFacts ==
  ASSUME ListsInv
  PROVE  /\ Len(grabbers) \in Nat /\ DOMAIN grabbers = 1 .. Len(grabbers)
         /\ \A i \in DOMAIN grabbers : grabbers[i] \in GrabberSet(height)
         /\ \A r \in DOMAIN runs :
              /\ runs[r] \in RunSet(Len(grabbers), height)
              /\ runs[r].of \in DOMAIN grabbers
              /\ Grabber(r) \in GrabberSet(height)
  <1>1. /\ Len(grabbers) \in Nat /\ DOMAIN grabbers = 1 .. Len(grabbers)
        /\ \A i \in DOMAIN grabbers : grabbers[i] \in GrabberSet(height)
    BY LenProperties, ElementOfSeq DEF ListsInv
  <1>2. ASSUME NEW r \in DOMAIN runs
        PROVE  runs[r] \in RunSet(Len(grabbers), height)
    BY LenProperties, ElementOfSeq DEF ListsInv
  <1> QED  BY <1>1, <1>2 DEF RunSet, Grabber

\* Replacing a grabber by another keeps the list's type.
LEMMA SetGrabber ==
  ASSUME ListsInv, NEW i \in DOMAIN grabbers, NEW g \in GrabberSet(height),
         grabbers' = [grabbers EXCEPT ![i] = g], height' = height
  PROVE  /\ grabbers' \in Seq(GrabberSet(height')) /\ Len(grabbers') = Len(grabbers)
         /\ runs' \in Seq(RunSet(Len(grabbers), height)) => ListsInv'
  <1>1. i \in 1 .. Len(grabbers)
    BY ListFacts
  <1>2. grabbers' \in Seq(GrabberSet(height')) /\ Len(grabbers') = Len(grabbers)
    BY <1>1, ExceptSeq DEF ListsInv
  <1> QED  BY <1>2 DEF ListsInv

\* Replacing a run by another keeps the list's type.
LEMMA SetRun ==
  ASSUME ListsInv, NEW r \in DOMAIN runs, NEW x \in RunSet(Len(grabbers), height),
         runs' = [runs EXCEPT ![r] = x]
  PROVE  runs' \in Seq(RunSet(Len(grabbers), height))
  <1>1. r \in 1 .. Len(runs)
    BY LenProperties DEF ListsInv
  <1> QED  BY <1>1, ExceptSeq DEF ListsInv

\* A run that ends leaves the lists of their types.
LEMMA EndsRun ==
  ASSUME ListsInv, NEW r \in DOMAIN runs, NEW g \in GrabberSet(height), EndRun(r, g),
         height' = height
  PROVE  ListsInv'
  <1>1. runs[r].of \in DOMAIN grabbers
    BY ListFacts
  <1>2. runs' \in Seq(RunSet(Len(grabbers), height))
    BY RemoveAtFacts DEF ListsInv, EndRun
  <1>3. grabbers' = [grabbers EXCEPT ![runs[r].of] = g]
    BY DEF EndRun
  <1> QED  BY <1>1, <1>2, <1>3, SetGrabber

\* A grabber with a timer more, or with other numbers, is one.
LEMMA ArmedType ==
  ASSUME NEW h, NEW g \in GrabberSet(h)
  PROVE  /\ Armed(g) \in GrabberSet(h)
         /\ \A n \in Nat : /\ [g EXCEPT !.currBlockNum = n] \in GrabberSet(h)
                           /\ [g EXCEPT !.connected = TRUE, !.currBlockNum = n]
                                \in GrabberSet(h)
         /\ [g EXCEPT !.connected = TRUE] \in GrabberSet(h)
         /\ \A n \in 0 .. h : [g EXCEPT !.currBatchMax = n] \in GrabberSet(h)
  <1>1. g.timers + 1 \in Nat
    BY DEF GrabberSet
  <1>2. Armed(g) \in GrabberSet(h)
    BY <1>1 DEF Armed, GrabberSet
  <1> QED  BY <1>2 DEF GrabberSet

\* The highest of a set of blocks is a number, and in the chain.
LEMMA HighestSaved ==
  ASSUME NEW h \in Nat, NEW S \in SUBSET (1 .. h)
  PROVE  Highest(S) \in 0 .. h
  <1>1. CASE S = {}
    BY <1>1 DEF Highest
  <1>2. CASE S # {}
    <2> DEFINE T == {n \in Nat : \A b \in S : b <= n}
    <2>1. h \in T
      OBVIOUS
    <2>2. PICK m \in T : \A k \in T : m <= k
      <3>1. T \in SUBSET Nat /\ T # {}
        BY <2>1
      <3> HIDE DEF T
      <3> QED  BY <3>1, LeastNatural
    <2>3. m \in S
      <3>1. SUFFICES ASSUME m \notin S PROVE FALSE
        OBVIOUS
      <3>2. m \in Nat /\ \A b \in S : b <= m /\ b # m /\ b \in Nat \ {0}
        BY <2>2, <3>1
      <3> HIDE DEF T
      <3>3. m - 1 \in Nat /\ \A b \in S : b <= m - 1
        <4>1. PICK b \in S : TRUE
          BY <1>2
        <4>2. b \in Nat \ {0} /\ b <= m
          BY <3>2, <4>1
        <4>3. m - 1 \in Nat
          BY <3>2, <4>2
        <4> QED  BY <3>2, <4>3
      <3>4. m <= m - 1
        BY <2>2, <3>3 DEF T
      <3> QED  BY <3>2, <3>4
    <2>4. \E x \in S : \A y \in S : x >= y
      <3>1. \A y \in S : m >= y
        BY <2>2
      <3> QED  BY <2>3, <3>1
    <2> HIDE DEF T
    <2>5. Max(S) \in S
      BY <2>4 DEF Max
    <2>6. S \subseteq 0 .. h
      OBVIOUS
    <2>7. Max(S) \in 0 .. h
      BY <2>5, <2>6, Zenon
    <2> QED  BY <1>2, <2>7 DEF Highest
  <1> QED  BY <1>1, <1>2

\* Connecting, also in vain, and a timer that fires keep the lists.
LEMMA ConnectsFit ==
  ASSUME GrabInv, NEW i \in DOMAIN grabbers, Connect(i) \/ ConnectFails(i) \/ FireTimer(i)
  PROVE  GrabInv'
  <1>1. /\ ListsInv /\ height \in Numbers /\ UNCHANGED <<height, Blocks, saves, skipped>>
        /\ {Blocks, saves, skipped} \subseteq SUBSET (1 .. height)
        /\ height \in Nat
    BY BoundsAssumption DEF GrabInv, Connect, ConnectFails, FireTimer, Numbers
  <1> DEFINE g == grabbers[i]
  <1>2. g \in GrabberSet(height)
    BY <1>1, ListFacts
  <1>3. runs \in Seq(RunSet(Len(grabbers), height))
    BY <1>1 DEF ListsInv
  <1>4. CASE Connect(i)
    <2> DEFINE c == Armed([g EXCEPT !.connected = TRUE, !.currBlockNum = Highest(Blocks)])
    <2>1. c \in GrabberSet(height)
      <3>1. PICK n \in 0 .. height : n = Highest(Blocks)
        BY <1>1, HighestSaved
      <3>2. n \in Nat
        BY <1>1
      <3> HIDE DEF g
      <3>3. [g EXCEPT !.connected = TRUE, !.currBlockNum = n] \in GrabberSet(height)
        BY <1>2, <3>2, ArmedType
      <3> QED  BY <3>1, <3>3, ArmedType
    <2>2. grabbers' = [grabbers EXCEPT ![i] = c] /\ runs' = runs
      BY <1>4 DEF Connect
    <2> HIDE DEF c
    <2>3. ListsInv'
      BY <1>1, <1>3, <2>1, <2>2, SetGrabber
    <2> QED  BY <1>1, <2>3 DEF GrabInv
  <1>5. CASE ConnectFails(i)
    <2> DEFINE c == [g EXCEPT !.connected = TRUE]
    <2>1. c \in GrabberSet(height)
      BY <1>2 DEF GrabberSet
    <2>2. grabbers' = [grabbers EXCEPT ![i] = c] /\ runs' = runs
      BY <1>5 DEF ConnectFails
    <2> HIDE DEF c
    <2>3. ListsInv'
      BY <1>1, <1>3, <2>1, <2>2, SetGrabber
    <2> QED  BY <1>1, <2>3 DEF GrabInv
  <1>6. CASE FireTimer(i)
    <2> DEFINE c == [g EXCEPT !.timers = @ - 1]
    <2>1. c \in GrabberSet(height)
      <3>1. g.timers - 1 \in Nat
        BY <1>2, <1>6 DEF GrabberSet, FireTimer
      <3> QED  BY <1>2, <3>1 DEF GrabberSet
    <2>2. grabbers' = [grabbers EXCEPT ![i] = c] /\ runs' = Append(runs, NewRun(i))
      BY <1>6 DEF FireTimer
    <2> HIDE DEF c
    <2>3. NewRun(i) \in RunSet(Len(grabbers), height)
      <3>1. i \in 1 .. Len(grabbers)
        BY <1>1, ListFacts
      <3>2. <<>> \in Seq({"block", "error", "slow"}) /\ 0 + Len(<<>>) = 0
        BY EmptySeq
      <3> QED  BY <1>1, <3>1, <3>2 DEF NewRun, RunSet
    <2>4. runs' \in Seq(RunSet(Len(grabbers), height))
      BY <1>3, <2>2, <2>3, AppendProperties
    <2>5. ListsInv'
      BY <1>1, <2>1, <2>2, <2>4, SetGrabber
    <2> QED  BY <1>1, <2>5 DEF GrabInv
  <1> QED  BY <1>4, <1>5, <1>6

\* Asking for the latest block, however it is answered, keeps the lists.
LEMMA LatestFits ==
  ASSUME GrabInv, NEW r \in DOMAIN runs, Latest(r) \/ LatestFails(r) \/ LatestSlow(r)
  PROVE  GrabInv'
  <1>1. /\ ListsInv /\ height \in Numbers /\ UNCHANGED <<height, Blocks, saves, skipped>>
        /\ {Blocks, saves, skipped} \subseteq SUBSET (1 .. height)
        /\ height \in Nat
    BY BoundsAssumption DEF GrabInv, Latest, LatestFails, LatestSlow, Numbers
  <1> SUFFICES ListsInv'
    BY <1>1 DEF GrabInv
  <1> DEFINE R == RunSet(Len(grabbers), height)
             g == Grabber(r)
  <1>2. runs[r] \in R /\ runs[r].of \in DOMAIN grabbers /\ g \in GrabberSet(height)
        /\ grabbers \in Seq(GrabberSet(height)) /\ Len(grabbers) <= MaxGrabbers
    BY <1>1, ListFacts DEF ListsInv
  <1>3. ASSUME NEW x \in R, runs' = [runs EXCEPT ![r] = x], UNCHANGED grabbers
        PROVE  ListsInv'
    BY <1>1, <1>2, <1>3, SetRun DEF ListsInv
  <1>4. Armed(g) \in GrabberSet(height)
    <2> HIDE DEF g
    <2> QED  BY <1>2, ArmedType
  <1>5. CASE LatestFails(r)
    BY <1>1, <1>4, <1>5, EndsRun DEF LatestFails
  <1>6. CASE LatestSlow(r)
    <2>1. [runs[r] EXCEPT !.slow = TRUE] \in R
      BY <1>2 DEF RunSet
    <2> HIDE DEF R
    <2> QED  BY <1>3, <1>6, <2>1 DEF LatestSlow
  <1>7. CASE Latest(r)
    <2>1. PICK n \in 0 .. height : LatestIs(r, n)
      BY <1>1, <1>7 DEF Latest
    <2>2. runs[r].at = "latest"
      BY <1>7 DEF Latest
    <2>3. ASSUME runs' = [runs EXCEPT ![r].at = "wiping"], UNCHANGED grabbers
          PROVE  ListsInv'
      <3>1. [runs[r] EXCEPT !.at = "wiping"] \in R
        BY <1>2 DEF RunSet
      <3> HIDE DEF R
      <3> QED  BY <1>3, <2>3, <3>1
    <2>4. ASSUME EndRun(r, Armed(g)) PROVE ListsInv'
      BY <1>1, <1>4, <2>4, EndsRun
    <2>5. ASSUME n > g.currBlockNum,
                 runs' = [runs EXCEPT ![r].at = "fetching", ![r].slow = FALSE,
                                      ![r].after = g.currBlockNum],
                 grabbers' = [grabbers EXCEPT ![runs[r].of].currBatchMax = BatchEnd(g, n)]
          PROVE  ListsInv'
      <3> DEFINE x == [runs[r] EXCEPT !.at = "fetching", !.slow = FALSE,
                                      !.after = g.currBlockNum]
      <3>1. x \in R
        <4>1. runs[r].fetched = <<>> /\ g.currBlockNum \in Nat
          BY <1>2, <2>2 DEF RunSet, GrabberSet
        <4>2. PICK b \in Nat : b = g.currBlockNum
          BY <4>1
        <4>3. Len(<<>>) = 0 /\ b + 0 <= height
          BY <1>1, <2>1, <2>5, <4>2, EmptySeq
        <4>4. x = [runs[r] EXCEPT !.at = "fetching", !.slow = FALSE, !.after = b]
          BY <4>2
        <4> HIDE DEF g, x
        <4> QED  BY <1>2, <4>1, <4>3, <4>4 DEF RunSet
      <3>2. runs' = [runs EXCEPT ![r] = x]
        BY <2>5
      <3>3. runs' \in Seq(R)
        <4> HIDE DEF x
        <4> QED  BY <1>1, <3>1, <3>2, SetRun
      <3>4. BatchEnd(g, n) \in 0 .. height
        <4>1. PICK m : m = g.currBlockNum + BatchAmount
          OBVIOUS
        <4>2. m \in Nat /\ n \in Nat
          <5>1. g.currBlockNum \in Nat
            BY <1>2 DEF GrabberSet
          <5>2. BatchAmount \in Nat
            BY BoundsAssumption
          <5> HIDE DEF g
          <5> QED  BY <1>1, <2>1, <4>1, <5>1, <5>2
        <4>3. PICK S : S = {m, n}
          OBVIOUS
        <4>4. \E z \in S : \A y \in S : z <= y
          BY <4>2, <4>3
        <4>5. Min(S) \in S /\ \A y \in S : Min(S) <= y
          BY <4>4 DEF Min
        <4>6. PICK e : e = Min(S)
          OBVIOUS
        <4>7. e \in {m, n} /\ e <= n
          BY <4>3, <4>5, <4>6
        <4>8. e \in 0 .. height
          BY <1>1, <2>1, <4>2, <4>7
        <4> HIDE DEF g
        <4> QED  BY <4>1, <4>3, <4>6, <4>8 DEF BatchEnd
      <3>5. [g EXCEPT !.currBatchMax = BatchEnd(g, n)] \in GrabberSet(height)
        <4>1. PICK e : e = BatchEnd(g, n)
          OBVIOUS
        <4> HIDE DEF g
        <4> QED  BY <1>2, <3>4, <4>1, ArmedType
      <3>6. grabbers' = [grabbers EXCEPT
                           ![runs[r].of] = [g EXCEPT !.currBatchMax = BatchEnd(g, n)]]
        BY <2>5 DEF Grabber
      <3>7. PICK c \in GrabberSet(height) : grabbers' = [grabbers EXCEPT ![runs[r].of] = c]
        BY <3>5, <3>6
      <3> QED  BY <1>1, <1>2, <3>3, <3>7, SetGrabber
    <2> QED  BY <2>1, <2>3, <2>4, <2>5 DEF LatestIs
  <1> QED  BY <1>5, <1>6, <1>7

\* Both halves of a wipe keep the lists.
LEMMA WipesFit ==
  ASSUME GrabInv, NEW r \in DOMAIN runs, WipeBlocks(r) \/ WipeRest(r)
  PROVE  GrabInv'
  <1>1. /\ ListsInv /\ height \in Numbers /\ UNCHANGED <<height, saves, skipped>>
        /\ {Blocks, saves, skipped} \subseteq SUBSET (1 .. height)
        /\ Blocks' \subseteq Blocks
    BY DEF GrabInv, WipeBlocks, WipeRest
  <1> SUFFICES ListsInv'
    BY <1>1 DEF GrabInv
  <1> DEFINE R == RunSet(Len(grabbers), height)
             g == Grabber(r)
  <1>2. runs[r] \in R /\ runs[r].of \in DOMAIN grabbers /\ g \in GrabberSet(height)
    BY <1>1, ListFacts
  <1>3. CASE WipeBlocks(r)
    <2>1. [runs[r] EXCEPT !.at = "wiped"] \in R
      BY <1>2 DEF RunSet
    <2>2. runs' = [runs EXCEPT ![r] = [runs[r] EXCEPT !.at = "wiped"]] /\ UNCHANGED grabbers
      BY <1>3 DEF WipeBlocks
    <2>3. PICK x \in R : runs' = [runs EXCEPT ![r] = x]
      BY <2>1, <2>2
    <2> QED  BY <1>1, <2>2, <2>3, SetRun DEF ListsInv
  <1>4. CASE WipeRest(r)
    <2> DEFINE restarted == Armed([g EXCEPT !.currBlockNum = StartBlock])
    <2>1. restarted \in GrabberSet(height)
      <3>1. StartBlock \in Nat
        BY BoundsAssumption
      <3>2. [g EXCEPT !.currBlockNum = StartBlock] \in GrabberSet(height)
        BY <1>2, <3>1 DEF GrabberSet
      <3> HIDE DEF g
      <3> QED  BY <3>2, ArmedType
    <2>2. Armed(restarted) \in GrabberSet(height)
      <3> HIDE DEF restarted
      <3> QED  BY <2>1, ArmedType
    <2>3. EndRun(r, restarted) \/ EndRun(r, Armed(restarted))
      BY <1>4 DEF WipeRest
    <2> HIDE DEF restarted
    <2> QED  BY <1>1, <2>1, <2>2, <2>3, EndsRun
  <1> QED  BY <1>3, <1>4

\* Fetching the blocks of a batch keeps the lists.
LEMMA FetchesFit ==
  ASSUME GrabInv, NEW r \in DOMAIN runs, FetchBlock(r) \/ BlockAtLast(r) \/ Fetched(r)
  PROVE  GrabInv'
  <1> DEFINE O == {"block", "error", "slow"}
             R == RunSet(Len(grabbers), height)
             g == Grabber(r)
             f == runs[r].fetched
  <1>1. /\ ListsInv /\ height \in Numbers /\ UNCHANGED <<height, Blocks, saves, skipped>>
        /\ {Blocks, saves, skipped} \subseteq SUBSET (1 .. height)
        /\ height \in Nat
    BY BoundsAssumption DEF GrabInv, FetchBlock, BlockAtLast, Fetched, Numbers
  <1> SUFFICES ListsInv'
    BY <1>1 DEF GrabInv
  <1>2. runs[r] \in R /\ g \in GrabberSet(height)
        /\ grabbers \in Seq(GrabberSet(height)) /\ Len(grabbers) <= MaxGrabbers
    BY <1>1, ListFacts DEF ListsInv
  <1>3. f \in Seq(O) /\ Len(f) \in Nat /\ DOMAIN f = 1 .. Len(f) /\ runs[r].after \in Nat
    BY <1>2, LenProperties DEF RunSet
  <1>4. ASSUME NEW x \in R, runs' = [runs EXCEPT ![r] = x], UNCHANGED grabbers
        PROVE  ListsInv'
    BY <1>1, <1>2, <1>4, SetRun DEF ListsInv
  <1>5. ASSUME NEW h \in Seq(O), runs[r].after + Len(h) <= height,
               runs[r].at = "latest" => h = <<>>, runs[r].at = "processing" => h # <<>>
        PROVE  [runs[r] EXCEPT !.fetched = h] \in R
    BY <1>2, <1>5 DEF RunSet
  <1>6. CASE FetchBlock(r)
    <2>1. PICK o \in O : runs' = [runs EXCEPT ![r].fetched = Append(@, o)]
      BY <1>6 DEF FetchBlock
    <2>2. PICK h : h = Append(f, o)
      OBVIOUS
    <2>3. h \in Seq(O) /\ Len(h) = Len(f) + 1 /\ h # <<>>
      <3> HIDE DEF f, O
      <3> QED  BY <1>3, <2>2, AppendProperties
    <2>4. runs[r].after + Len(h) <= height
      <3>1. ~(NextToFetch(r) > g.currBatchMax) /\ NextToFetch(r) = runs[r].after + Len(f) + 1
        BY <1>6 DEF FetchBlock, AllRequested, NextToFetch
      <3>2. g.currBatchMax \in 0 .. height
        BY <1>2 DEF GrabberSet
      <3> HIDE DEF f, g
      <3> QED  BY <1>1, <1>3, <2>3, <3>1, <3>2
    <2>5. [runs[r] EXCEPT !.fetched = h] \in R
      <3>1. runs[r].at = "fetching"
        BY <1>6 DEF FetchBlock
      <3> HIDE DEF O, R
      <3> QED  BY <1>5, <2>3, <2>4, <3>1
    <2>6. runs' = [runs EXCEPT ![r] = [runs[r] EXCEPT !.fetched = h]] /\ UNCHANGED grabbers
      BY <1>6, <2>1, <2>2 DEF FetchBlock
    <2> HIDE DEF R
    <2> QED  BY <1>4, <2>5, <2>6
  <1>7. CASE BlockAtLast(r)
    <2>1. PICK k \in DOMAIN f, o \in O : runs' = [runs EXCEPT ![r].fetched[k] = o]
      BY <1>7 DEF BlockAtLast
    <2>2. PICK h : h = [f EXCEPT ![k] = o]
      OBVIOUS
    <2>3. h \in Seq(O) /\ Len(h) = Len(f)
      <3> HIDE DEF f, O
      <3> QED  BY <1>3, <2>2, ExceptSeq
    <2>4. f # <<>> /\ h # <<>>
      <3>1. Len(f) # 0
        BY <1>3
      <3>2. Len(<<>>) = 0
        BY EmptySeq
      <3> HIDE DEF f
      <3> QED  BY <2>3, <3>1, <3>2
    <2>5. [runs[r] EXCEPT !.fetched = h] \in R
      <3>1. runs[r].after + Len(f) <= height /\ runs[r].at # "latest"
        BY <1>2, <2>4 DEF RunSet
      <3> HIDE DEF O, R, f
      <3> QED  BY <1>5, <2>3, <2>4, <3>1
    <2>6. runs' = [runs EXCEPT ![r] = [runs[r] EXCEPT !.fetched = h]] /\ UNCHANGED grabbers
      BY <1>7, <2>1, <2>2 DEF BlockAtLast
    <2> HIDE DEF R
    <2> QED  BY <1>4, <2>5, <2>6
  <1>8. CASE Fetched(r)
    <2>1. CASE f = <<>>
      <3>1. EndRun(r, g)
        BY <1>8, <2>1 DEF Fetched
      <3> HIDE DEF g
      <3> QED  BY <1>1, <1>2, <3>1, EndsRun
    <2>2. CASE f # <<>>
      <3>1. [runs[r] EXCEPT !.at = "processing"] \in R
        BY <1>2, <2>2 DEF RunSet
      <3>2. runs' = [runs EXCEPT ![r] = [runs[r] EXCEPT !.at = "processing"]]
            /\ UNCHANGED grabbers
        BY <1>8, <2>2 DEF Fetched
      <3> HIDE DEF R
      <3> QED  BY <1>4, <3>1, <3>2
    <2> QED  BY <2>1, <2>2
  <1> QED  BY <1>6, <1>7, <1>8

\* A block that is handed over or passed over lies in the chain.
LEMMA BatchesFit ==
  ASSUME GrabInv, NEW r \in DOMAIN runs, processBlock(r)
  PROVE  GrabInv' /\ runs[r].after + 1 \in 1 .. height
  <1> DEFINE O == {"block", "error", "slow"}
             R == RunSet(Len(grabbers), height)
             b == runs[r].after + 1
             f == runs[r].fetched
  <1>1. /\ ListsInv /\ height \in Numbers /\ UNCHANGED <<height, Blocks>>
        /\ {Blocks, saves, skipped} \subseteq SUBSET (1 .. height)
        /\ height \in Nat
    BY BoundsAssumption DEF GrabInv, processBlock, Numbers
  <1>2. runs[r] \in R /\ Grabber(r) \in GrabberSet(height) /\ runs[r].of \in DOMAIN grabbers
        /\ runs[r].at = "processing"
    BY <1>1, ListFacts DEF processBlock
  <1>3. /\ f \in Seq(O) /\ f # <<>> /\ Len(f) \in Nat \ {0}
        /\ runs[r].after \in Nat /\ runs[r].after + Len(f) <= height
    BY <1>2, EmptySeq DEF RunSet
  <1>4. b \in 1 .. height
    BY <1>1, <1>3
  <1>5. ASSUME NEW g \in GrabberSet(height), NextInBatch(r, g) PROVE ListsInv'
    <2>1. CASE Len(f) = 1
      <3>1. EndRun(r, g)
        BY <1>5, <2>1 DEF NextInBatch
      <3> QED  BY <1>1, <3>1, EndsRun
    <2>2. CASE Len(f) # 1
      <3>1. PICK t : t = Tail(f)
        OBVIOUS
      <3>2. t \in Seq(O) /\ Len(t) = Len(f) - 1
        <4> HIDE DEF f, O
        <4> QED  BY <1>3, <3>1, HeadTailProperties
      <3>3. t # <<>> /\ b + Len(t) <= height /\ b \in Nat
        <4>1. Len(t) # 0 /\ b + Len(t) = runs[r].after + Len(f)
          <5> HIDE DEF f
          <5> QED  BY <1>3, <2>2, <3>2
        <4>2. Len(<<>>) = 0
          BY EmptySeq
        <4> HIDE DEF f, b
        <4> QED  BY <1>3, <1>4, <4>1, <4>2
      <3>4. [runs[r] EXCEPT !.fetched = t, !.after = b] \in R
        <4> HIDE DEF b
        <4> QED  BY <1>2, <3>2, <3>3 DEF RunSet
      <3>5. /\ runs' = [runs EXCEPT ![r] = [runs[r] EXCEPT !.fetched = t, !.after = b]]
            /\ grabbers' = [grabbers EXCEPT ![runs[r].of] = g]
        BY <1>5, <2>2, <3>1 DEF NextInBatch
      <3>6. runs' \in Seq(R)
        <4>1. PICK x \in R : runs' = [runs EXCEPT ![r] = x]
          BY <3>4, <3>5
        <4> QED  BY <1>1, <4>1, SetRun
      <3> QED  BY <1>1, <1>2, <3>5, <3>6, SetGrabber
    <2> QED  BY <2>1, <2>2
  <1>6. CASE HandOver(r)
    <2> DEFINE g == IF b = Grabber(r).currBatchMax
                      THEN Armed([Grabber(r) EXCEPT !.currBlockNum = b]) ELSE Grabber(r)
    <2>1. g \in GrabberSet(height)
      <3>1. b \in Nat
        BY <1>3
      <3>2. [Grabber(r) EXCEPT !.currBlockNum = b] \in GrabberSet(height)
        BY <1>2, <3>1 DEF GrabberSet
      <3> QED  BY <1>2, <3>2, ArmedType
    <2>2. /\ NextInBatch(r, g) /\ saves' = saves \union {b} /\ skipped' = skipped \ {b}
      BY <1>6 DEF HandOver
    <2> HIDE DEF g, b
    <2>3. ListsInv'
      BY <1>5, <2>1, <2>2
    <2> QED  BY <1>1, <1>4, <2>2, <2>3 DEF GrabInv, b
  <1>7. CASE SkipBlock(r)
    <2>1. NextInBatch(r, Grabber(r)) /\ UNCHANGED saves /\ skipped' = skipped \union {b}
      BY <1>7 DEF SkipBlock
    <2>2. ListsInv'
      BY <1>2, <1>5, <2>1
    <2> HIDE DEF b
    <2> QED  BY <1>1, <1>4, <2>1, <2>2 DEF GrabInv, b
  <1> QED  BY <1>6, <1>7 DEF processBlock

-----------------------------------------------------------------------------
(* The invariant *)

IInv == GrabInv /\ QueueInv /\ SavedIsHanded

\* The invariant holds at the start.
LEMMA InitIInv == Init => IInv
  <1> SUFFICES ASSUME Init PROVE IInv
    OBVIOUS
  <1>1. /\ \A S : <<>> \in Seq(S)
        /\ \A S : \A e \in S : <<e>> \in Seq(S) /\ Len(<<e>>) = 1
    OBVIOUS
  <1>2. height \in Numbers /\ height \in Nat
    BY BoundsAssumption DEF Init, Numbers
  <1>3. ListsInv
    <2>1. NewGrabber(FALSE) \in GrabberSet(height)
      BY <1>2 DEF NewGrabber, GrabberSet
    <2>2. grabbers \in Seq(GrabberSet(height)) /\ Len(grabbers) = 1
      BY <1>1, <2>1 DEF Init
    <2>3. 1 <= MaxGrabbers
      BY BoundsAssumption
    <2> QED  BY <1>1, <2>2, <2>3 DEF Init, ListsInv
  <1>4. OneAtATime
    BY EmptySeq DEF Init, QueueInit, OneAtATime
  <1> QED  BY <1>1, <1>2, <1>3, <1>4
           DEF Init, QueueInit, IInv, GrabInv, QueueInv, SavedIsHanded

\* A step that leaves the queue alone leaves its part of the invariant.
LEMMA QueueLeftAlone ==
  ASSUME QueueInv, SavedIsHanded, UNCHANGED queueVars, UNCHANGED height,
         Blocks' \union saves' \subseteq Blocks \union saves
  PROVE  QueueInv' /\ SavedIsHanded'
  BY DEF QueueInv, SavedIsHanded, Handed, OneAtATime, queueVars

\* The chain grows.
LEMMA GrowIInv == IInv /\ Grow => IInv'
  <1> SUFFICES ASSUME IInv, Grow PROVE IInv'
    OBVIOUS
  <1>1. /\ GrabInv /\ QueueInv /\ SavedIsHanded
        /\ height \in Nat /\ height' = height + 1 /\ height' \in Numbers
        /\ UNCHANGED <<Blocks, saves, skipped, grabbers, runs, queueVars>>
    BY BoundsAssumption DEF IInv, GrabInv, Grow, Numbers
  <1> DEFINE T == 1 .. height
             T2 == 1 .. height'
  <1>2. T \subseteq T2
    BY <1>1
  <1>3. GrabInv'
    <2>1. GrabberSet(height) \subseteq GrabberSet(height')
      BY <1>1 DEF GrabberSet
    <2>2. RunSet(Len(grabbers), height) \subseteq RunSet(Len(grabbers'), height')
      <3>1. \A x \in RunSet(Len(grabbers), height) : x.after + Len(x.fetched) <= height + 1
        <4>1. ASSUME NEW x \in RunSet(Len(grabbers), height)
              PROVE  x.after + Len(x.fetched) <= height + 1
          <5>1. x.after \in Nat /\ Len(x.fetched) \in Nat /\ x.after + Len(x.fetched) <= height
            BY LenProperties DEF RunSet
          <5> QED  BY <1>1, <5>1
        <4> QED  BY <4>1
      <3> QED  BY <1>1, <3>1 DEF RunSet
    <2>3. /\ grabbers' \in Seq(GrabberSet(height'))
          /\ runs' \in Seq(RunSet(Len(grabbers'), height'))
          /\ Len(grabbers') <= MaxGrabbers
      BY <1>1, <2>1, <2>2, SeqMonotonic DEF GrabInv, ListsInv
    <2>4. {Blocks', saves', skipped'} \subseteq SUBSET T2
      BY <1>1, <1>2 DEF GrabInv
    <2> QED  BY <1>1, <2>3, <2>4 DEF GrabInv, ListsInv
  <1>4. QueueInv'
    <2>1. action_que \in Seq(T) /\ executing \in Seq(T) /\ applied \in Seq(T) /\ dropped \subseteq T
      BY <1>1 DEF QueueInv
    <2> HIDE DEF T, T2
    <2>2. action_que \in Seq(T2) /\ executing \in Seq(T2) /\ applied \in Seq(T2)
          /\ dropped \subseteq T2
      BY <1>2, <2>1, SeqMonotonic
    <2> QED  BY <1>1, <2>2 DEF QueueInv, OneAtATime, queueVars, T2
  <1>5. SavedIsHanded'
    BY <1>1 DEF SavedIsHanded, Handed, queueVars
  <1> QED  BY <1>3, <1>4, <1>5 DEF IInv

\* A batch that is handed over goes to the queue before it is saved.
LEMMA BatchIInv ==
  ASSUME IInv, NEW r \in DOMAIN runs, processBlock(r)
  PROVE  IInv'
  <1> DEFINE b == runs[r].after + 1
  <1>1. /\ GrabInv /\ QueueInv /\ SavedIsHanded
        /\ GrabInv' /\ b \in 1 .. height /\ UNCHANGED <<height, Blocks>>
    BY BatchesFit DEF IInv, processBlock
  <1>2. CASE HandOver(r)
    <2>1. addToActionQue(b) /\ saves' = saves \union {b}
      BY <1>2 DEF HandOver
    <2> HIDE DEF b
    <2>2. /\ QueueInv' /\ UNCHANGED <<applied, dropped>>
          /\ Range(action_que') = Range(action_que) \union {b}
      BY <1>1, <2>1, QueueAdds
    <2>3. SavedIsHanded'
      BY <1>1, <2>1, <2>2 DEF SavedIsHanded, Handed
    <2> QED  BY <1>1, <2>2, <2>3 DEF IInv
  <1>3. CASE SkipBlock(r)
    <2>1. UNCHANGED <<saves, queueVars>>
      BY <1>3 DEF SkipBlock
    <2>2. QueueInv' /\ SavedIsHanded'
      BY <1>1, <2>1, QueueLeftAlone
    <2> QED  BY <1>1, <2>2 DEF IInv
  <1> QED  BY <1>2, <1>3 DEF processBlock

\* An action is taken up, ends or fails.
LEMMA ActionIInv ==
  ASSUME IInv, NEW k \in DOMAIN executing, ActionDone(k) \/ ActionFails(k)
  PROVE  IInv'
  <1> DEFINE S == 1 .. height
             a == executing[k]
  <1>1. /\ GrabInv /\ QueueInv /\ SavedIsHanded /\ MoveOn(k)
        /\ UNCHANGED <<height, Blocks, saves, skipped, grabbers, runs>>
    BY DEF IInv, ActionDone, ActionFails, grabVars, Finish, Reject
  <1>2. GrabInv'
    BY <1>1 DEF GrabInv, ListsInv
  <1>3. /\ action_que' \in Seq(S) /\ executing' \in Seq(S)
        /\ action_que_processing' = (action_que' # <<>>)
        /\ OneAtATime'
        /\ a \in S
        /\ Range(action_que) \subseteq Range(action_que') \union {a}
    BY <1>1, QueueMovesOn
  <1>4. applied \in Seq(S) /\ dropped \subseteq S
    BY <1>1 DEF QueueInv
  <1>5. /\ applied' \in Seq(S) /\ dropped' \subseteq S
        /\ Range(applied) \subseteq Range(applied')
        /\ dropped \union {a} \subseteq Range(applied') \union dropped'
    <2> HIDE DEF S
    <2>1. CASE ActionDone(k)
      <3>1. applied' = Later(applied, a) /\ dropped' = dropped \ {a}
        BY <2>1 DEF ActionDone, Finish
      <3> HIDE DEF a
      <3>2. /\ Later(applied, a) \in Seq(S)
            /\ Range(applied) \union {a} \subseteq Range(Later(applied, a))
        BY <1>3, <1>4, LaterFacts
      <3> QED  BY <1>4, <3>1, <3>2
    <2>2. CASE ActionFails(k)
      <3>1. applied' = applied /\ dropped' = dropped \union {a}
        BY <2>2 DEF ActionFails, Reject
      <3> HIDE DEF a
      <3> QED  BY <1>3, <1>4, <3>1
    <2> QED  BY <2>1, <2>2
  <1> HIDE DEF a
  <1>6. QueueInv'
    BY <1>1, <1>3, <1>5 DEF QueueInv
  <1>7. SavedIsHanded'
    <2>1. Blocks \union saves \subseteq Range(applied) \union Range(action_que) \union dropped
      BY <1>1 DEF SavedIsHanded, Handed
    <2>2. Blocks' \union saves'
            \subseteq Range(applied') \union Range(action_que') \union dropped'
      BY <1>1, <1>3, <1>5, <2>1
    <2> QED  BY <2>2 DEF SavedIsHanded, Handed
  <1> QED  BY <1>2, <1>6, <1>7 DEF IInv

\* The watchdog starts a grabber anew.
LEMMA WatchdogIInv == IInv /\ Watchdog => IInv'
  <1> SUFFICES ASSUME IInv, Watchdog PROVE IInv'
    OBVIOUS
  <1>1. /\ GrabInv /\ ListsInv /\ QueueInv /\ SavedIsHanded /\ Len(grabbers) < MaxGrabbers
        /\ UNCHANGED <<height, Blocks, saves, skipped, runs, queueVars>>
        /\ grabbers' = Append(grabbers, NewGrabber(TRUE)) /\ height \in Nat
    BY BoundsAssumption DEF IInv, GrabInv, Watchdog, Numbers
  <1>2. NewGrabber(TRUE) \in GrabberSet(height)
    BY <1>1 DEF NewGrabber, GrabberSet
  <1>3. /\ grabbers' \in Seq(GrabberSet(height)) /\ Len(grabbers') = Len(grabbers) + 1
        /\ Len(grabbers) \in Nat
    BY <1>1, <1>2, AppendProperties, LenProperties DEF ListsInv
  <1>4. runs \in Seq(RunSet(Len(grabbers'), height))
    <2>1. PICK n \in Nat : n = Len(grabbers)
      BY <1>3
    <2>2. RunSet(n, height) \subseteq RunSet(n + 1, height)
      BY <2>1 DEF RunSet
    <2> QED  BY <1>1, <1>3, <2>1, <2>2, SeqMonotonic DEF ListsInv
  <1>5. Len(grabbers') <= MaxGrabbers
    <2>1. MaxGrabbers \in Nat
      BY BoundsAssumption
    <2> QED  BY <1>1, <1>3, <2>1
  <1>6. GrabInv'
    <2>1. ListsInv'
      BY <1>1, <1>3, <1>4, <1>5 DEF ListsInv
    <2> QED  BY <1>1, <2>1 DEF GrabInv
  <1>7. QueueInv' /\ SavedIsHanded'
    BY <1>1, QueueLeftAlone
  <1> QED  BY <1>6, <1>7 DEF IInv

\* A crash loses the queue, and what was in it counts as dropped.
LEMMA CrashIInv == IInv /\ Crash => IInv'
  <1> SUFFICES ASSUME IInv, Crash PROVE IInv'
    OBVIOUS
  <1>1. /\ GrabInv /\ QueueInv /\ SavedIsHanded /\ QueueLost
        /\ UNCHANGED <<height, Blocks, skipped>> /\ saves' = {}
        /\ grabbers' = <<NewGrabber(FALSE)>> /\ runs' = <<>> /\ height \in Nat
    BY BoundsAssumption DEF IInv, GrabInv, Crash, Numbers
  <1>2. /\ \A S : <<>> \in Seq(S)
        /\ \A S : \A e \in S : <<e>> \in Seq(S) /\ Len(<<e>>) = 1
    OBVIOUS
  <1>3. NewGrabber(FALSE) \in GrabberSet(height)
    BY <1>1 DEF NewGrabber, GrabberSet
  <1>4. grabbers' \in Seq(GrabberSet(height)) /\ Len(grabbers') = 1 /\ 1 <= MaxGrabbers
    <2>1. PICK S : S = GrabberSet(height)
      OBVIOUS
    <2>2. <<NewGrabber(FALSE)>> \in Seq(S) /\ Len(<<NewGrabber(FALSE)>>) = 1
      BY <1>2, <1>3, <2>1, Zenon
    <2>3. 1 <= MaxGrabbers
      BY BoundsAssumption
    <2> QED  BY <1>1, <2>1, <2>2, <2>3, Zenon
  <1>5. GrabInv'
    BY <1>1, <1>2, <1>4 DEF GrabInv, ListsInv
  <1>6. /\ action_que' = <<>> /\ action_que_processing' = FALSE /\ executing' = <<>>
        /\ dropped' = dropped \union Range(action_que) /\ UNCHANGED applied
    BY <1>1 DEF QueueLost
  <1>7. Range(action_que) \subseteq 1 .. height
    <2>1. action_que \in Seq(1 .. height)
      BY <1>1 DEF QueueInv
    <2> QED  BY <2>1, ElementOfSeq, LenProperties DEF Range
  <1>8. OneAtATime'
    BY <1>6, EmptySeq DEF OneAtATime
  <1>9. QueueInv'
    BY <1>1, <1>2, <1>6, <1>7, <1>8 DEF QueueInv
  <1>10. SavedIsHanded'
    BY <1>1, <1>6 DEF SavedIsHanded, Handed
  <1> QED  BY <1>5, <1>9, <1>10 DEF IInv

\* Every step keeps the invariant.
LEMMA NextIInv == IInv /\ [Next]_vars => IInv'
  <1> SUFFICES ASSUME IInv, [Next]_vars PROVE IInv'
    OBVIOUS
  <1>1. GrabInv /\ QueueInv /\ SavedIsHanded
    BY DEF IInv
  <1>2. CASE UNCHANGED vars
    <2>1. GrabInv'
      BY <1>1, <1>2 DEF GrabInv, ListsInv, vars, grabVars
    <2>2. QueueInv' /\ SavedIsHanded'
      BY <1>1, <1>2, QueueLeftAlone DEF vars, grabVars
    <2> QED  BY <2>1, <2>2 DEF IInv
  <1>3. ASSUME GrabInv', UNCHANGED <<height, queueVars>>,
               Blocks' \union saves' \subseteq Blocks \union saves
        PROVE  IInv'
    BY <1>1, <1>3, QueueLeftAlone DEF IInv
  <1>4. ASSUME NEW i \in DOMAIN grabbers, Connect(i) \/ ConnectFails(i) \/ FireTimer(i)
        PROVE  IInv'
    <2>1. UNCHANGED <<height, Blocks, saves, queueVars>>
      BY <1>4 DEF Connect, ConnectFails, FireTimer
    <2> QED  BY <1>1, <1>3, <1>4, <2>1, ConnectsFit
  <1>5. ASSUME NEW r \in DOMAIN runs,
               \/ LatestFails(r) \/ LatestSlow(r) \/ Latest(r)
               \/ WipeBlocks(r) \/ WipeRest(r)
               \/ FetchBlock(r) \/ BlockAtLast(r) \/ Fetched(r) \/ processBlock(r)
        PROVE  IInv'
    <2>1. CASE LatestFails(r) \/ LatestSlow(r) \/ Latest(r)
      <3>1. UNCHANGED <<height, Blocks, saves, queueVars>>
        BY <2>1 DEF Latest, LatestFails, LatestSlow
      <3> QED  BY <1>1, <1>3, <2>1, <3>1, LatestFits
    <2>2. CASE WipeBlocks(r) \/ WipeRest(r)
      <3>1. UNCHANGED <<height, saves, queueVars>> /\ Blocks' \subseteq Blocks
        BY <2>2 DEF WipeBlocks, WipeRest
      <3> QED  BY <1>1, <1>3, <2>2, <3>1, WipesFit
    <2>3. CASE FetchBlock(r) \/ BlockAtLast(r) \/ Fetched(r)
      <3>1. UNCHANGED <<height, Blocks, saves, queueVars>>
        BY <2>3 DEF FetchBlock, BlockAtLast, Fetched
      <3> QED  BY <1>1, <1>3, <2>3, <3>1, FetchesFit
    <2>4. CASE processBlock(r)
      BY <2>4, BatchIInv
    <2> QED  BY <1>5, <2>1, <2>2, <2>3, <2>4
  <1>6. ASSUME NEW b \in saves, Saved(b) PROVE IInv'
    <2>1. /\ UNCHANGED <<height, grabbers, runs, skipped, queueVars>>
          /\ saves' = saves \ {b} /\ Blocks' = Blocks \union {b}
      BY <1>6 DEF Saved
    <2>2. GrabInv'
      BY <1>1, <2>1 DEF GrabInv, ListsInv
    <2> QED  BY <1>3, <2>1, <2>2
  <1> QED  BY <1>2, <1>4, <1>5, <1>6, GrowIInv, ActionIInv, WatchdogIInv, CrashIInv DEF Next

\* The inductive invariant of the grabber and the queue.
THEOREM Inductive == Spec => []IInv
  BY InitIInv, NextIInv, PTL DEF Spec

\* Every variable keeps its type: no grabber or run is out of the bounds of its
\* lists, and no batch, save or action names a block that the chain has not.
THEOREM TypeCorrect == Spec => []TypeOK
  <1>1. ASSUME IInv PROVE TypeOK
    <2>1. /\ GrabInv /\ QueueInv /\ ListsInv /\ height \in Nat /\ height <= MaxHeight
          /\ MaxHeight \in Nat
      BY <1>1, BoundsAssumption DEF IInv, GrabInv, Numbers
    <2>2. ASSUME NEW i \in DOMAIN grabbers
          PROVE  grabbers[i] \in [bypass_wipe : BOOLEAN, connected : BOOLEAN,
                                  currBlockNum : Nat, currBatchMax : Numbers, timers : Nat]
      <3>1. grabbers[i] \in GrabberSet(height)
        BY <2>1, ListFacts
      <3> QED  BY <2>1, <3>1 DEF GrabberSet, Numbers
    <2>3. ASSUME NEW r \in DOMAIN runs PROVE runs[r] \in RunType
      <3> DEFINE O == {"block", "error", "slow"}
      <3>1. runs[r] \in RunSet(Len(grabbers), height) /\ Len(grabbers) \in Nat
        BY <2>1, ListFacts
      <3>2. runs[r].fetched \in Seq(O) /\ runs[r].after \in Nat
            /\ runs[r].after + Len(runs[r].fetched) <= height
        BY <3>1 DEF RunSet
      <3>3. /\ Len(runs[r].fetched) \in Nat
            /\ runs[r].fetched \in [1 .. Len(runs[r].fetched) -> O]
        BY <3>2, LenProperties
      <3>4. PICK n \in Nat : n = Len(runs[r].fetched)
        BY <3>3
      <3>5. n \in 0 .. MaxHeight /\ runs[r].after \in Numbers
        BY <2>1, <3>2, <3>4 DEF Numbers
      <3>6. runs[r].fetched \in SeqOf(O, MaxHeight)
        BY <3>3, <3>4, <3>5 DEF SeqOf
      <3>7. runs[r].of \in 1 .. MaxGrabbers
        <4>1. Len(grabbers) <= MaxGrabbers /\ MaxGrabbers \in Nat
          BY <2>1, BoundsAssumption DEF ListsInv
        <4>2. runs[r].of \in 1 .. Len(grabbers)
          BY <3>1 DEF RunSet
        <4> QED  BY <3>1, <4>1, <4>2
      <3> HIDE DEF O
      <3> QED  BY <3>1, <3>5, <3>6, <3>7 DEF RunSet, RunType, O
    <2> QED  BY <2>1, <2>2, <2>3 DEF GrabInv, QueueInv, TypeOK
  <1> QED  BY <1>1, Inductive, PTL

\* The queue is there "to solve a bug where transactions coming in from the
\* blockgrabber fail to be processed", taken for a race condition: the handlers
\* that write the database run one at a time and in the order they were queued,
\* whatever grabbers feed the queue at once, whichever actions throw, and
\* across restarts.
THEOREM ActionsTakeTurns == Spec => []OneAtATime
  <1>1. IInv => OneAtATime
    BY DEF IInv, QueueInv
  <1> QED  BY <1>1, Inductive, PTL

\* A block that is in the collection, or on its way there, was given to the
\* parser: it took effect, it waits, or it is known to be dropped.  So the
\* next process, which goes on from the highest block saved, passes over no
\* block that nobody ever looked at.
THEOREM SavesWhatIsHanded == Spec => []SavedIsHanded
  <1>1. IInv => SavedIsHanded
    BY DEF IInv
  <1> QED  BY <1>1, Inductive, PTL

-----------------------------------------------------------------------------
(* The order of the database *)

\* The last time the block was handed over, no earlier block followed: it is
\* behind all of them among what was applied and what waits.
Fresh(b) ==
  \/ \E p \in DOMAIN action_que :
       action_que[p] = b /\ \A q \in DOMAIN action_que : q > p => action_que[q] > b
  \/ /\ \A q \in DOMAIN action_que : action_que[q] > b
     /\ \E p \in DOMAIN applied :
          applied[p] = b /\ \A q \in DOMAIN applied : q > p => applied[q] > b

\* Where a run x of grabber g goes on from.
From(x, g) ==
  IF x.at \in {"fetching", "processing"} THEN x.after
  ELSE IF x.at \in {"wiping", "wiped"} THEN StartBlock ELSE g.currBlockNum

\* A grabber is to hand the block over, by its timer or its run.
Near(b) ==
  \/ \E i \in DOMAIN grabbers : grabbers[i].timers > 0 /\ grabbers[i].currBlockNum < b
  \/ \E r \in DOMAIN runs : From(runs[r], Grabber(r)) < b

\* Nothing was begun: the next grabber that connects goes on from block 0.
Untouched ==
  /\ Blocks = {} /\ saves = {} /\ runs = <<>>
  /\ \A i \in DOMAIN grabbers : grabbers[i].timers = 0

\* The block is to be handed over anew, or is known to be missing.
Missed(b) ==
  \/ wipeOnStartup \/ reloadAPI
  \/ \E s \in skipped : s <= b
  \/ b \in dropped \ Range(action_que)

\* The block's place is as the chain has it, or will be.
Settled(b) == Untouched \/ Near(b) \/ Missed(b) \/ Fresh(b)

Ordered == \A b \in Nat : b > StartBlock => Settled(b)

Busy(i) == \E r \in DOMAIN runs : runs[r].of = i

\* A grabber, busy or not: it has a timer or a run, never two, and one that the
\* watchdog started is never ahead of the chain.
OneLoop(g, busy, h) ==
  /\ g.timers <= 1
  /\ busy => g.timers = 0 /\ g.connected
  /\ ~g.connected => g.timers = 0
  /\ g.bypass_wipe /\ (busy \/ g.timers > 0) => g.currBlockNum <= h

\* A run ends where its grabber's batch does.
InBatch(x, g) ==
  /\ x.at \in {"fetching", "processing"} => x.after < g.currBatchMax
  /\ x.at = "fetching" => x.after + Len(x.fetched) <= g.currBatchMax
  /\ x.at = "processing" => x.after + Len(x.fetched) = g.currBatchMax
  /\ x.at \in {"wiping", "wiped"} => MayWipe(g)

OneRunEach == \A r, s \in DOMAIN runs : runs[r].of = runs[s].of => r = s

Loops ==
  /\ \A i \in DOMAIN grabbers : OneLoop(grabbers[i], Busy(i), height)
  /\ OneRunEach
  /\ \A r \in DOMAIN runs : InBatch(runs[r], Grabber(r))

Distinct == \A j, k \in DOMAIN applied : applied[j] = applied[k] => j = k

\* What holds of the order, on top of the types.
OrderInv ==
  /\ {lags, crashes} \subseteq Nat
  /\ Distinct
  /\ lags = 0 => Loops
  /\ Replayed => Ordered

\* The list is the order with a at its end, and without place k where a was.
PutLast(order, list, a, k) ==
  /\ k <= Len(order) => order[k] = a /\ Len(list) = Len(order)
  /\ k > Len(order) => Len(list) = Len(order) + 1 /\ \A i \in 1 .. Len(order) : order[i] # a
  /\ list[Len(list)] = a
  /\ \A i \in 1 .. Len(list) - 1 : /\ i < k => list[i] = order[i]
                                   /\ i >= k => list[i] = order[i + 1]

\* What becomes of the list of applied actions: an earlier time is taken out, and
\* the action put at the end.
LEMMA LaterPlaces ==
  ASSUME NEW S, NEW order \in Seq(S), NEW a \in S
  PROVE  /\ Later(order, a) \in Seq(S)
         /\ \E k \in 1 .. Len(order) + 1 : PutLast(order, Later(order, a), a, k)
  <1> DEFINE I == {i \in 1 .. Len(order) : order[i] = a}
  <1>1. Len(order) \in Nat /\ DOMAIN order = 1 .. Len(order)
    BY LenProperties
  <1>2. ASSUME NEW rest \in Seq(S)
        PROVE  /\ Append(rest, a) \in Seq(S) /\ Len(Append(rest, a)) = Len(rest) + 1
               /\ \A i \in 1 .. Len(rest) : Append(rest, a)[i] = rest[i]
               /\ Append(rest, a)[Len(rest) + 1] = a
               /\ Len(rest) \in Nat
    BY AppendProperties, LenProperties
  <1>3. PICK rest : rest = RemoveFirst(order, a)
    OBVIOUS
  <1>4. PICK l : l = Append(rest, a)
    OBVIOUS
  <1>5. Later(order, a) = l
    BY <1>3, <1>4 DEF Later
  <1>6. CASE I = {}
    <2>1. rest = order /\ \A i \in 1 .. Len(order) : order[i] # a
      BY <1>3, <1>6 DEF RemoveFirst
    <2>2. /\ l \in Seq(S) /\ Len(l) = Len(order) + 1 /\ l[Len(l)] = a
          /\ \A i \in 1 .. Len(l) - 1 : l[i] = order[i]
      BY <1>1, <1>2, <1>4, <2>1
    <2>3. PICK k : k = Len(order) + 1
      OBVIOUS
    <2>4. /\ k \in 1 .. Len(order) + 1 /\ ~(k <= Len(order))
          /\ \A i \in 1 .. Len(l) - 1 : i < k
      BY <1>1, <2>2, <2>3
    <2>5. \A i \in 1 .. Len(l) - 1 : i < k /\ ~(i >= k) /\ l[i] = order[i]
      BY <1>1, <2>2, <2>3
    <2> HIDE DEF I
    <2>6. PutLast(order, l, a, k)
      BY <2>1, <2>2, <2>3, <2>4, <2>5 DEF PutLast
    <2> QED  BY <1>5, <2>2, <2>4, <2>6
  <1>7. CASE I # {}
    <2>1. Min(I) \in I
      <3>1. I \in SUBSET Nat
        BY <1>1
      <3> HIDE DEF I
      <3>2. \E x \in I : \A y \in I : x <= y
        BY <1>7, <3>1, LeastNatural
      <3> QED  BY <3>2 DEF Min
    <2>2. rest = RemoveAt(order, Min(I))
      BY <1>3, <1>7 DEF RemoveFirst, SelectInSeq
    <2>3. PICK k \in DOMAIN order : k = Min(I) /\ order[k] = a
      BY <1>1, <2>1
    <2>4. /\ rest \in Seq(S) /\ Len(rest) = Len(order) - 1
          /\ \A i \in 1 .. Len(order) - 1 :
               rest[i] = IF i < k THEN order[i] ELSE order[i + 1]
      BY <2>2, <2>3, RemoveAtFacts
    <2> HIDE DEF I
    <2>5. /\ l \in Seq(S) /\ Len(l) = Len(order) /\ l[Len(l)] = a
          /\ \A i \in 1 .. Len(l) - 1 : l[i] = rest[i]
      <3>1. rest \in Seq(S) /\ Len(rest) = Len(order) - 1
        BY <2>4
      <3>2. /\ l \in Seq(S) /\ Len(l) = Len(rest) + 1
            /\ \A i \in 1 .. Len(rest) : l[i] = rest[i]
            /\ l[Len(rest) + 1] = a
        BY <1>2, <1>4, <3>1
      <3> QED  BY <1>1, <3>1, <3>2
    <2>6. k \in 1 .. Len(order) + 1 /\ k <= Len(order) /\ order[k] = a
      BY <1>1, <2>3
    <2>7. \A i \in 1 .. Len(l) - 1 : /\ i < k => l[i] = order[i]
                                     /\ i >= k => l[i] = order[i + 1]
      BY <1>1, <2>3, <2>4, <2>5
    <2>8. PutLast(order, l, a, k)
      <3>1. ~(k > Len(order))
        BY <1>1, <2>6
      <3>2. l[Len(l)] = a /\ Len(l) = Len(order)
        BY <2>5
      <3> QED  BY <2>6, <2>7, <3>1, <3>2 DEF PutLast
    <2> QED  BY <1>5, <2>5, <2>6, <2>8
  <1> QED  BY <1>6, <1>7

\* The action that settles was the first of the queue.
LEMMA FirstMovesOn ==
  ASSUME QueueInv, NEW k \in DOMAIN executing, MoveOn(k)
  PROVE  /\ DOMAIN action_que = 1 .. Len(action_que) /\ Len(action_que) \in Nat \ {0}
         /\ executing[k] = action_que[1]
         /\ DOMAIN action_que' = 1 .. Len(action_que) - 1
         /\ \A i \in 1 .. Len(action_que) - 1 : action_que'[i] = action_que[i + 1]
         /\ \A i \in 1 .. Len(action_que) : action_que[i] \in Nat
  <1> DEFINE S == 1 .. height
  <1>1. /\ action_que \in Seq(S) /\ executing \in Seq(S)
        /\ Len(executing) <= 1
        /\ executing # <<>> => action_que # <<>> /\ executing[1] = Head(action_que)
    BY DEF QueueInv, OneAtATime
  <1>2. S \subseteq Nat
    OBVIOUS
  <1> HIDE DEF S
  <1>3. /\ Len(executing) \in Nat /\ DOMAIN executing = 1 .. Len(executing)
        /\ Len(action_que) \in Nat /\ DOMAIN action_que = 1 .. Len(action_que)
        /\ \A i \in 1 .. Len(action_que) : action_que[i] \in S
    BY <1>1, LenProperties, ElementOfSeq
  <1>4. k = 1 /\ executing # <<>>
    BY <1>1, <1>3
  <1>5. /\ action_que # <<>> /\ executing[k] = action_que[1]
        /\ Tail(action_que) \in Seq(S) /\ Len(Tail(action_que)) = Len(action_que) - 1
        /\ \A i \in 1 .. Len(Tail(action_que)) : Tail(action_que)[i] = action_que[i + 1]
    BY <1>1, <1>4, HeadTailProperties
  <1>6. action_que' = Tail(action_que)
    BY <1>5 DEF MoveOn, executeActionQue
  <1>7. Len(action_que) # 0
    BY <1>1, <1>5, EmptySeq
  <1>8. DOMAIN Tail(action_que) = 1 .. Len(Tail(action_que))
    BY <1>5, LenProperties
  <1> QED  BY <1>2, <1>3, <1>5, <1>6, <1>7, <1>8

\* Where the entries of a sequence are once the one at place c is taken out.
LEMMA PlacesMove ==
  ASSUME NEW n \in Nat, NEW m \in Nat, NEW f, NEW g, NEW c \in 1 .. n + 1,
         c <= n => m = n, c > n => m = n + 1,
         \A i \in 1 .. m - 1 : (i < c => g[i] = f[i]) /\ (i >= c => g[i] = f[i + 1])
  PROVE  /\ \A i \in 1 .. m - 1 : \E j \in 1 .. n :
              j # c /\ g[i] = f[j] /\ (i < c => j = i) /\ (i >= c => j = i + 1)
         /\ \A j \in 1 .. n : j # c => \E i \in 1 .. m - 1 :
              g[i] = f[j] /\ (i < c => j = i) /\ (i >= c => j = i + 1)
  <1>1. ASSUME NEW i \in 1 .. m - 1, i < c
        PROVE  i \in 1 .. n /\ g[i] = f[i]
    BY <1>1
  <1>2. ASSUME NEW i \in 1 .. m - 1, i >= c
        PROVE  i + 1 \in 1 .. n /\ g[i] = f[i + 1]
    BY <1>2
  <1>3. ASSUME NEW j \in 1 .. n, j < c
        PROVE  j \in 1 .. m - 1 /\ g[j] = f[j]
    BY <1>3
  <1>4. ASSUME NEW j \in 1 .. n, j > c
        PROVE  j - 1 \in 1 .. m - 1 /\ ~(j - 1 < c) /\ g[j - 1] = f[j]
    BY <1>4
  <1>5. ASSUME NEW i \in 1 .. m - 1
        PROVE  \E j \in 1 .. n : j # c /\ g[i] = f[j] /\ (i < c => j = i) /\ (i >= c => j = i + 1)
    <2>1. CASE i < c
      BY <1>1, <2>1
    <2>2. CASE i >= c
      BY <1>2, <2>2
    <2> QED  BY <2>1, <2>2
  <1>6. ASSUME NEW j \in 1 .. n, j # c
        PROVE  \E i \in 1 .. m - 1 : g[i] = f[j] /\ (i < c => j = i) /\ (i >= c => j = i + 1)
    <2>1. CASE j < c
      BY <1>3, <2>1
    <2>2. CASE j > c
      BY <1>4, <2>2
    <2> QED  BY <1>6, <2>1, <2>2
  <1> QED  BY <1>5, <1>6

\* An action that took effect, or was dropped, leaves the order as it was meant to
\* be, and no action is in the list twice.
LEMMA ActionsKeepOrder ==
  ASSUME IInv, Distinct, NEW k \in DOMAIN executing, ActionDone(k) \/ ActionFails(k)
  PROVE  /\ Distinct'
         /\ \A b \in Nat : Missed(b) \/ Fresh(b) => Missed(b)' \/ Fresh(b)'
  <1> DEFINE h == executing[k]
             n == Len(action_que)
  <1>1. /\ QueueInv /\ MoveOn(k) /\ UNCHANGED <<skipped, wipeOnStartup, reloadAPI>>
    BY DEF IInv, ActionDone, ActionFails, grabVars, Finish, Reject
  <1>2. /\ DOMAIN action_que = 1 .. n /\ n \in Nat \ {0} /\ h = action_que[1]
        /\ DOMAIN action_que' = 1 .. n - 1
        /\ \A i \in 1 .. n - 1 : action_que'[i] = action_que[i + 1]
        /\ \A i \in 1 .. n : action_que[i] \in Nat
    BY <1>1, FirstMovesOn
  <1>0. PICK S : S = 1 .. height
    OBVIOUS
  <1>3. applied \in Seq(S) /\ h \in S
    BY <1>0, <1>1, ElementOfSeq, LenProperties DEF QueueInv
  <1>4. PICK n2 \in Nat : n2 = Len(applied) /\ DOMAIN applied = 1 .. n2
    BY <1>3, LenProperties
  <1> HIDE DEF h, n
  <1>5. /\ \A i \in DOMAIN action_que' : i + 1 \in DOMAIN action_que /\ action_que'[i] = action_que[i + 1]
        /\ \A i \in DOMAIN action_que : i > 1 =>
             i - 1 \in DOMAIN action_que' /\ action_que'[i - 1] = action_que[i]
        /\ 1 \in DOMAIN action_que
    <2>1. ASSUME NEW i \in DOMAIN action_que'
          PROVE  i + 1 \in DOMAIN action_que /\ action_que'[i] = action_que[i + 1]
      BY <1>2
    <2>2. ASSUME NEW i \in DOMAIN action_que, i > 1
          PROVE  i - 1 \in DOMAIN action_que' /\ action_que'[i - 1] = action_que[i]
      <3>1. i - 1 \in 1 .. n - 1 /\ i - 1 + 1 = i
        BY <1>2, <2>2
      <3> QED  BY <1>2, <3>1
    <2>3. 1 \in DOMAIN action_que
      BY <1>2
    <2> QED  BY <2>1, <2>2, <2>3
  <1>6. Range(action_que') \subseteq Range(action_que) /\ h \in Range(action_que)
    <2>1. ASSUME NEW x \in Range(action_que') PROVE x \in Range(action_que)
      BY <1>5, <2>1 DEF Range
    <2> QED  BY <1>2, <1>5, <2>1 DEF Range
  <1>7. ASSUME NEW b \in Nat, NEW p \in DOMAIN action_que, p > 1, action_que[p] = b,
               \A q \in DOMAIN action_que : q > p => action_que[q] > b
        PROVE  Fresh(b)'
    <2>1. p - 1 \in DOMAIN action_que' /\ action_que'[p - 1] = b
      BY <1>5, <1>7
    <2>2. \A q \in DOMAIN action_que' : q > p - 1 => action_que'[q] > b
      BY <1>2, <1>5, <1>7
    <2> QED  BY <2>1, <2>2 DEF Fresh
  <1>8. ASSUME NEW b \in Nat, wipeOnStartup \/ reloadAPI \/ \E s \in skipped : s <= b
        PROVE  Missed(b)'
    BY <1>1, <1>8 DEF Missed
  <1>9. ASSUME NEW b \in Nat, Fresh(b)
         PROVE  \/ action_que[1] = b /\ \A q \in DOMAIN action_que : q > 1 => action_que[q] > b
                \/ \E p \in DOMAIN action_que :
                     p > 1 /\ action_que[p] = b /\ \A q \in DOMAIN action_que : q > p => action_que[q] > b
                \/ /\ \A q \in DOMAIN action_que : action_que[q] > b
                   /\ \E p \in DOMAIN applied :
                        applied[p] = b /\ \A q \in DOMAIN applied : q > p => applied[q] > b
    <2>1. ASSUME NEW p \in DOMAIN action_que PROVE p = 1 \/ p > 1
      BY <1>2
    <2> QED  BY <1>9, <2>1 DEF Fresh
  <1>10. CASE ActionDone(k)
    <2>1. applied' = Later(applied, h) /\ dropped' = dropped \ {h}
      BY <1>10 DEF ActionDone, Finish, h
    <2>2. PICK l : l = Later(applied, h)
      OBVIOUS
    <2>3. /\ l \in Seq(S) /\ \E c \in 1 .. Len(applied) + 1 : PutLast(applied, l, h, c)
      BY <1>3, <2>2, LaterPlaces
    <2>4. PICK m \in Nat : m = Len(l) /\ DOMAIN l = 1 .. m
      BY <2>3, LenProperties
    <2>5. PICK c \in 1 .. n2 + 1 : PutLast(applied, l, h, c)
      BY <1>4, <2>3
    <2>6. /\ c <= n2 => applied[c] = h /\ m = n2
          /\ c > n2 => m = n2 + 1 /\ \A i \in 1 .. n2 : applied[i] # h
          /\ l[m] = h /\ m > 0 /\ m \in 1 .. m
      BY <1>4, <2>4, <2>5 DEF PutLast
    <2>7. /\ \A i \in 1 .. m - 1 : \E j \in 1 .. n2 :
               j # c /\ l[i] = applied[j] /\ (i < c => j = i) /\ (i >= c => j = i + 1)
          /\ \A j \in 1 .. n2 : j # c => \E i \in 1 .. m - 1 :
               l[i] = applied[j] /\ (i < c => j = i) /\ (i >= c => j = i + 1)
      <3>1. \A i \in 1 .. m - 1 : (i < c => l[i] = applied[i]) /\ (i >= c => l[i] = applied[i + 1])
        BY <2>4, <2>5 DEF PutLast
      <3>2. (c <= n2 => m = n2) /\ (c > n2 => m = n2 + 1)
        BY <2>6
      <3> QED  BY SMTT(30), <3>1, <3>2, PlacesMove
    <2>8. \A j \in 1 .. n2 : j # c => applied[j] # h
      <3>1. CASE c <= n2
        BY <1>4, <2>6, <3>1 DEF Distinct
      <3> QED  BY <1>4, <2>6, <3>1
    <2>9. Distinct'
      <3> SUFFICES ASSUME NEW i \in 1 .. m, NEW j \in 1 .. m, l[i] = l[j] PROVE i = j
        BY <2>1, <2>2, <2>4 DEF Distinct
      <3>1. CASE i = m \/ j = m
        <4>1. ASSUME NEW x \in 1 .. m, x # m PROVE l[x] # h
          <5>1. x \in 1 .. m - 1
            BY <4>1
          <5> QED  BY <2>7, <2>8, <5>1
        <4> QED  BY <2>6, <3>1, <4>1
      <3>2. CASE i # m /\ j # m
        <4>1. i \in 1 .. m - 1 /\ j \in 1 .. m - 1
          BY <2>4, <3>2
        <4>2. PICK x \in 1 .. n2 : l[i] = applied[x] /\ (i < c => x = i) /\ (i >= c => x = i + 1)
          BY <2>7, <4>1
        <4>3. PICK y \in 1 .. n2 : l[j] = applied[y] /\ (j < c => y = j) /\ (j >= c => y = j + 1)
          BY <2>7, <4>1
        <4>4. x = y
          BY <1>4, <4>2, <4>3 DEF Distinct
        <4> QED  BY <2>4, <4>2, <4>3, <4>4
      <3> QED  BY <3>1, <3>2
    <2>10. ASSUME NEW b \in Nat, Missed(b) PROVE Missed(b)'
      BY <1>6, <1>8, <2>1, <2>10 DEF Missed
    <2>11. ASSUME NEW b \in Nat, Fresh(b) PROVE Fresh(b)'
      <3>1. ASSUME action_que[1] = b, \A q \in DOMAIN action_que : q > 1 => action_que[q] > b
            PROVE  Fresh(b)'
        <4>1. \A q \in DOMAIN action_que' : action_que'[q] > b
          BY <1>2, <1>5, <3>1
        <4>2. m \in DOMAIN l /\ l[m] = b /\ \A q \in DOMAIN l : ~(q > m)
          BY <1>2, <1>4, <2>6, <2>4, <3>1
        <4> QED  BY <2>1, <2>2, <4>1, <4>2 DEF Fresh
      <3>2. ASSUME \A q \in DOMAIN action_que : action_que[q] > b,
                   NEW p \in DOMAIN applied, applied[p] = b,
                   \A q \in DOMAIN applied : q > p => applied[q] > b
            PROVE  Fresh(b)'
        <4>1. \A q \in DOMAIN action_que' : action_que'[q] > b
          BY <1>5, <3>2
        <4>2. h > b /\ p # c
          <5>1. h > b /\ h \in Nat
            BY <1>2, <1>5, <3>2
          <5>2. p \in 1 .. n2 /\ h # b
            BY <1>4, <3>2, <5>1
          <5> QED  BY <2>6, <3>2, <5>1, <5>2
        <4>3. PICK i \in 1 .. m - 1 : l[i] = b /\ (i < c => p = i) /\ (i >= c => p = i + 1)
          BY <1>4, <2>7, <3>2, <4>2
        <4>4. ASSUME NEW q \in DOMAIN l, q > i PROVE l[q] > b
          <5>1. CASE q = m
            BY <2>6, <4>2, <5>1
          <5>2. CASE q # m
            <6>1. PICK y \in 1 .. n2 : l[q] = applied[y] /\ (q < c => y = q) /\ (q >= c => y = q + 1)
              <7>1. q \in 1 .. m - 1
                BY <2>4, <5>2
              <7> QED  BY <2>7, <7>1
            <6>2. y > p
              BY <2>4, <4>3, <4>4, <6>1
            <6> QED  BY <1>4, <3>2, <6>1, <6>2
          <5> QED  BY <5>1, <5>2
        <4>5. i \in DOMAIN l
          BY <2>4, <4>3
        <4> QED  BY <2>1, <2>2, <4>1, <4>3, <4>4, <4>5 DEF Fresh
      <3> QED  BY <1>7, <2>11, <3>1, <3>2, <1>9
    <2> QED  BY <2>9, <2>10, <2>11
  <1>11. CASE ActionFails(k)
    <2>1. applied' = applied /\ dropped' = dropped \union {h}
      BY <1>11 DEF ActionFails, Reject, h
    <2>2. ASSUME NEW b \in Nat, Missed(b) PROVE Missed(b)'
      BY <1>6, <1>8, <2>1, <2>2 DEF Missed
    <2>3. ASSUME NEW b \in Nat, Fresh(b) PROVE Missed(b)' \/ Fresh(b)'
      <3>1. ASSUME action_que[1] = b, \A q \in DOMAIN action_que : q > 1 => action_que[q] > b
            PROVE  Missed(b)'
        <4>1. ASSUME NEW q \in DOMAIN action_que' PROVE action_que'[q] # b
          <5>1. q + 1 > 1 /\ q + 1 \in DOMAIN action_que /\ action_que'[q] = action_que[q + 1]
            BY <1>2, <1>5
          <5>2. action_que[q + 1] > b /\ action_que[q + 1] \in Nat
            BY <1>2, <3>1, <5>1
          <5> QED  BY <2>3, <5>1, <5>2
        <4> QED  BY <1>2, <2>1, <3>1, <4>1 DEF Missed, Range
      <3>2. ASSUME \A q \in DOMAIN action_que : action_que[q] > b,
                   NEW p \in DOMAIN applied, applied[p] = b,
                   \A q \in DOMAIN applied : q > p => applied[q] > b
            PROVE  Fresh(b)'
        <4>1. \A q \in DOMAIN action_que' : action_que'[q] > b
          BY <1>5, <3>2
        <4> QED  BY <2>1, <3>2, <4>1 DEF Fresh
      <3> QED  BY <1>7, <2>3, <3>1, <3>2, <1>9
    <2> QED  BY <2>1, <2>2, <2>3 DEF Distinct
  <1> QED  BY <1>10, <1>11

\* A block that is queued is behind all others, and those before it stay in order.
LEMMA AddingKeepsOrder ==
  ASSUME QueueInv, NEW a \in 1 .. height, addToActionQue(a)
  PROVE  /\ Fresh(a)'
         /\ \A b \in Nat : b < a /\ Fresh(b) => Fresh(b)'
  <1>1. action_que' = Append(action_que, a) /\ applied' = applied
    BY DEF addToActionQue, executeActionQue
  <1>0. PICK S : S = 1 .. height
    OBVIOUS
  <1>2. action_que \in Seq(S) /\ a \in S
    BY <1>0 DEF QueueInv
  <1>3. PICK n \in Nat : n = Len(action_que) /\ DOMAIN action_que = 1 .. n
    BY <1>2, LenProperties
  <1>4. PICK q2 : q2 = Append(action_que, a)
    OBVIOUS
  <1>5. /\ q2 \in Seq(S) /\ Len(q2) = Len(action_que) + 1
        /\ \A i \in 1 .. Len(action_que) : q2[i] = action_que[i]
        /\ q2[Len(action_que) + 1] = a
    BY <1>2, <1>4, AppendProperties
  <1>6. /\ DOMAIN q2 = 1 .. n + 1 /\ q2[n + 1] = a
        /\ \A i \in 1 .. n : q2[i] = action_que[i]
    BY <1>3, <1>5, LenProperties
  <1>7. action_que' = q2
    BY <1>1, <1>4
  <1>8. Fresh(a)'
    <2>1. n + 1 \in DOMAIN q2 /\ \A q \in DOMAIN q2 : ~(q > n + 1)
      BY <1>6
    <2> QED  BY <1>6, <1>7, <2>1 DEF Fresh
  <1>9. ASSUME NEW b \in Nat, b < a, Fresh(b) PROVE Fresh(b)'
    <2>1. ASSUME NEW p \in DOMAIN action_que, action_que[p] = b,
                 \A q \in DOMAIN action_que : q > p => action_que[q] > b
          PROVE  Fresh(b)'
      <3>1. p \in DOMAIN q2 /\ q2[p] = b
        BY <1>3, <1>6, <2>1
      <3>2. ASSUME NEW q \in DOMAIN q2, q > p PROVE q2[q] > b
        <4>1. CASE q = n + 1
          BY <1>6, <1>9, <4>1
        <4>2. CASE q # n + 1
          <5>1. q \in 1 .. n
            BY <1>6, <4>2
          <5> QED  BY <1>3, <1>6, <2>1, <3>2, <5>1
        <4> QED  BY <4>1, <4>2
      <3> QED  BY <1>7, <3>1, <3>2 DEF Fresh
    <2>2. ASSUME \A q \in DOMAIN action_que : action_que[q] > b,
                 \E p \in DOMAIN applied :
                   applied[p] = b /\ \A q \in DOMAIN applied : q > p => applied[q] > b
          PROVE  Fresh(b)'
      <3>1. ASSUME NEW q \in DOMAIN q2 PROVE q2[q] > b
        <4>1. CASE q = n + 1
          BY <1>6, <1>9, <4>1
        <4>2. CASE q # n + 1
          <5>1. q \in 1 .. n
            BY <1>6, <4>2
          <5> QED  BY <1>3, <1>6, <2>2, <5>1
        <4> QED  BY <4>1, <4>2
      <3> QED  BY <1>1, <1>7, <2>2, <3>1 DEF Fresh
    <2> QED  BY <1>9, <2>1, <2>2 DEF Fresh
  <1> QED  BY <1>8, <1>9

-----------------------------------------------------------------------------
(* One grabber's turn *)

\* Grabber i becomes g, and is busy with run x or not at all; the others' runs
\* go on.
Turn(i, g, busy, x) ==
  /\ grabbers' = [grabbers EXCEPT ![i] = g]
  /\ OneRunEach'
  /\ \A k \in DOMAIN runs' : IF runs'[k].of = i THEN busy /\ runs'[k] = x
                                                ELSE \E r \in DOMAIN runs : runs[r] = runs'[k]
  /\ \A r \in DOMAIN runs : runs[r].of # i => \E k \in DOMAIN runs' : runs'[k] = runs[r]
  /\ busy => \E k \in DOMAIN runs' : runs'[k] = x /\ x.of = i

\* A grabber g with run x, or without, is to hand over block b.
Covers(g, busy, x, b) ==
  \/ g.timers > 0 /\ g.currBlockNum < b
  \/ busy /\ From(x, g) < b

\* So is grabber i.
Covered(i, b) ==
  \/ grabbers[i].timers > 0 /\ grabbers[i].currBlockNum < b
  \/ \E r \in DOMAIN runs : runs[r].of = i /\ From(runs[r], Grabber(r)) < b

\* A turn that leaves its grabber in order leaves all in order, and what the
\* grabber was to hand over is all that can be lost.
LEMMA TurnKeeps ==
  ASSUME ListsInv, ListsInv', Loops, UNCHANGED height,
         NEW i \in DOMAIN grabbers, NEW g, NEW busy \in BOOLEAN, NEW x, Turn(i, g, busy, x),
         OneLoop(g, busy, height), busy => InBatch(x, g)
  PROVE  /\ Loops'
         /\ \A b \in Nat : /\ Covers(g, busy, x, b) => Near(b)'
                           /\ Near(b) => Near(b)' \/ Covered(i, b)
  <1>1. /\ DOMAIN grabbers' = DOMAIN grabbers /\ grabbers'[i] = g
        /\ \A j \in DOMAIN grabbers : j # i => grabbers'[j] = grabbers[j]
    BY ListFacts DEF Turn
  <1>2. /\ \A r \in DOMAIN runs : runs[r].of \in DOMAIN grabbers /\ Grabber(r) = grabbers[runs[r].of]
        /\ \A k \in DOMAIN runs' : /\ runs'[k].of \in DOMAIN grabbers
                                   /\ Grabber(k)' = grabbers'[runs'[k].of]
    <2>1. ASSUME NEW k \in DOMAIN runs' PROVE runs'[k].of \in DOMAIN grabbers'
      <3>1. /\ runs' \in Seq(RunSet(Len(grabbers'), height'))
            /\ grabbers' \in Seq(GrabberSet(height'))
        BY DEF ListsInv
      <3>2. runs'[k] \in RunSet(Len(grabbers'), height')
        BY <3>1, LenProperties, ElementOfSeq
      <3>3. DOMAIN grabbers' = 1 .. Len(grabbers')
        BY <3>1, LenProperties
      <3> QED  BY <3>2, <3>3 DEF RunSet
    <2> QED  BY <1>1, <2>1, ListFacts DEF Grabber
  <1>3. ASSUME NEW k \in DOMAIN runs', runs'[k].of = i
        PROVE  busy /\ runs'[k] = x /\ Grabber(k)' = g
    BY <1>1, <1>2, <1>3 DEF Turn
  <1>4. ASSUME NEW k \in DOMAIN runs', runs'[k].of # i
        PROVE  \E r \in DOMAIN runs : runs[r] = runs'[k] /\ Grabber(r) = Grabber(k)'
    <2>1. PICK r \in DOMAIN runs : runs[r] = runs'[k]
      BY <1>4 DEF Turn
    <2> QED  BY <1>1, <1>2, <1>4, <2>1
  <1>5. ASSUME NEW r \in DOMAIN runs, runs[r].of # i
        PROVE  \E k \in DOMAIN runs' : runs'[k] = runs[r] /\ Grabber(k)' = Grabber(r)
    <2>1. PICK k \in DOMAIN runs' : runs'[k] = runs[r]
      BY <1>5 DEF Turn
    <2> QED  BY <1>1, <1>2, <1>5, <2>1
  <1>6. ASSUME busy PROVE \E k \in DOMAIN runs' : runs'[k] = x /\ runs'[k].of = i /\ Grabber(k)' = g
    <2>1. PICK k \in DOMAIN runs' : runs'[k] = x /\ x.of = i
      BY <1>6 DEF Turn
    <2> QED  BY <1>3, <2>1
  <1>7. ASSUME NEW j \in DOMAIN grabbers' PROVE OneLoop(grabbers'[j], Busy(j)', height')
    <2>1. CASE j = i
      <3>1. Busy(j)' = busy
        BY <1>3, <1>6, <2>1 DEF Busy
      <3> QED  BY <1>1, <2>1, <3>1
    <2>2. CASE j # i
      <3>1. Busy(j)' = Busy(j)
        BY <1>4, <1>5, <2>2 DEF Busy
      <3>2. OneLoop(grabbers[j], Busy(j), height)
        BY <1>1 DEF Loops
      <3> QED  BY <1>1, <2>2, <3>1, <3>2
    <2> QED  BY <2>1, <2>2
  <1>8. ASSUME NEW k \in DOMAIN runs' PROVE InBatch(runs'[k], Grabber(k)')
    <2>1. CASE runs'[k].of = i
      BY <1>3, <2>1
    <2>2. CASE runs'[k].of # i
      <3>1. PICK r \in DOMAIN runs : runs[r] = runs'[k] /\ Grabber(r) = Grabber(k)'
        BY <1>4, <2>2
      <3>2. InBatch(runs[r], Grabber(r))
        BY DEF Loops
      <3> QED  BY <3>1, <3>2
    <2> QED  BY <2>1, <2>2
  <1>9. Loops'
    <2>1. OneRunEach'
      BY DEF Turn
    <2> QED  BY <1>7, <1>8, <2>1 DEF Loops
  <1>10. ASSUME NEW b \in Nat, Covers(g, busy, x, b) PROVE Near(b)'
    <2>1. CASE g.timers > 0 /\ g.currBlockNum < b
      BY <1>1, <2>1 DEF Near
    <2>2. CASE busy /\ From(x, g) < b
      <3>1. PICK k \in DOMAIN runs' : runs'[k] = x /\ Grabber(k)' = g
        BY <1>6, <2>2
      <3>2. From(runs'[k], Grabber(k)') < b
        BY <2>2, <3>1
      <3> QED  BY <3>2 DEF Near
    <2> QED  BY <1>10, <2>1, <2>2 DEF Covers
  <1>11. ASSUME NEW b \in Nat, Near(b), ~Covered(i, b) PROVE Near(b)'
    <2>1. ASSUME NEW j \in DOMAIN grabbers, grabbers[j].timers > 0 /\ grabbers[j].currBlockNum < b
          PROVE  Near(b)'
      <3>1. j # i
        BY <1>11, <2>1 DEF Covered
      <3> QED  BY <1>1, <2>1, <3>1 DEF Near
    <2>2. ASSUME NEW r \in DOMAIN runs, From(runs[r], Grabber(r)) < b PROVE Near(b)'
      <3>1. runs[r].of # i
        BY <1>11, <2>2 DEF Covered
      <3>2. PICK k \in DOMAIN runs' : runs'[k] = runs[r] /\ Grabber(k)' = Grabber(r)
        BY <1>5, <3>1
      <3>3. From(runs'[k], Grabber(k)') < b
        BY <2>2, <3>2
      <3> QED  BY <3>3 DEF Near
    <2> QED  BY <1>11, <2>1, <2>2 DEF Near
  <1> QED  BY <1>9, <1>10, <1>11

\* The run of grabber i ends.
LEMMA RunEnds ==
  ASSUME ListsInv, OneRunEach, NEW r \in DOMAIN runs, NEW g, NEW x, EndRun(r, g)
  PROVE  Turn(runs[r].of, g, FALSE, x)
  <1>1. PICK S : S = RunSet(Len(grabbers), height)
    OBVIOUS
  <1>2. PICK n \in Nat : n = Len(runs) /\ DOMAIN runs = 1 .. n
    BY LenProperties DEF ListsInv
  <1>3. PICK l : l = RemoveAt(runs, r)
    OBVIOUS
  <1>4. /\ l \in Seq(S) /\ Len(l) = n - 1
        /\ \A k \in 1 .. n - 1 : l[k] = IF k < r THEN runs[k] ELSE runs[k + 1]
    BY <1>1, <1>2, <1>3, RemoveAtFacts DEF ListsInv
  <1>5. DOMAIN l = 1 .. n - 1
    BY <1>4, LenProperties
  <1>6. runs' = l /\ grabbers' = [grabbers EXCEPT ![runs[r].of] = g]
    BY <1>3 DEF EndRun
  <1>7. ASSUME NEW k \in DOMAIN l
        PROVE  \E j \in DOMAIN runs : j # r /\ l[k] = runs[j] /\ (k < r => j = k)
                                      /\ (k >= r => j = k + 1)
    <2>1. CASE k < r
      BY <1>2, <1>4, <1>5, <2>1
    <2>2. CASE k >= r
      <3>1. k + 1 \in 1 .. n /\ ~(k < r)
        BY <1>2, <1>5, <2>2
      <3> QED  BY <1>2, <1>4, <1>5, <3>1
    <2> QED  BY <1>2, <1>5, <2>1, <2>2
  <1>8. ASSUME NEW j \in DOMAIN runs, j # r PROVE \E k \in DOMAIN l : l[k] = runs[j]
    <2>1. CASE j < r
      BY <1>2, <1>4, <1>5, <2>1
    <2>2. CASE j > r
      <3>1. j - 1 \in 1 .. n - 1 /\ ~(j - 1 < r) /\ j - 1 + 1 = j
        BY <1>2, <2>2
      <3> QED  BY <1>2, <1>4, <1>5, <3>1
    <2> QED  BY <1>2, <1>8, <2>1, <2>2
  <1>9. ASSUME NEW k \in DOMAIN l PROVE l[k].of # runs[r].of /\ \E j \in DOMAIN runs : runs[j] = l[k]
    BY <1>7 DEF OneRunEach
  <1>10. OneRunEach'
    <2>1. ASSUME NEW k \in DOMAIN l, NEW m \in DOMAIN l, l[k].of = l[m].of PROVE k = m
      <3>1. PICK j \in DOMAIN runs : l[k] = runs[j] /\ (k < r => j = k) /\ (k >= r => j = k + 1)
                                     /\ j # r
        BY <1>7
      <3>2. PICK q \in DOMAIN runs : l[m] = runs[q] /\ (m < r => q = m) /\ (m >= r => q = m + 1)
                                     /\ q # r
        BY <1>7
      <3>3. j = q
        BY <2>1, <3>1, <3>2 DEF OneRunEach
      <3> QED  BY <1>2, <1>5, <3>1, <3>2, <3>3
    <2> QED  BY <1>6, <2>1 DEF OneRunEach
  <1>11. \A j \in DOMAIN runs : runs[j].of # runs[r].of => \E k \in DOMAIN l : l[k] = runs[j]
    BY <1>8
  <1> QED  BY <1>6, <1>9, <1>10, <1>11 DEF Turn

\* The run of grabber i goes on as x.
LEMMA RunGoesOn ==
  ASSUME OneRunEach, NEW r \in DOMAIN runs, NEW g, NEW x, x.of = runs[r].of,
         runs' = [runs EXCEPT ![r] = x], grabbers' = [grabbers EXCEPT ![runs[r].of] = g]
  PROVE  Turn(runs[r].of, g, TRUE, x)
  <1>1. /\ DOMAIN runs' = DOMAIN runs /\ runs'[r] = x
        /\ \A k \in DOMAIN runs : k # r => runs'[k] = runs[k]
    OBVIOUS
  <1>2. \A k \in DOMAIN runs : runs'[k].of = runs[k].of
    BY <1>1
  <1>3. OneRunEach'
    BY <1>1, <1>2 DEF OneRunEach
  <1>4. ASSUME NEW k \in DOMAIN runs'
        PROVE  IF runs'[k].of = runs[r].of THEN runs'[k] = x
                                           ELSE \E j \in DOMAIN runs : runs[j] = runs'[k]
    BY <1>1, <1>2 DEF OneRunEach
  <1>5. \A j \in DOMAIN runs : runs[j].of # runs[r].of => \E k \in DOMAIN runs' : runs'[k] = runs[j]
    BY <1>1
  <1> QED  BY <1>1, <1>3, <1>4, <1>5 DEF Turn

\* Grabber i, which has no run, changes.
LEMMA StaysIdle ==
  ASSUME OneRunEach, NEW i, ~Busy(i), NEW g, NEW x,
         UNCHANGED runs, grabbers' = [grabbers EXCEPT ![i] = g]
  PROVE  Turn(i, g, FALSE, x)
  <1>1. OneRunEach'
    BY DEF OneRunEach
  <1> QED  BY <1>1 DEF Turn, Busy

\* Grabber i, which has no run, begins run x.
LEMMA RunBegins ==
  ASSUME ListsInv, OneRunEach, NEW i, ~Busy(i), NEW g,
         NEW x \in RunSet(Len(grabbers), height), x.of = i,
         runs' = Append(runs, x), grabbers' = [grabbers EXCEPT ![i] = g]
  PROVE  Turn(i, g, TRUE, x)
  <1>1. PICK S : S = RunSet(Len(grabbers), height)
    OBVIOUS
  <1>2. PICK n \in Nat : n = Len(runs) /\ DOMAIN runs = 1 .. n
    BY LenProperties DEF ListsInv
  <1>3. PICK l : l = Append(runs, x)
    OBVIOUS
  <1>4. /\ l \in Seq(S) /\ Len(l) = n + 1
        /\ \A k \in 1 .. n : l[k] = runs[k]
        /\ l[n + 1] = x
    BY <1>1, <1>2, <1>3, AppendProperties DEF ListsInv
  <1>5. DOMAIN l = 1 .. n + 1
    BY <1>4, LenProperties
  <1>6. runs' = l
    BY <1>3
  <1>7. \A k \in DOMAIN l : IF k = n + 1 THEN l[k] = x ELSE k \in DOMAIN runs /\ l[k] = runs[k]
    BY <1>2, <1>4, <1>5
  <1>8. \A k \in DOMAIN runs : k \in DOMAIN l /\ l[k] = runs[k] /\ runs[k].of # i
    BY <1>2, <1>4, <1>5 DEF Busy
  <1>9. OneRunEach'
    BY <1>6, <1>7, <1>8 DEF OneRunEach
  <1>10. n + 1 \in DOMAIN l
    BY <1>5
  <1> QED  BY <1>6, <1>7, <1>8, <1>9, <1>10 DEF Turn

\* What is known of a run and of its grabber, which has no timer besides.
LEMMA RunFacts ==
  ASSUME IInv, Loops, NEW r \in DOMAIN runs
  PROVE  /\ ListsInv /\ OneRunEach /\ ~Untouched /\ height \in Nat
         /\ runs[r] \in RunSet(Len(grabbers), height)
         /\ runs[r].of \in DOMAIN grabbers
         /\ Grabber(r) \in GrabberSet(height)
         /\ Grabber(r).timers = 0 /\ Grabber(r).connected
         /\ Grabber(r).bypass_wipe => Grabber(r).currBlockNum <= height
         /\ InBatch(runs[r], Grabber(r))
         /\ grabbers = [grabbers EXCEPT ![runs[r].of] = Grabber(r)]
  <1>1. /\ ListsInv /\ OneRunEach /\ height \in Nat
        /\ runs[r] \in RunSet(Len(grabbers), height)
        /\ runs[r].of \in DOMAIN grabbers
        /\ Grabber(r) \in GrabberSet(height)
        /\ InBatch(runs[r], Grabber(r))
    BY ListFacts, BoundsAssumption DEF IInv, GrabInv, Loops, Numbers
  <1>2. Busy(runs[r].of)
    BY DEF Busy
  <1>3. OneLoop(Grabber(r), TRUE, height)
    BY <1>1, <1>2 DEF Loops, Grabber
  <1>4. runs # <<>>
    BY EmptySeq
  <1>5. grabbers = [grabbers EXCEPT ![runs[r].of] = Grabber(r)]
    BY <1>1, ListFacts DEF Grabber, ListsInv
  <1> QED  BY <1>1, <1>3, <1>4, <1>5 DEF OneLoop, Untouched

\* A turn of a run: what it was to hand over is all that can be lost.
LEMMA RunTurns ==
  ASSUME IInv, IInv', Loops, UNCHANGED height, NEW r \in DOMAIN runs,
         NEW g, NEW busy \in BOOLEAN, NEW x, Turn(runs[r].of, g, busy, x),
         OneLoop(g, busy, height), busy => InBatch(x, g), NEW b \in Nat
  PROVE  /\ Loops'
         /\ Covers(g, busy, x, b) => Near(b)'
         /\ Near(b) => Near(b)' \/ From(runs[r], Grabber(r)) < b
  <1>1. ListsInv /\ ListsInv' /\ runs[r].of \in DOMAIN grabbers
    BY RunFacts DEF IInv, GrabInv
  <1>2. /\ Loops'
        /\ Covers(g, busy, x, b) => Near(b)'
        /\ Near(b) => Near(b)' \/ Covered(runs[r].of, b)
    BY <1>1, TurnKeeps
  <1>3. Covered(runs[r].of, b) => From(runs[r], Grabber(r)) < b
    <2>1. ~(grabbers[runs[r].of].timers > 0)
      BY RunFacts DEF Grabber
    <2>2. \A s \in DOMAIN runs : runs[s].of = runs[r].of => s = r
      BY RunFacts DEF OneRunEach
    <2> QED  BY <2>1, <2>2 DEF Covered
  <1> QED  BY <1>2, <1>3

\* A turn after which all blocks are still to be handed over that the run was to.
LEMMA RunKeeps ==
  ASSUME IInv, IInv', Loops,
         UNCHANGED <<height, skipped, wipeOnStartup, reloadAPI, queueVars>>,
         NEW r \in DOMAIN runs, NEW g, NEW busy \in BOOLEAN, NEW x,
         Turn(runs[r].of, g, busy, x),
         OneLoop(g, busy, height), busy => InBatch(x, g),
         \A b \in Nat : b > StartBlock /\ From(runs[r], Grabber(r)) < b => Covers(g, busy, x, b)
  PROVE  Loops' /\ (Ordered => Ordered')
  <1>1. UNCHANGED height
    OBVIOUS
  <1>2. Loops'
    <2>1. 0 \in Nat
      OBVIOUS
    <2> QED  BY <1>1, <2>1, RunTurns
  <1>3. ASSUME Ordered, NEW b \in Nat, b > StartBlock PROVE Settled(b)'
    <2>1. Settled(b) /\ ~Untouched
      BY <1>3, RunFacts DEF Ordered
    <2>2. Missed(b) \/ Fresh(b) => Missed(b)' \/ Fresh(b)'
      BY DEF Missed, Fresh, queueVars
    <2>3. Near(b) => Near(b)'
      <3>1. /\ Covers(g, busy, x, b) => Near(b)'
            /\ Near(b) => Near(b)' \/ From(runs[r], Grabber(r)) < b
        BY <1>1, RunTurns
      <3> QED  BY <1>3, <3>1
    <2> QED  BY <2>1, <2>2, <2>3 DEF Settled
  <1> QED  BY <1>2, <1>3 DEF Ordered

-----------------------------------------------------------------------------
(* The steps of a run *)

\* An answer that fails or takes long, and the blocks of the batch as they come.
LEMMA FetchesKeepOrder ==
  ASSUME IInv, IInv', Loops, NEW r \in DOMAIN runs,
         LatestFails(r) \/ LatestSlow(r) \/ FetchBlock(r) \/ BlockAtLast(r) \/ Fetched(r)
  PROVE  Loops' /\ (Ordered => Ordered')
  <1> DEFINE f == runs[r].fetched
             m == Grabber(r).currBatchMax
  <1>1. PICK g : g = Grabber(r)
    OBVIOUS
  <1>2. /\ ListsInv /\ OneRunEach /\ runs[r] \in RunSet(Len(grabbers), height)
        /\ g.timers = 0 /\ g.connected /\ g \in GrabberSet(height)
        /\ g.bypass_wipe => g.currBlockNum <= height
        /\ InBatch(runs[r], g) /\ grabbers = [grabbers EXCEPT ![runs[r].of] = g]
    BY <1>1, RunFacts
  <1>3. /\ f \in Seq({"block", "error", "slow"}) /\ Len(f) \in Nat /\ DOMAIN f = 1 .. Len(f)
        /\ runs[r].after \in Nat /\ m \in Nat
    BY <1>1, <1>2, LenProperties DEF RunSet, GrabberSet
  <1>4. UNCHANGED <<height, skipped, wipeOnStartup, reloadAPI, queueVars>>
    BY DEF LatestFails, LatestSlow, FetchBlock, BlockAtLast, Fetched
  <1>5. OneLoop(g, TRUE, height)
    BY <1>2 DEF OneLoop
  <1>6. ASSUME NEW x, x.of = runs[r].of, runs' = [runs EXCEPT ![r] = x], UNCHANGED grabbers,
               InBatch(x, g), From(x, g) = From(runs[r], g)
        PROVE  Loops' /\ (Ordered => Ordered')
    <2>1. grabbers' = [grabbers EXCEPT ![runs[r].of] = g]
      BY <1>2, <1>6
    <2>2. Turn(runs[r].of, g, TRUE, x)
      BY <1>2, <1>6, <2>1, RunGoesOn
    <2>3. \A b \in Nat : From(runs[r], Grabber(r)) < b => Covers(g, TRUE, x, b)
      BY <1>1, <1>6 DEF Covers
    <2> QED  BY <1>4, <1>5, <1>6, <2>2, <2>3, RunKeeps
  <1>7. CASE LatestFails(r)
    <2>1. PICK a : a = Armed(g)
      OBVIOUS
    <2>2. EndRun(r, a) /\ runs[r].at = "latest"
      BY <1>1, <1>7, <2>1 DEF LatestFails
    <2>3. a.timers = 1 /\ a.currBlockNum = g.currBlockNum /\ OneLoop(a, FALSE, height)
      BY <1>2, <2>1 DEF Armed, OneLoop, GrabberSet
    <2>4. Turn(runs[r].of, a, FALSE, runs[r])
      BY <1>2, <2>2, RunEnds
    <2>5. \A b \in Nat : From(runs[r], Grabber(r)) < b => Covers(a, FALSE, runs[r], b)
      BY <1>1, <2>2, <2>3 DEF Covers, From
    <2> QED  BY <1>4, <2>3, <2>4, <2>5, RunKeeps
  <1>8. CASE LatestSlow(r)
    <2>1. PICK x : x = [runs[r] EXCEPT !.slow = TRUE]
      OBVIOUS
    <2>2. /\ x.of = runs[r].of /\ x.at = runs[r].at /\ x.after = runs[r].after
          /\ x.fetched = runs[r].fetched
      BY <1>2, <2>1 DEF RunSet
    <2>3. InBatch(x, g) /\ From(x, g) = From(runs[r], g)
      BY <1>2, <2>2 DEF InBatch, From
    <2>4. runs' = [runs EXCEPT ![r] = x] /\ UNCHANGED grabbers
      BY <1>8, <2>1 DEF LatestSlow
    <2> QED  BY <1>6, <2>2, <2>3, <2>4
  <1>9. ASSUME NEW h, runs' = [runs EXCEPT ![r] = [runs[r] EXCEPT !.fetched = h]],
               UNCHANGED grabbers, Len(h) \in Nat,
               IF runs[r].at = "fetching" THEN runs[r].after + Len(h) <= m ELSE Len(h) = Len(f)
        PROVE  Loops' /\ (Ordered => Ordered')
    <2>1. PICK x : x = [runs[r] EXCEPT !.fetched = h]
      OBVIOUS
    <2>2. /\ x.of = runs[r].of /\ x.at = runs[r].at /\ x.after = runs[r].after
          /\ x.fetched = h
      BY <1>2, <2>1 DEF RunSet
    <2>3. From(x, g) = From(runs[r], g)
      BY <2>2 DEF From
    <2>4. InBatch(x, g)
      BY <1>1, <1>2, <1>9, <2>2 DEF InBatch
    <2>5. runs' = [runs EXCEPT ![r] = x]
      BY <1>9, <2>1
    <2> QED  BY <1>6, <1>9, <2>2, <2>3, <2>4, <2>5
  <1>10. CASE FetchBlock(r)
    <2>1. PICK o \in {"block", "error", "slow"} : runs' = [runs EXCEPT ![r].fetched = Append(@, o)]
      BY <1>10 DEF FetchBlock
    <2>2. PICK h : h = Append(f, o)
      OBVIOUS
    <2>3. Len(h) = Len(f) + 1
      <3> HIDE DEF f
      <3> QED  BY <1>3, <2>2, AppendProperties
    <2>4. runs[r].after + Len(h) <= m /\ runs[r].at = "fetching" /\ UNCHANGED grabbers
      <3>1. ~(runs[r].after + Len(f) + 1 > m)
        BY <1>10 DEF FetchBlock, AllRequested, NextToFetch
      <3> HIDE DEF f, m
      <3> QED  BY <1>3, <1>10, <2>3, <3>1 DEF FetchBlock
    <2>5. runs' = [runs EXCEPT ![r] = [runs[r] EXCEPT !.fetched = h]]
      BY <2>1, <2>2
    <2>6. Len(h) \in Nat
      BY <1>3, <2>3
    <2> HIDE DEF f, m
    <2> QED  BY <1>9, <2>4, <2>5, <2>6
  <1>11. CASE BlockAtLast(r)
    <2>1. PICK k \in DOMAIN f, o \in {"block", "error"} : runs' = [runs EXCEPT ![r].fetched[k] = o]
      BY <1>11 DEF BlockAtLast
    <2>2. PICK h : h = [f EXCEPT ![k] = o]
      OBVIOUS
    <2>3. Len(h) = Len(f)
      <3> HIDE DEF f
      <3> QED  BY <1>3, <2>2, ExceptSeq
    <2>4. runs[r].at = "fetching" => runs[r].after + Len(h) <= m
      BY <1>1, <1>2, <2>3 DEF InBatch
    <2>5. runs' = [runs EXCEPT ![r] = [runs[r] EXCEPT !.fetched = h]] /\ UNCHANGED grabbers
      BY <1>11, <2>1, <2>2 DEF BlockAtLast
    <2> HIDE DEF f, m
    <2> QED  BY <1>3, <1>9, <2>3, <2>4, <2>5
  <1>12. CASE Fetched(r)
    <2>1. runs[r].after + Len(f) + 1 > m /\ runs[r].at = "fetching"
      BY <1>12 DEF Fetched, AllRequested, NextToFetch
    <2>2. runs[r].after < m /\ runs[r].after + Len(f) <= m
      BY <1>1, <1>2, <2>1 DEF InBatch
    <2>3. runs[r].after + Len(f) = m
      <3> HIDE DEF f, m
      <3> QED  BY <1>3, <2>1, <2>2
    <2>4. f # <<>>
      <3>1. Len(f) # 0
        <4> HIDE DEF f, m
        <4> QED  BY <1>3, <2>2, <2>3
      <3> QED  BY <3>1
    <2>5. PICK x : x = [runs[r] EXCEPT !.at = "processing"]
      OBVIOUS
    <2>6. /\ x.of = runs[r].of /\ x.at = "processing" /\ x.after = runs[r].after
          /\ x.fetched = f
      BY <1>2, <2>5 DEF RunSet
    <2>7. InBatch(x, g) /\ From(x, g) = From(runs[r], g)
      BY <1>1, <2>1, <2>2, <2>3, <2>6 DEF InBatch, From
    <2>8. runs' = [runs EXCEPT ![r] = x] /\ UNCHANGED grabbers
      BY <1>12, <2>4, <2>5 DEF Fetched
    <2> QED  BY <1>6, <2>6, <2>7, <2>8
  <1> QED  BY <1>7, <1>8, <1>10, <1>11, <1>12

\* The latest block is known: the run wipes, ends or begins a batch.
LEMMA LatestKeepsOrder ==
  ASSUME IInv, IInv', Loops, lags \in Nat, lags' = 0, NEW r \in DOMAIN runs, Latest(r)
  PROVE  Loops' /\ (Ordered => Ordered')
  <1>1. PICK g : g = Grabber(r)
    OBVIOUS
  <1>2. /\ ListsInv /\ OneRunEach /\ runs[r] \in RunSet(Len(grabbers), height)
        /\ g.timers = 0 /\ g.connected /\ g \in GrabberSet(height) /\ height \in Nat
        /\ g.bypass_wipe => g.currBlockNum <= height
        /\ grabbers = [grabbers EXCEPT ![runs[r].of] = g]
    BY <1>1, RunFacts
  <1>3. LatestIs(r, height) /\ runs[r].at = "latest"
    BY DEF Latest
  <1>4. UNCHANGED <<height, skipped, wipeOnStartup, reloadAPI, queueVars>>
    BY DEF Latest
  <1>5. runs[r].fetched = <<>> /\ g.currBlockNum \in Nat /\ Len(runs[r].fetched) = 0
    BY <1>2, <1>3, EmptySeq DEF RunSet, GrabberSet
  <1>6. From(runs[r], Grabber(r)) = g.currBlockNum
    BY <1>1, <1>3 DEF From
  <1>7. CASE /\ height < g.currBlockNum \/ (MayWipe(g) /\ (wipeOnStartup \/ reloadAPI))
             /\ runs' = [runs EXCEPT ![r].at = "wiping"] /\ UNCHANGED grabbers
    <2>1. PICK x : x = [runs[r] EXCEPT !.at = "wiping"]
      OBVIOUS
    <2>2. x.of = runs[r].of /\ x.at = "wiping" /\ runs' = [runs EXCEPT ![r] = x]
      BY <1>2, <1>7, <2>1 DEF RunSet
    <2>3. MayWipe(g)
      BY <1>2, <1>5, <1>7 DEF MayWipe
    <2>4. InBatch(x, g) /\ OneLoop(g, TRUE, height)
      BY <1>2, <2>2, <2>3 DEF InBatch, OneLoop
    <2>5. grabbers' = [grabbers EXCEPT ![runs[r].of] = g]
      BY <1>2, <1>7
    <2>6. Turn(runs[r].of, g, TRUE, x)
      BY <1>2, <2>2, <2>5, RunGoesOn
    <2>7. \A b \in Nat : b > StartBlock => Covers(g, TRUE, x, b)
      <3>1. From(x, g) = StartBlock
        BY <2>2 DEF From
      <3>2. \A b \in Nat : b > StartBlock => From(x, g) < b
        BY <3>1, BoundsAssumption
      <3> QED  BY <3>2 DEF Covers
    <2> QED  BY <1>4, <2>4, <2>6, <2>7, RunKeeps
  <1>8. CASE EndRun(r, Armed(g))
    <2>1. PICK a : a = Armed(g)
      OBVIOUS
    <2>2. EndRun(r, a)
      BY <1>8, <2>1
    <2>3. a.timers = 1 /\ a.currBlockNum = g.currBlockNum /\ OneLoop(a, FALSE, height)
      BY <1>2, <2>1 DEF Armed, OneLoop, GrabberSet
    <2>4. Turn(runs[r].of, a, FALSE, runs[r])
      BY <1>2, <2>2, RunEnds
    <2>5. \A b \in Nat : From(runs[r], Grabber(r)) < b => Covers(a, FALSE, runs[r], b)
      BY <1>6, <2>3 DEF Covers
    <2> QED  BY <1>4, <2>3, <2>4, <2>5, RunKeeps
  <1>9. CASE /\ height > g.currBlockNum
             /\ runs' = [runs EXCEPT ![r].at = "fetching", ![r].slow = FALSE,
                                     ![r].after = g.currBlockNum]
             /\ grabbers' = [grabbers EXCEPT ![runs[r].of].currBatchMax = BatchEnd(g, height)]
    <2>1. PICK e : e = BatchEnd(g, height)
      OBVIOUS
    <2>2. e \in Nat /\ g.currBlockNum < e
      <3>1. PICK m : m = g.currBlockNum + BatchAmount
        OBVIOUS
      <3>2. m \in Nat /\ g.currBlockNum < m
        <4>1. PICK n \in Nat, a \in Nat \ {0} : n = g.currBlockNum /\ a = BatchAmount
          BY <1>5, BoundsAssumption
        <4>2. n + a \in Nat /\ n < n + a
          OBVIOUS
        <4> QED  BY <3>1, <4>1, <4>2
      <3>3. PICK S : S = {m, height}
        OBVIOUS
      <3>4. \E z \in S : \A y \in S : z <= y
        BY <1>2, <3>2, <3>3
      <3>5. Min(S) \in S
        BY <3>4 DEF Min
      <3>6. e = Min(S)
        BY <2>1, <3>1, <3>3 DEF BatchEnd
      <3> QED  BY <1>2, <1>9, <3>2, <3>3, <3>5, <3>6
    <2>3. PICK c : c = [g EXCEPT !.currBatchMax = e]
      OBVIOUS
    <2>4. /\ c.timers = 0 /\ c.connected /\ c.currBlockNum = g.currBlockNum
          /\ c.currBatchMax = e /\ c.bypass_wipe = g.bypass_wipe
      BY <1>2, <2>3 DEF GrabberSet
    <2>5. PICK n \in Nat : n = g.currBlockNum
      BY <1>5
    <2>6. PICK x : x = [runs[r] EXCEPT !.at = "fetching", !.slow = FALSE, !.after = n]
      OBVIOUS
    <2>7. x.of = runs[r].of /\ x.at = "fetching" /\ x.after = n /\ x.fetched = runs[r].fetched
      BY <1>2, <2>6 DEF RunSet
    <2>8. runs' = [runs EXCEPT ![r] = x]
      BY <1>9, <2>5, <2>6
    <2>9. grabbers' = [grabbers EXCEPT ![runs[r].of] = c]
      BY <1>1, <1>9, <2>1, <2>3 DEF Grabber
    <2>10. InBatch(x, c)
      <3>1. n < e /\ n + 0 <= e
        BY <2>2, <2>5
      <3> QED  BY <1>5, <2>4, <2>7, <3>1 DEF InBatch
    <2>11. OneLoop(c, TRUE, height)
      BY <1>2, <2>4 DEF OneLoop
    <2>12. Turn(runs[r].of, c, TRUE, x)
      BY <1>2, <2>7, <2>8, <2>9, RunGoesOn
    <2>13. \A b \in Nat : From(runs[r], Grabber(r)) < b => Covers(c, TRUE, x, b)
      BY <1>6, <2>5, <2>7 DEF Covers, From
    <2> QED  BY <1>4, <2>10, <2>11, <2>12, <2>13, RunKeeps
  <1> QED  BY <1>1, <1>3, <1>7, <1>8, <1>9 DEF LatestIs

\* A wipe, at whose end the grabber is to hand over everything again.
LEMMA WipesKeepOrder ==
  ASSUME IInv, IInv', Loops, NEW r \in DOMAIN runs, WipeBlocks(r) \/ WipeRest(r)
  PROVE  Loops' /\ (Ordered => Ordered')
  <1>1. PICK g : g = Grabber(r)
    OBVIOUS
  <1>2. /\ ListsInv /\ OneRunEach /\ runs[r] \in RunSet(Len(grabbers), height)
        /\ g.timers = 0 /\ g.connected /\ g \in GrabberSet(height)
        /\ g.bypass_wipe => g.currBlockNum <= height
        /\ InBatch(runs[r], g) /\ grabbers = [grabbers EXCEPT ![runs[r].of] = g]
    BY <1>1, RunFacts
  <1>3. MayWipe(g)
    BY <1>2 DEF InBatch, WipeBlocks, WipeRest
  <1>4. CASE WipeBlocks(r)
    <2>1. PICK x : x = [runs[r] EXCEPT !.at = "wiped"]
      OBVIOUS
    <2>2. x.of = runs[r].of /\ x.at = "wiped" /\ runs' = [runs EXCEPT ![r] = x]
      BY <1>2, <1>4, <2>1 DEF RunSet, WipeBlocks
    <2>3. InBatch(x, g) /\ OneLoop(g, TRUE, height)
      BY <1>2, <1>3, <2>2 DEF InBatch, OneLoop
    <2>4. /\ grabbers' = [grabbers EXCEPT ![runs[r].of] = g]
          /\ UNCHANGED <<height, skipped, wipeOnStartup, reloadAPI, queueVars>>
      BY <1>2, <1>4 DEF WipeBlocks
    <2>5. Turn(runs[r].of, g, TRUE, x)
      BY <1>2, <2>2, <2>4, RunGoesOn
    <2>6. \A b \in Nat : From(runs[r], Grabber(r)) < b => Covers(g, TRUE, x, b)
      BY <1>1, <1>4, <2>2 DEF Covers, From, WipeBlocks
    <2> QED  BY <2>3, <2>4, <2>5, <2>6, RunKeeps
  <1>5. CASE WipeRest(r)
    <2>1. PICK a : a = Armed([g EXCEPT !.currBlockNum = StartBlock])
      OBVIOUS
    <2>2. EndRun(r, a) /\ UNCHANGED <<height, skipped, queueVars>>
      BY <1>1, <1>3, <1>5, <2>1 DEF WipeRest
    <2>3. a.timers = 1 /\ a.currBlockNum = StartBlock /\ OneLoop(a, FALSE, height)
      BY <1>2, <1>3, <2>1 DEF Armed, OneLoop, GrabberSet, MayWipe
    <2>4. Turn(runs[r].of, a, FALSE, runs[r])
      BY <1>2, <2>2, RunEnds
    <2>5. ASSUME NEW b \in Nat, b > StartBlock PROVE Near(b)'
      <3>1. Covers(a, FALSE, runs[r], b)
        BY <2>3, <2>5, BoundsAssumption DEF Covers
      <3> QED  BY <2>2, <2>3, <2>4, <3>1, RunTurns
    <2>6. Loops'
      <3>1. 0 \in Nat
        OBVIOUS
      <3> QED  BY <2>2, <2>3, <2>4, <3>1, RunTurns
    <2> QED  BY <2>5, <2>6 DEF Ordered, Settled
  <1> QED  BY <1>4, <1>5

\* A run past its block b, which is the last of its batch or not.
LEMMA NextTurns ==
  ASSUME IInv, IInv', Loops, UNCHANGED height, NEW r \in DOMAIN runs, NEW g,
         runs[r].at = "processing", NextInBatch(r, g),
         OneLoop(g, FALSE, height),
         Len(runs[r].fetched) # 1 => g = Grabber(r), NEW c \in Nat
  PROVE  /\ Loops'
         /\ Near(c) => Near(c)' \/ runs[r].after < c
         /\ /\ Len(runs[r].fetched) = 1 => g.timers > 0 /\ g.currBlockNum < c
            /\ runs[r].after + 1 < c
            => Near(c)'
  <1> DEFINE f == runs[r].fetched
             m == Grabber(r).currBatchMax
  <1>1. /\ ListsInv /\ OneRunEach /\ runs[r] \in RunSet(Len(grabbers), height)
        /\ InBatch(runs[r], Grabber(r)) /\ Grabber(r) \in GrabberSet(height)
        /\ Grabber(r).timers = 0 /\ Grabber(r).connected
        /\ Grabber(r).bypass_wipe => Grabber(r).currBlockNum <= height
    BY RunFacts
  <1>2. /\ f \in Seq({"block", "error", "slow"}) /\ f # <<>> /\ Len(f) \in Nat \ {0}
        /\ runs[r].after \in Nat /\ m \in Nat /\ runs[r].after + Len(f) = m
    BY <1>1, EmptySeq DEF RunSet, GrabberSet, InBatch
  <1>3. From(runs[r], Grabber(r)) = runs[r].after
    BY DEF From
  <1>4. CASE Len(f) = 1
    <2>1. EndRun(r, g)
      BY <1>4 DEF NextInBatch
    <2>2. Turn(runs[r].of, g, FALSE, runs[r])
      BY <1>1, <2>1, RunEnds
    <2>3. /\ Loops'
          /\ Covers(g, FALSE, runs[r], c) => Near(c)'
          /\ Near(c) => Near(c)' \/ From(runs[r], Grabber(r)) < c
      BY <2>2, RunTurns
    <2> QED  BY <1>3, <1>4, <2>3 DEF Covers
  <1>5. CASE Len(f) # 1
    <2>1. g = Grabber(r)
      BY <1>5
    <2>2. PICK b \in Nat : b = runs[r].after + 1
      BY <1>2
    <2>3. PICK t : t = Tail(f)
      OBVIOUS
    <2>4. Len(t) = Len(f) - 1
      <3> HIDE DEF f
      <3> QED  BY <1>2, <2>3, HeadTailProperties
    <2>5. PICK x : x = [runs[r] EXCEPT !.fetched = t, !.after = b]
      OBVIOUS
    <2>6. x.of = runs[r].of /\ x.at = "processing" /\ x.after = b /\ x.fetched = t
      BY <1>1, <2>5 DEF RunSet
    <2>7. b < m /\ b + Len(t) = m
      <3>1. PICK n \in Nat \ {0}, a \in Nat : n = Len(f) /\ a = runs[r].after
        BY <1>2
      <3>2. a + 1 < a + n /\ a + 1 + (n - 1) = a + n
        <4>1. n # 1
          BY <1>5, <3>1, Zenon
        <4> QED  BY <4>1
      <3>3. b = a + 1 /\ m = a + n
        BY <1>2, <2>2, <3>1
      <3>4. Len(t) = n - 1
        BY <2>4, <3>1
      <3> HIDE DEF m
      <3> QED  BY <3>2, <3>3, <3>4
    <2>8. InBatch(x, g) /\ OneLoop(g, TRUE, height)
      BY <1>1, <2>1, <2>6, <2>7 DEF InBatch, OneLoop
    <2>9. runs' = [runs EXCEPT ![r] = x] /\ grabbers' = [grabbers EXCEPT ![runs[r].of] = g]
      BY <1>5, <2>2, <2>3, <2>5 DEF NextInBatch
    <2>10. Turn(runs[r].of, g, TRUE, x)
      BY <1>1, <2>6, <2>9, RunGoesOn
    <2>11. /\ Loops'
           /\ Covers(g, TRUE, x, c) => Near(c)'
           /\ Near(c) => Near(c)' \/ From(runs[r], Grabber(r)) < c
      BY <2>8, <2>10, RunTurns
    <2> QED  BY <1>3, <2>2, <1>5, <2>6, <2>11 DEF Covers, From
  <1> QED  BY <1>4, <1>5

\* A block that is handed over is last for now; the blocks after it are to come
\* again.  A block that is passed over is known to be.
LEMMA BatchKeepsOrder ==
  ASSUME IInv, IInv', Loops, NEW r \in DOMAIN runs, processBlock(r)
  PROVE  Loops' /\ (Ordered => Ordered')
  <1> DEFINE f == runs[r].fetched
  <1>1. /\ ~Untouched /\ QueueInv /\ UNCHANGED <<height, wipeOnStartup, reloadAPI>>
        /\ Grabber(r).timers = 0 /\ Grabber(r).connected
        /\ Grabber(r).bypass_wipe => Grabber(r).currBlockNum <= height
        /\ Grabber(r) \in GrabberSet(height)
        /\ runs[r].at = "processing" /\ InBatch(runs[r], Grabber(r))
        /\ OneLoop(Grabber(r), FALSE, height)
        /\ runs[r].after \in Nat
    BY RunFacts DEF processBlock, IInv, OneLoop, RunSet
  <1>2. PICK b \in 1 .. height : b = runs[r].after + 1
    BY BatchesFit DEF IInv
  <1>3. b \in Nat /\ \A s \in skipped : s \in Nat
    BY DEF IInv, GrabInv
  <1>4. CASE HandOver(r)
    <2>1. PICK g : g = IF b = Grabber(r).currBatchMax
                         THEN Armed([Grabber(r) EXCEPT !.currBlockNum = b]) ELSE Grabber(r)
      OBVIOUS
    <2>2. /\ NextInBatch(r, g) /\ addToActionQue(b) /\ skipped' = skipped \ {b}
      BY <1>2, <1>4, <2>1 DEF HandOver
    <2>3. Len(f) = 1 <=> b = Grabber(r).currBatchMax
      <3>1. runs[r].after + Len(f) = Grabber(r).currBatchMax /\ Len(f) \in Nat
        BY <1>1, RunFacts, LenProperties DEF InBatch, RunSet
      <3>2. PICK n \in Nat, a \in Nat : n = Len(f) /\ a = runs[r].after
        BY <1>1, <3>1
      <3>3. n = 1 <=> a + 1 = a + n
        OBVIOUS
      <3> QED  BY <1>2, <3>1, <3>2, <3>3
    <2>4. /\ OneLoop(g, FALSE, height)
          /\ Len(f) = 1 => g.timers > 0 /\ g.currBlockNum = b
          /\ Len(f) # 1 => g = Grabber(r)
      BY <1>1, <2>1, <2>3 DEF Armed, OneLoop, GrabberSet
    <2> HIDE DEF f
    <2>5. ASSUME NEW c \in Nat
          PROVE  /\ Loops' /\ (Near(c) => Near(c)' \/ runs[r].after < c)
                 /\ b < c => Near(c)'
      <3>1. /\ Loops'
            /\ Near(c) => Near(c)' \/ runs[r].after < c
            /\ /\ Len(f) = 1 => g.timers > 0 /\ g.currBlockNum < c
               /\ runs[r].after + 1 < c
               => Near(c)'
        BY <1>1, <2>2, <2>4, NextTurns DEF f
      <3> QED  BY <1>2, <2>4, <3>1
    <2>6. Loops'
      <3>1. 0 \in Nat
        OBVIOUS
      <3> QED  BY <2>5, <3>1
    <2>7. ASSUME Ordered, NEW c \in Nat, c > StartBlock PROVE Settled(c)'
      <3>1. Settled(c)
        BY <2>7 DEF Ordered
      <3>2. CASE c = b
        BY <1>1, <2>2, <3>2, AddingKeepsOrder DEF Settled
      <3>3. CASE c > b
        BY <1>3, <2>5, <3>3 DEF Settled
      <3>4. CASE c < b
        <4>1. Near(c) => Near(c)'
          BY <1>1, <1>2, <2>5, <3>4
        <4>2. Missed(c) => Missed(c)'
          <5>1. /\ Range(action_que') = Range(action_que) \union {b} /\ dropped' = dropped
            BY <1>1, <2>2, QueueAdds
          <5>2. \A s \in skipped : s <= c => s \in skipped'
            BY <1>3, <2>2, <3>4
          <5>3. c \in dropped \ Range(action_que) => c \in dropped' \ Range(action_que')
            BY <3>4, <1>3, <5>1
          <5> QED  BY <1>1, <5>2, <5>3 DEF Missed
        <4>3. Fresh(c) => Fresh(c)'
          BY <1>1, <2>2, <3>4, AddingKeepsOrder
        <4> QED  BY <1>1, <3>1, <4>1, <4>2, <4>3 DEF Settled
      <3> QED  BY <1>3, <3>2, <3>3, <3>4
    <2> QED  BY <2>6, <2>7 DEF Ordered
  <1>5. CASE SkipBlock(r)
    <2>1. /\ NextInBatch(r, Grabber(r)) /\ skipped' = skipped \union {b}
          /\ UNCHANGED queueVars
      BY <1>2, <1>5 DEF SkipBlock
    <2>2. ASSUME NEW c \in Nat
          PROVE  Loops' /\ (Near(c) => Near(c)' \/ runs[r].after < c)
      BY <1>1, <2>1, NextTurns
    <2>3. Loops'
      <3>1. 0 \in Nat
        OBVIOUS
      <3> QED  BY <2>2, <3>1
    <2>4. ASSUME Ordered, NEW c \in Nat, c > StartBlock PROVE Settled(c)'
      <3>1. Settled(c)
        BY <2>4 DEF Ordered
      <3>2. CASE c >= b
        BY <2>1, <3>2 DEF Settled, Missed
      <3>3. CASE c < b
        <4>1. Near(c) => Near(c)'
          BY <1>1, <1>2, <2>2, <3>3
        <4>2. Missed(c) \/ Fresh(c) => Missed(c)' \/ Fresh(c)'
          BY <1>1, <2>1 DEF Missed, Fresh, queueVars
        <4> QED  BY <1>1, <3>1, <4>1, <4>2 DEF Settled
      <3> QED  BY <1>3, <3>2, <3>3
    <2> QED  BY <2>3, <2>4 DEF Ordered
  <1> QED  BY <1>4, <1>5 DEF processBlock

-----------------------------------------------------------------------------
(* The other steps *)

\* A grabber that connects goes on from the highest block, and a timer's run from
\* where its grabber is.
LEMMA ConnectsKeepOrder ==
  ASSUME IInv, IInv', Loops, NEW i \in DOMAIN grabbers,
         Connect(i) \/ ConnectFails(i) \/ FireTimer(i)
  PROVE  Loops' /\ (Ordered => Ordered')
  <1>1. PICK g : g = grabbers[i]
    OBVIOUS
  <1>2. /\ ListsInv /\ ListsInv' /\ OneRunEach /\ height \in Nat
        /\ g \in GrabberSet(height) /\ Blocks \subseteq 1 .. height
        /\ OneLoop(g, Busy(i), height)
    BY <1>1, ListFacts, BoundsAssumption DEF IInv, GrabInv, Loops, Numbers
  <1>3. UNCHANGED <<height, Blocks, saves, skipped, wipeOnStartup, reloadAPI, queueVars>>
    BY DEF Connect, ConnectFails, FireTimer
  <1>4. ASSUME NEW b \in Nat PROVE Missed(b) \/ Fresh(b) => Missed(b)' \/ Fresh(b)'
    BY <1>3 DEF Missed, Fresh, queueVars
  <1>5. CASE Connect(i)
    <2>1. PICK n \in 0 .. height : n = Highest(Blocks)
      BY <1>2, HighestSaved
    <2>2. n \in Nat /\ n <= height
      BY <1>2
    <2>3. PICK c : c = Armed([g EXCEPT !.connected = TRUE, !.currBlockNum = n])
      OBVIOUS
    <2>4. ~g.connected /\ g.timers = 0 /\ ~Busy(i)
      BY <1>1, <1>2, <1>5 DEF Connect, OneLoop
    <2>5. c.timers = 1 /\ c.connected /\ c.currBlockNum = n
      BY <1>2, <2>3, <2>4 DEF Armed, GrabberSet
    <2>6. grabbers' = [grabbers EXCEPT ![i] = c] /\ UNCHANGED runs
      BY <1>1, <1>5, <2>1, <2>3 DEF Connect
    <2>7. Turn(i, c, FALSE, c)
      BY <1>2, <2>4, <2>6, StaysIdle
    <2>8. OneLoop(c, FALSE, height)
      BY <2>2, <2>5 DEF OneLoop
    <2>9. ASSUME NEW b \in Nat
          PROVE  /\ Loops' /\ (n < b => Near(b)') /\ (Near(b) => Near(b)')
      <3>1. /\ Loops'
            /\ Covers(c, FALSE, c, b) => Near(b)'
            /\ Near(b) => Near(b)' \/ Covered(i, b)
        BY <1>2, <1>3, <2>7, <2>8, TurnKeeps
      <3>2. ~Covered(i, b)
        BY <1>1, <2>4 DEF Covered, Busy
      <3> QED  BY <2>5, <3>1, <3>2 DEF Covers
    <2>10. Loops'
      <3>1. 0 \in Nat
        OBVIOUS
      <3> QED  BY <2>9, <3>1
    <2>11. ASSUME Ordered, NEW b \in Nat, b > StartBlock PROVE Settled(b)'
      <3>1. Settled(b)
        BY <2>11 DEF Ordered
      <3>2. Untouched => n < b
        BY <2>1, <2>11, BoundsAssumption DEF Untouched, Highest
      <3> QED  BY <1>4, <2>9, <3>1, <3>2 DEF Settled
    <2> QED  BY <2>10, <2>11 DEF Ordered
  <1>6. CASE ConnectFails(i)
    <2>1. PICK c : c = [g EXCEPT !.connected = TRUE]
      OBVIOUS
    <2>2. ~g.connected /\ g.timers = 0 /\ ~Busy(i)
      BY <1>1, <1>2, <1>6 DEF ConnectFails, OneLoop
    <2>3. c.timers = 0 /\ OneLoop(c, FALSE, height)
      BY <1>2, <2>1, <2>2 DEF OneLoop, GrabberSet
    <2>4. grabbers' = [grabbers EXCEPT ![i] = c] /\ UNCHANGED runs
      BY <1>1, <1>6, <2>1 DEF ConnectFails
    <2>5. Turn(i, c, FALSE, c)
      BY <1>2, <2>2, <2>4, StaysIdle
    <2>6. ASSUME NEW b \in Nat PROVE Loops' /\ (Near(b) => Near(b)')
      <3>1. Loops' /\ (Near(b) => Near(b)' \/ Covered(i, b))
        BY <1>2, <1>3, <2>3, <2>5, TurnKeeps
      <3>2. ~Covered(i, b)
        BY <1>1, <2>2 DEF Covered, Busy
      <3> QED  BY <3>1, <3>2
    <2>7. Loops'
      <3>1. 0 \in Nat
        OBVIOUS
      <3> QED  BY <2>6, <3>1
    <2>8. Untouched => Untouched'
      <3>1. /\ DOMAIN grabbers' = DOMAIN grabbers /\ grabbers'[i] = c
            /\ \A j \in DOMAIN grabbers : j # i => grabbers'[j] = grabbers[j]
        BY <2>4, ListFacts
      <3> QED  BY <1>3, <2>3, <2>4, <3>1 DEF Untouched
    <2>9. ASSUME Ordered, NEW b \in Nat, b > StartBlock PROVE Settled(b)'
      <3>1. Settled(b)
        BY <2>9 DEF Ordered
      <3> QED  BY <1>4, <2>6, <2>8, <3>1 DEF Settled
    <2> QED  BY <2>7, <2>9 DEF Ordered
  <1>7. CASE FireTimer(i)
    <2>1. PICK c : c = [g EXCEPT !.timers = @ - 1]
      OBVIOUS
    <2>2. g.timers > 0 /\ g.timers \in Nat /\ g.timers <= 1
      BY <1>1, <1>2, <1>7 DEF FireTimer, OneLoop, GrabberSet
    <2>3. ~Busy(i) /\ g.connected /\ (g.bypass_wipe => g.currBlockNum <= height)
      BY <1>2, <2>2 DEF OneLoop
    <2>4. g.timers - 1 = 0
      BY <2>2
    <2>5. /\ c.timers = 0 /\ c.connected /\ c.currBlockNum = g.currBlockNum
          /\ c.bypass_wipe = g.bypass_wipe
      BY <1>2, <2>1, <2>3, <2>4 DEF GrabberSet
    <2>6. PICK x : x = NewRun(i)
      OBVIOUS
    <2>7. x.of = i /\ x.at = "latest" /\ runs' = Append(runs, x)
      BY <1>7, <2>6 DEF NewRun, FireTimer
    <2>8. x \in RunSet(Len(grabbers), height)
      <3>1. i \in 1 .. Len(grabbers)
        BY <1>2, ListFacts
      <3>2. <<>> \in Seq({"block", "error", "slow"}) /\ 0 + Len(<<>>) = 0
        BY EmptySeq
      <3> QED  BY <1>2, <2>6, <3>1, <3>2 DEF NewRun, RunSet
    <2>9. grabbers' = [grabbers EXCEPT ![i] = c]
      BY <1>1, <1>7, <2>1 DEF FireTimer
    <2>10. Turn(i, c, TRUE, x)
      BY <1>2, <2>3, <2>7, <2>8, <2>9, RunBegins
    <2>11. OneLoop(c, TRUE, height) /\ InBatch(x, c)
      BY <2>3, <2>5, <2>7 DEF OneLoop, InBatch
    <2>12. ASSUME NEW b \in Nat PROVE Loops' /\ (Near(b) => Near(b)')
      <3>1. /\ Loops'
            /\ Covers(c, TRUE, x, b) => Near(b)'
            /\ Near(b) => Near(b)' \/ Covered(i, b)
        BY <1>2, <1>3, <2>10, <2>11, TurnKeeps
      <3>2. Covered(i, b) => g.currBlockNum < b
        BY <1>1, <2>3 DEF Covered, Busy
      <3>3. g.currBlockNum < b => Covers(c, TRUE, x, b)
        BY <2>5, <2>7 DEF Covers, From
      <3> QED  BY <3>1, <3>2, <3>3
    <2>13. Loops'
      <3>1. 0 \in Nat
        OBVIOUS
      <3> QED  BY <2>12, <3>1
    <2>14. ASSUME Ordered, NEW b \in Nat, b > StartBlock PROVE Settled(b)'
      <3>1. Settled(b)
        BY <2>14 DEF Ordered
      <3>2. ~Untouched
        BY <1>1, <2>2 DEF Untouched
      <3> QED  BY <1>4, <2>12, <3>1, <3>2 DEF Settled
    <2> QED  BY <2>13, <2>14 DEF Ordered
  <1> QED  BY <1>5, <1>6, <1>7

\* The grabber that the watchdog starts takes nothing from the others.
LEMMA WatchdogKeepsOrder ==
  ASSUME IInv, Loops, Watchdog
  PROVE  Loops' /\ (Ordered => Ordered')
  <1>1. PICK w : w = NewGrabber(TRUE)
    OBVIOUS
  <1>2. w.timers = 0 /\ OneLoop(w, FALSE, height)
    BY <1>1 DEF NewGrabber, OneLoop
  <1>3. /\ UNCHANGED <<height, Blocks, saves, skipped, wipeOnStartup, reloadAPI, runs, queueVars>>
        /\ ListsInv
    BY DEF Watchdog, IInv, GrabInv
  <1>4. PICK n \in Nat : n = Len(grabbers) /\ DOMAIN grabbers = 1 .. n
    BY <1>3, LenProperties DEF ListsInv
  <1>5. PICK S : S = GrabberSet(height)
    OBVIOUS
  <1>6. PICK l : l = Append(grabbers, w)
    OBVIOUS
  <1>7. w \in S /\ grabbers \in Seq(S)
    <2>1. 1 \in Nat /\ 0 \in 0 .. height
      BY BoundsAssumption DEF IInv, GrabInv, Numbers
    <2> QED  BY <1>1, <1>3, <1>5, <2>1 DEF NewGrabber, GrabberSet, ListsInv
  <1>8. /\ l \in Seq(S) /\ Len(l) = n + 1 /\ l[n + 1] = w
        /\ \A i \in 1 .. n : l[i] = grabbers[i]
    BY <1>4, <1>6, <1>7, AppendProperties
  <1>9. DOMAIN l = 1 .. n + 1
    BY <1>8, LenProperties
  <1>10. grabbers' = l
    BY <1>1, <1>6 DEF Watchdog
  <1>11. \A i \in DOMAIN l : IF i = n + 1 THEN l[i] = w ELSE i \in DOMAIN grabbers /\ l[i] = grabbers[i]
    BY <1>4, <1>8, <1>9
  <1>12. \A i \in DOMAIN grabbers : i \in DOMAIN l /\ l[i] = grabbers[i]
    BY <1>4, <1>8, <1>9
  <1>13. ASSUME NEW r \in DOMAIN runs
         PROVE  runs[r].of \in DOMAIN grabbers /\ Grabber(r)' = Grabber(r) /\ runs[r].of # n + 1
    <2>1. runs[r].of \in DOMAIN grabbers
      BY <1>3, ListFacts
    <2> QED  BY <1>3, <1>4, <1>10, <1>12, <2>1 DEF Grabber
  <1>14. Loops'
    <2>1. ASSUME NEW i \in DOMAIN l PROVE OneLoop(l[i], Busy(i)', height')
      <3>1. Busy(i)' = Busy(i)
        BY <1>3 DEF Busy
      <3>2. CASE i = n + 1
        <4>1. ~Busy(i)
          BY <1>13, <3>2 DEF Busy
        <4>2. Busy(i)' = FALSE
          BY <3>1, <4>1 DEF Busy
        <4> QED  BY <1>2, <1>3, <1>11, <3>2, <4>2
      <3>3. CASE i # n + 1
        BY <1>3, <1>11, <3>1, <3>3 DEF Loops
      <3> QED  BY <3>2, <3>3
    <2>2. OneRunEach'
      BY <1>3 DEF Loops, OneRunEach
    <2>3. ASSUME NEW r \in DOMAIN runs' PROVE InBatch(runs'[r], Grabber(r)')
      BY <1>3, <1>13 DEF Loops
    <2> QED  BY <1>10, <2>1, <2>2, <2>3 DEF Loops
  <1>15. ASSUME Ordered, NEW b \in Nat, b > StartBlock PROVE Settled(b)'
    <2>1. Settled(b)
      BY <1>15 DEF Ordered
    <2>2. Missed(b) \/ Fresh(b) => Missed(b)' \/ Fresh(b)'
      BY <1>3 DEF Missed, Fresh, queueVars
    <2>3. Untouched => Untouched'
      BY <1>2, <1>3, <1>10, <1>11 DEF Untouched
    <2>4. Near(b) => Near(b)'
      <3>1. ASSUME NEW i \in DOMAIN grabbers, grabbers[i].timers > 0, grabbers[i].currBlockNum < b
            PROVE  Near(b)'
        BY <1>10, <1>12, <3>1 DEF Near
      <3>2. ASSUME NEW r \in DOMAIN runs, From(runs[r], Grabber(r)) < b PROVE Near(b)'
        <4>1. r \in DOMAIN runs' /\ From(runs'[r], Grabber(r)') < b
          BY <1>3, <1>13, <3>2
        <4> QED  BY <4>1 DEF Near
      <3> QED  BY <3>1, <3>2 DEF Near
    <2> QED  BY <2>1, <2>2, <2>3, <2>4 DEF Settled
  <1> QED  BY <1>14, <1>15 DEF Ordered

\* A process that starts wipes, or reloads, or goes on from the highest block.
LEMMA CrashKeepsOrder ==
  ASSUME Crash, crashes \in Nat
  PROVE  Loops' /\ (Replayed' => Ordered')
  <1>1. PICK w : w = NewGrabber(FALSE)
    OBVIOUS
  <1>2. w.timers = 0 /\ \A h : OneLoop(w, FALSE, h)
    BY <1>1 DEF NewGrabber, OneLoop
  <1>3. grabbers' = <<w>> /\ runs' = <<>>
    BY <1>1 DEF Crash
  <1>4. Loops'
    <2>1. \A i : ~Busy(i)'
      BY <1>3 DEF Busy
    <2>2. \A i \in DOMAIN grabbers' : grabbers'[i] = w
      BY <1>3
    <2>3. ASSUME NEW i \in DOMAIN grabbers' PROVE OneLoop(grabbers'[i], Busy(i)', height')
      <3>1. Busy(i)' = FALSE
        BY <2>1 DEF Busy
      <3> QED  BY <1>2, <2>2, <3>1
    <2>4. OneRunEach' /\ DOMAIN runs' = {}
      BY <1>3 DEF OneRunEach
    <2> QED  BY <2>3, <2>4 DEF Loops
  <1>5. ASSUME Replayed' PROVE Ordered'
    <2>1. /\ crashes' = crashes + 1 /\ wipeOnStartup' \in WipeChoices
          /\ reloadAPI' \in ReloadChoices
      BY DEF Crash
    <2>2. FALSE \notin WipeChoices \intersect ReloadChoices
      <3>1. crashes' # 0
        BY <2>1
      <3> QED  BY <1>5, <3>1, Zenon DEF Replayed
    <2>3. wipeOnStartup' \/ reloadAPI'
      BY <2>1, <2>2, BoundsAssumption
    <2> QED  BY <2>3 DEF Ordered, Settled, Missed
  <1> QED  BY <1>4, <1>5

\* A step that leaves all loops as they are.
LEMMA LoopsLeftAlone ==
  ASSUME Loops, UNCHANGED <<height, grabbers, runs>>, NEW b \in Nat
  PROVE  Loops' /\ Near(b)' = Near(b)
  <1>1. ASSUME NEW r \in DOMAIN runs PROVE Grabber(r)' = Grabber(r)
    BY DEF Grabber
  <1>2. Near(b)' = Near(b)
    BY <1>1 DEF Near
  <1>3. Loops'
    BY <1>1 DEF Loops, OneRunEach, Busy
  <1> QED  BY <1>2, <1>3

\* The order holds at the start, when nothing was begun.
LEMMA InitOrder == Init => OrderInv
  <1> SUFFICES ASSUME Init PROVE OrderInv
    OBVIOUS
  <1>1. PICK w : w = NewGrabber(FALSE)
    OBVIOUS
  <1>2. w.timers = 0 /\ OneLoop(w, FALSE, height)
    BY <1>1 DEF NewGrabber, OneLoop
  <1>3. grabbers = <<w>> /\ runs = <<>> /\ \A i \in DOMAIN grabbers : grabbers[i] = w
    <2>1. grabbers = <<w>> /\ runs = <<>>
      BY <1>1 DEF Init
    <2> QED  BY <2>1
  <1>4. Loops
    <2>1. \A i : Busy(i) = FALSE
      BY <1>3 DEF Busy
    <2>2. OneRunEach /\ DOMAIN runs = {}
      BY <1>3 DEF OneRunEach
    <2> QED  BY <1>2, <1>3, <2>1, <2>2 DEF Loops
  <1>5. Untouched
    BY <1>2, <1>3 DEF Init, Untouched
  <1>6. Distinct
    BY DEF Init, QueueInit, Distinct
  <1>7. {lags, crashes} \subseteq Nat
    BY DEF Init
  <1> QED  BY <1>4, <1>5, <1>6, <1>7 DEF OrderInv, Ordered, Settled

\* A step that leaves the loops alone, and settles or unsettles no block.
LEMMA RestKeepsOrder ==
  ASSUME IInv, Loops, Distinct,
         \/ Grow
         \/ \E b \in saves : Saved(b)
         \/ \E k \in DOMAIN executing : ActionDone(k) \/ ActionFails(k)
         \/ UNCHANGED vars
  PROVE  Loops' /\ Distinct' /\ (Ordered => Ordered')
  <1>1. CASE Grow
    <2>1. /\ height' = height + 1 /\ height \in Nat /\ ListsInv
          /\ UNCHANGED <<Blocks, saves, grabbers, runs, skipped, wipeOnStartup, reloadAPI,
                         queueVars>>
      BY <1>1, BoundsAssumption DEF Grow, IInv, GrabInv, Numbers
    <2>2. \A r \in DOMAIN runs : Grabber(r)' = Grabber(r)
      BY <2>1 DEF Grabber
    <2>3. ASSUME NEW i \in DOMAIN grabbers PROVE OneLoop(grabbers'[i], Busy(i)', height')
      <3>1. OneLoop(grabbers[i], Busy(i), height) /\ Busy(i)' = Busy(i)
        BY <2>1 DEF Loops, Busy
      <3>2. grabbers[i].currBlockNum \in Nat
        BY <2>1, ListFacts DEF GrabberSet
      <3>3. grabbers[i].currBlockNum <= height => grabbers[i].currBlockNum <= height'
        BY <2>1, <3>2
      <3> QED  BY <2>1, <3>1, <3>3 DEF OneLoop
    <2>4. OneRunEach' /\ \A r \in DOMAIN runs : InBatch(runs[r], Grabber(r))
      BY <2>1 DEF Loops, OneRunEach
    <2>5. Loops'
      BY <2>1, <2>2, <2>3, <2>4 DEF Loops
    <2>6. ASSUME NEW b \in Nat PROVE Settled(b) => Settled(b)'
      <3>1. Near(b) => Near(b)'
        BY <2>1, <2>2 DEF Near
      <3>2. Untouched => Untouched'
        BY <2>1 DEF Untouched
      <3>3. Missed(b) \/ Fresh(b) => Missed(b)' \/ Fresh(b)'
        BY <2>1 DEF Missed, Fresh, queueVars
      <3> QED  BY <3>1, <3>2, <3>3 DEF Settled
    <2>7. Distinct'
      BY <2>1 DEF Distinct, queueVars
    <2> QED  BY <2>5, <2>6, <2>7 DEF Ordered
  <1>2. ASSUME UNCHANGED <<height, grabbers, runs>>, Distinct',
               ASSUME NEW b \in Nat
               PROVE  Missed(b) \/ Fresh(b) => Missed(b)' \/ Fresh(b)',
               Untouched => Untouched'
        PROVE  Loops' /\ Distinct' /\ (Ordered => Ordered')
    <2>1. ASSUME NEW b \in Nat PROVE Loops' /\ Near(b)' = Near(b)
      BY <1>2, LoopsLeftAlone
    <2>2. Loops'
      <3>1. 0 \in Nat
        OBVIOUS
      <3> QED  BY <2>1, <3>1
    <2>3. ASSUME NEW b \in Nat PROVE Settled(b) => Settled(b)'
      BY <1>2, <2>1 DEF Settled
    <2> QED  BY <1>2, <2>2, <2>3 DEF Ordered
  <1>3. ASSUME NEW b \in saves, Saved(b)
        PROVE  Loops' /\ Distinct' /\ (Ordered => Ordered')
    <2>1. UNCHANGED <<height, grabbers, runs, skipped, wipeOnStartup, reloadAPI, queueVars>>
      BY <1>3 DEF Saved
    <2>2. ~Untouched
      BY <1>3 DEF Untouched
    <2>3. Distinct'
      BY <2>1 DEF Distinct, queueVars
    <2>4. ASSUME NEW c \in Nat PROVE Missed(c) \/ Fresh(c) => Missed(c)' \/ Fresh(c)'
      BY <2>1 DEF Missed, Fresh, queueVars
    <2> QED  BY <1>2, <2>1, <2>2, <2>3, <2>4
  <1>4. ASSUME NEW k \in DOMAIN executing, ActionDone(k) \/ ActionFails(k)
        PROVE  Loops' /\ Distinct' /\ (Ordered => Ordered')
    <2>1. UNCHANGED <<height, Blocks, saves, grabbers, runs>>
      BY <1>4 DEF ActionDone, ActionFails, grabVars
    <2>2. Untouched => Untouched'
      BY <2>1 DEF Untouched
    <2>3. Distinct' /\ \A c \in Nat : Missed(c) \/ Fresh(c) => Missed(c)' \/ Fresh(c)'
      BY <1>4, ActionsKeepOrder
    <2> QED  BY <1>2, <2>1, <2>2, <2>3
  <1>5. CASE UNCHANGED vars
    <2>1. /\ UNCHANGED <<height, Blocks, saves, grabbers, runs, skipped, wipeOnStartup, reloadAPI>>
          /\ UNCHANGED queueVars
      BY <1>5 DEF vars, grabVars
    <2>2. Untouched => Untouched'
      BY <2>1 DEF Untouched
    <2>3. Distinct'
      BY <2>1 DEF Distinct, queueVars
    <2>4. ASSUME NEW c \in Nat PROVE Missed(c) \/ Fresh(c) => Missed(c)' \/ Fresh(c)'
      BY <2>1 DEF Missed, Fresh, queueVars
    <2> QED  BY <1>2, <2>1, <2>2, <2>3, <2>4
  <1> QED  BY <1>1, <1>3, <1>4, <1>5

\* Every step keeps the order, as long as the masternode is not behind.
LEMMA NextOrder == IInv /\ IInv' /\ OrderInv /\ [Next]_vars => OrderInv'
  <1> SUFFICES ASSUME IInv, IInv', OrderInv, [Next]_vars PROVE OrderInv'
    OBVIOUS
  <1>1. /\ lags \in Nat /\ crashes \in Nat /\ Distinct
        /\ lags = 0 => Loops
        /\ Replayed => Ordered
    BY DEF OrderInv
  <1>2. ASSUME Distinct', lags' \in {lags, lags + 1}, UNCHANGED crashes,
               Loops /\ lags' = 0 => Loops' /\ (Ordered => Ordered')
        PROVE  OrderInv'
    <2>1. lags' \in Nat /\ (lags' = 0 => lags = 0)
      BY <1>1, <1>2
    <2>2. Replayed' => Replayed /\ lags' = 0
      BY <1>2, <2>1 DEF Replayed
    <2> QED  BY <1>1, <1>2, <2>1, <2>2 DEF OrderInv
  <1>3. ASSUME UNCHANGED applied PROVE Distinct'
    BY <1>1, <1>3 DEF Distinct
  <1>4. CASE \/ Grow
             \/ \E b \in saves : Saved(b)
             \/ \E k \in DOMAIN executing : ActionDone(k) \/ ActionFails(k)
             \/ UNCHANGED vars
    <2>1. UNCHANGED <<lags, crashes>>
      BY <1>4 DEF Grow, Saved, ActionDone, ActionFails, grabVars, vars
    <2>2. Loops => Loops' /\ Distinct' /\ (Ordered => Ordered')
      BY <1>1, <1>4, RestKeepsOrder
    <2>3. Distinct'
      <3>1. CASE \E k \in DOMAIN executing : ActionDone(k) \/ ActionFails(k)
        BY <1>1, <3>1, ActionsKeepOrder
      <3>2. CASE Grow \/ (\E b \in saves : Saved(b)) \/ UNCHANGED vars
        BY <1>3, <3>2 DEF Grow, Saved, vars, queueVars
      <3> QED  BY <1>4, <3>1, <3>2
    <2> QED  BY <1>2, <2>1, <2>2, <2>3
  <1>5. ASSUME NEW i \in DOMAIN grabbers, Connect(i) \/ ConnectFails(i) \/ FireTimer(i)
        PROVE  OrderInv'
    <2>1. UNCHANGED <<lags, crashes, applied>>
      BY <1>5 DEF Connect, ConnectFails, FireTimer, queueVars
    <2>2. Loops => Loops' /\ (Ordered => Ordered')
      BY <1>5, ConnectsKeepOrder
    <2> QED  BY <1>2, <1>3, <2>1, <2>2
  <1>6. ASSUME NEW r \in DOMAIN runs,
               \/ LatestFails(r) \/ LatestSlow(r) \/ Latest(r)
               \/ WipeBlocks(r) \/ WipeRest(r)
               \/ FetchBlock(r) \/ BlockAtLast(r) \/ Fetched(r) \/ processBlock(r)
        PROVE  OrderInv'
    <2>1. CASE LatestFails(r) \/ LatestSlow(r) \/ FetchBlock(r) \/ BlockAtLast(r) \/ Fetched(r)
      <3>1. UNCHANGED <<lags, crashes, applied>>
        BY <2>1 DEF LatestFails, LatestSlow, FetchBlock, BlockAtLast, Fetched, queueVars
      <3>2. Loops => Loops' /\ (Ordered => Ordered')
        BY <2>1, FetchesKeepOrder
      <3> QED  BY <1>2, <1>3, <3>1, <3>2
    <2>2. CASE Latest(r)
      <3>1. UNCHANGED <<crashes, applied>> /\ lags' \in {lags, lags + 1}
        BY <2>2 DEF Latest, queueVars
      <3>2. Loops /\ lags' = 0 => Loops' /\ (Ordered => Ordered')
        BY <1>1, <2>2, LatestKeepsOrder
      <3> QED  BY <1>2, <1>3, <3>1, <3>2
    <2>3. CASE WipeBlocks(r) \/ WipeRest(r)
      <3>1. UNCHANGED <<lags, crashes, applied>>
        BY <2>3 DEF WipeBlocks, WipeRest, queueVars
      <3>2. Loops => Loops' /\ (Ordered => Ordered')
        BY <2>3, WipesKeepOrder
      <3> QED  BY <1>2, <1>3, <3>1, <3>2
    <2>4. CASE processBlock(r)
      <3>1. UNCHANGED <<lags, crashes, applied>>
        BY <2>4 DEF processBlock, HandOver, SkipBlock, addToActionQue, queueVars
      <3>2. Loops => Loops' /\ (Ordered => Ordered')
        BY <2>4, BatchKeepsOrder
      <3> QED  BY <1>2, <1>3, <3>1, <3>2
    <2> QED  BY <1>6, <2>1, <2>2, <2>3, <2>4
  <1>7. CASE Watchdog
    <2>1. UNCHANGED <<lags, crashes, applied>>
      BY <1>7 DEF Watchdog, queueVars
    <2>2. Loops => Loops' /\ (Ordered => Ordered')
      BY <1>7, WatchdogKeepsOrder
    <2> QED  BY <1>2, <1>3, <2>1, <2>2
  <1>8. CASE Crash
    <2>1. UNCHANGED <<lags, applied>> /\ crashes' \in Nat
      BY <1>1, <1>8 DEF Crash, QueueLost
    <2>2. Loops' /\ (Replayed' => Ordered')
      BY <1>1, <1>8, CrashKeepsOrder
    <2> QED  BY <1>1, <1>3, <2>1, <2>2 DEF OrderInv
  <1> QED  BY <1>4, <1>5, <1>6, <1>7, <1>8 DEF Next

\* Grabbers that were given up wake up and hand old blocks over again, requests
\* fail or hang, actions throw, the process is killed: once all is quiet the
\* database has every block from StartBlock on, the last time each was applied
\* after all earlier blocks.
THEOREM DatabaseSettles == Spec => []SettlesInChainOrder
  <1>1. ASSUME IInv, OrderInv PROVE SettlesInChainOrder
    <2> SUFFICES ASSUME AtRest, skipped \union dropped = {}, Replayed
                 PROVE  /\ \A j, k \in DOMAIN applied :
                             j < k /\ applied[j] > StartBlock => applied[j] < applied[k]
                        /\ StartBlock + 1 .. height \subseteq Range(applied)
      BY DEF SettlesInChainOrder
    <2>1. /\ Ordered /\ Distinct /\ StartBlock \in Nat /\ height \in Nat
          /\ applied \in Seq(1 .. height)
      BY <1>1, BoundsAssumption DEF IInv, OrderInv, GrabInv, QueueInv, Numbers
    <2>2. ASSUME NEW b \in StartBlock + 1 .. height
          PROVE  \E p \in DOMAIN applied :
                   applied[p] = b /\ \A q \in DOMAIN applied : q > p => applied[q] > b
      <3>1. b \in Nat /\ b > StartBlock /\ b <= height
        BY <2>1
      <3>2. Settled(b)
        BY <2>1, <3>1 DEF Ordered
      <3>3. ~Untouched
        BY DEF AtRest, Untouched
      <3>4. ~Near(b)
        <4>1. ASSUME NEW i \in DOMAIN grabbers, grabbers[i].timers > 0
              PROVE  ~(grabbers[i].currBlockNum < b)
          <5>1. grabbers[i].currBlockNum = height
            BY <4>1 DEF AtRest
          <5> QED  BY <2>1, <3>1, <5>1
        <4>2. DOMAIN runs = {}
          BY DEF AtRest
        <4> QED  BY <4>1, <4>2 DEF Near
      <3>5. ~Missed(b)
        BY DEF AtRest, Missed
      <3>6. DOMAIN action_que = {}
        BY DEF AtRest
      <3> QED  BY <3>2, <3>3, <3>4, <3>5, <3>6 DEF Settled, Fresh
    <2>3. StartBlock + 1 .. height \subseteq Range(applied)
      BY <2>2 DEF Range
    <2>4. ASSUME NEW j \in DOMAIN applied, NEW k \in DOMAIN applied,
                 j < k, applied[j] > StartBlock
          PROVE  applied[j] < applied[k]
      <3>1. PICK b : b = applied[j]
        OBVIOUS
      <3>2. b \in 1 .. height
        BY <2>1, <3>1, ElementOfSeq, LenProperties
      <3>3. b \in StartBlock + 1 .. height
        BY <2>1, <2>4, <3>1, <3>2
      <3>4. PICK p \in DOMAIN applied :
              applied[p] = b /\ \A q \in DOMAIN applied : q > p => applied[q] > b
        BY <2>2, <3>3
      <3>5. p = j
        BY <2>1, <3>1, <3>4 DEF Distinct
      <3>6. applied[k] > b
        BY <2>1, <2>4, <3>4, <3>5, LenProperties
      <3>7. applied[k] \in 1 .. height
        BY <2>1, ElementOfSeq, LenProperties
      <3> QED  BY <3>1, <3>2, <3>6, <3>7
    <2> QED  BY <2>3, <2>4
  <1>2. Spec => []OrderInv
    <2>1. IInv /\ IInv' /\ OrderInv /\ [Next]_vars => OrderInv'
      BY NextOrder
    <2> QED  BY <2>1, InitOrder, Inductive, PTL DEF Spec
  <1> QED  BY <1>1, <1>2, Inductive, PTL
=============================================================================
