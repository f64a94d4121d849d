-------------------------- MODULE LoginQueue_proofs --------------------------
(***************************************************************************)
(* Proofs about LoginQueue, for every set of accounts, every supply of     *)
(* session addresses and every player limit.                               *)
(***************************************************************************)
EXTENDS LoginQueue, QueueLemmas

-----------------------------------------------------------------------------
(* Sequences without duplicates                                            *)

\* RemoveAt drops the element at position i and shifts the later ones.
LEMMA RemoveAtElements ==
    ASSUME NEW S, NEW q \in Seq(S), NEW i \in 1..Len(q)
    PROVE  /\ RemoveAt(q, i) \in Seq(S)
           /\ Len(RemoveAt(q, i)) = Len(q) - 1
           /\ \A j \in 1..(Len(q) - 1) :
                 RemoveAt(q, i)[j] = IF j < i THEN q[j] ELSE q[j + 1]
  <1> DEFINE l == SubSeq(q, 1, i - 1)
             r == SubSeq(q, i + 1, Len(q))
  <1>1. l \in Seq(S) /\ Len(l) = i - 1 /\ \A j \in 1..(i-1) : l[j] = q[j]
    OBVIOUS
  <1>2. r \in Seq(S) /\ Len(r) = Len(q) - i
            /\ \A j \in 1..(Len(q) - i) : r[j] = q[i + j]
    OBVIOUS
  <1> HIDE DEF l, r
  <1>3. /\ l \o r \in Seq(S)
        /\ Len(l \o r) = Len(l) + Len(r)
        /\ \A j \in 1..(Len(l) + Len(r)) :
              (l \o r)[j] = IF j <= Len(l) THEN l[j] ELSE r[j - Len(l)]
    BY <1>1, <1>2, ConcatProperties
  <1>4. ASSUME NEW j \in 1..(Len(q) - 1)
        PROVE  (l \o r)[j] = IF j < i THEN q[j] ELSE q[j + 1]
    <2>1. CASE j < i
      BY <2>1, <1>1, <1>2, <1>3
    <2>2. CASE ~(j < i)
      <3>1. (l \o r)[j] = r[j - (i - 1)]
        BY <2>2, <1>1, <1>2, <1>3
      <3>2. j - (i - 1) \in 1..(Len(q) - i) /\ i + (j - (i - 1)) = j + 1
        BY <2>2
      <3> QED  BY <2>2, <3>1, <3>2, <1>2
    <2> QED  BY <2>1, <2>2
  <1>5. RemoveAt(q, i) = l \o r
    BY DEF RemoveAt, l, r
  <1>6. Len(l \o r) = Len(q) - 1
    BY <1>1, <1>2, <1>3
  <1> QED  BY <1>3, <1>4, <1>5, <1>6

\* In a queue without duplicates GetQueuePos finds the place of a session.
LEMMA GetQueuePosFinds ==
    ASSUME NEW S, NEW q \in Seq(S), NoDuplicates(q), NEW s
    PROVE  /\ GetQueuePos(q, s) \in 0..Len(q)
           /\ GetQueuePos(q, s) > 0 <=> s \in Range(q)
           /\ GetQueuePos(q, s) > 0 => q[GetQueuePos(q, s)] = s
           /\ \A i \in 1..Len(q) : q[i] = s => GetQueuePos(q, s) = i
  <1>1. CASE s \notin Range(q)
    BY <1>1 DEF GetQueuePos, Range
  <1>2. CASE s \in Range(q)
    <2>1. PICK i \in 1..Len(q) : q[i] = s
      BY <1>2 DEF Range
    <2>2. \A j \in 1..Len(q) : q[j] = s => j = i
      BY <2>1 DEF NoDuplicates
    <2>3. GetQueuePos(q, s) = i
      BY <2>1, <2>2 DEF GetQueuePos
    <2> QED  BY <1>2, <2>1, <2>2, <2>3
  <1> QED  BY <1>1, <1>2

\* Erasing the element at position i of a queue without duplicates takes
\* exactly that element away.
LEMMA RemoveAtErases ==
    ASSUME NEW S, NEW q \in Seq(S), NoDuplicates(q), NEW i \in 1..Len(q)
    PROVE  /\ NoDuplicates(RemoveAt(q, i))
           /\ Range(RemoveAt(q, i)) = Range(q) \ {q[i]}
  <1> DEFINE r == RemoveAt(q, i)
  <1>1. /\ r \in Seq(S)
        /\ Len(r) = Len(q) - 1
        /\ \A j \in 1..(Len(q) - 1) : r[j] = IF j < i THEN q[j] ELSE q[j + 1]
    BY RemoveAtElements
  <1> HIDE DEF r
  <1>2. NoDuplicates(r)
    <2> SUFFICES ASSUME NEW j \in 1..Len(r), NEW k \in 1..Len(r), r[j] = r[k]
                 PROVE  j = k
      BY DEF NoDuplicates
    <2> DEFINE at(n) == IF n < i THEN n ELSE n + 1
    <2>1. /\ at(j) \in 1..Len(q) /\ r[j] = q[at(j)]
          /\ at(k) \in 1..Len(q) /\ r[k] = q[at(k)]
      BY <1>1
    <2>2. at(j) = at(k)
      BY <2>1 DEF NoDuplicates
    <2> QED  BY <2>2, <1>1
  <1>3. ASSUME NEW j \in 1..Len(r)
        PROVE  r[j] \in Range(q) \ {q[i]}
    <2> DEFINE m == IF j < i THEN j ELSE j + 1
    <2>1. m \in 1..Len(q) /\ m # i /\ r[j] = q[m]
      BY <1>1
    <2>2. q[m] # q[i] /\ q[m] \in Range(q)
      BY <2>1 DEF NoDuplicates, Range
    <2> QED  BY <2>1, <2>2
  <1>4. ASSUME NEW x \in Range(q) \ {q[i]}
        PROVE  \E j \in 1..Len(r) : r[j] = x
    <2>1. PICK m \in 1..Len(q) : q[m] = x /\ m # i
      BY DEF Range
    <2>2. CASE m < i
      BY <2>1, <2>2, <1>1
    <2>3. CASE m > i
      <3>1. m - 1 \in 1..Len(r) /\ r[m - 1] = q[(m - 1) + 1]
        BY <2>3, <1>1
      <3> QED  BY <2>1, <3>1
    <2> QED  BY <2>1, <2>2, <2>3
  <1>5. Range(r) = {r[j] : j \in 1..Len(r)}
    BY <1>1 DEF Range
  <1>6. Range(r) = Range(q) \ {q[i]}
    BY <1>3, <1>4, <1>5
  <1> QED  BY <1>2, <1>6 DEF r

\* So does taking the first element of a queue without duplicates.
LEMMA TailDrops ==
    ASSUME NEW S, NEW q \in Seq(S), NoDuplicates(q), q # <<>>
    PROVE  /\ Tail(q) \in Seq(S)
           /\ Len(Tail(q)) = Len(q) - 1
           /\ NoDuplicates(Tail(q))
           /\ Head(q) \in Range(q)
           /\ Range(Tail(q)) = Range(q) \ {Head(q)}
  <1> DEFINE r == Tail(q)
  <1>1. /\ r \in Seq(S)
        /\ Len(r) = Len(q) - 1
        /\ \A j \in 1..Len(r) : r[j] = q[j + 1]
        /\ Len(q) \in Nat \ {0}
        /\ Head(q) = q[1]
    OBVIOUS
  <1> HIDE DEF r
  <1>2. NoDuplicates(r)
    BY <1>1 DEF NoDuplicates
  <1>3. ASSUME NEW j \in 1..Len(r)
        PROVE  r[j] \in Range(q) \ {q[1]}
    <2>1. j + 1 \in 1..Len(q) /\ j + 1 # 1 /\ r[j] = q[j + 1]
      BY <1>1
    <2>2. q[j + 1] # q[1] /\ q[j + 1] \in Range(q)
      BY <1>1, <2>1 DEF NoDuplicates, Range
    <2> QED  BY <2>1, <2>2
  <1>4. ASSUME NEW x \in Range(q) \ {q[1]}
        PROVE  \E j \in 1..Len(r) : r[j] = x
    <2>1. PICK m \in 1..Len(q) : q[m] = x /\ m # 1
      BY DEF Range
    <2>2. m - 1 \in 1..Len(r) /\ r[m - 1] = q[(m - 1) + 1]
      BY <2>1, <1>1
    <2> QED  BY <2>1, <2>2
  <1>5. Range(r) = {r[j] : j \in 1..Len(r)}
    BY <1>1 DEF Range
  <1>6. Head(q) \in Range(q)
    BY <1>1 DEF Range
  <1>7. Range(r) = Range(q) \ {q[1]}
    BY <1>3, <1>4, <1>5
  <1> QED  BY <1>1, <1>2, <1>6, <1>7 DEF r

\* Appending a new element keeps a queue free of duplicates.
LEMMA AppendAdds ==
    ASSUME NEW S, NEW q \in Seq(S), NoDuplicates(q), NEW s \in S, s \notin Range(q)
    PROVE  /\ Append(q, s) \in Seq(S)
           /\ Len(Append(q, s)) = Len(q) + 1
           /\ \A i \in 1..Len(q) : Append(q, s)[i] = q[i] /\ q[i] # s
           /\ Append(q, s)[Len(q) + 1] = s
           /\ NoDuplicates(Append(q, s))
           /\ Range(Append(q, s)) = Range(q) \union {s}
  <1> DEFINE r == Append(q, s)
  <1>1. /\ r \in Seq(S)
        /\ Len(q) \in Nat
        /\ Len(r) = Len(q) + 1
        /\ \A i \in 1..Len(q) : r[i] = q[i]
        /\ r[Len(q) + 1] = s
    OBVIOUS
  <1>2. \A i \in 1..Len(q) : q[i] # s
    BY DEF Range
  <1> HIDE DEF r
  <1>3. \A i \in 1..Len(r) : i \in 1..Len(q) \/ i = Len(q) + 1
    BY <1>1
  <1>4. NoDuplicates(r)
    BY <1>1, <1>2, <1>3 DEF NoDuplicates
  <1>5. Range(r) = {r[i] : i \in 1..Len(r)}
    BY <1>1 DEF Range
  <1>6. Range(q) = {q[i] : i \in 1..Len(q)}
    BY DEF Range
  <1>7. ASSUME NEW x \in Range(r)  PROVE x \in Range(q) \union {s}
    BY <1>1, <1>3, <1>5, <1>6
  <1>8. ASSUME NEW x \in Range(q) \union {s}  PROVE x \in Range(r)
    <2>1. CASE x = s
      BY <2>1, <1>1, <1>5
    <2>2. CASE x \in Range(q)
      <3>1. PICK i \in 1..Len(q) : q[i] = x
        BY <2>2, <1>6
      <3>2. i \in 1..Len(r) /\ r[i] = x
        BY <1>1, <3>1
      <3> QED  BY <3>2, <1>5
    <2> QED  BY <2>1, <2>2
  <1>9. Range(r) = Range(q) \union {s}
    BY <1>7, <1>8
  <1> QED  BY <1>1, <1>2, <1>4, <1>9 DEF r

-----------------------------------------------------------------------------
(* RemoveQueuedPlayer                                                      *)

WaitType == [found : BOOLEAN, queue : Seq(Session), inQueue : SUBSET Session,
             told : [Session -> Nat]]

\* What the login queue w, its flags and its positions satisfy between calls
WaitOK(w) ==
    /\ w.queue \in Seq(Session)
    /\ NoDuplicates(w.queue)
    /\ w.inQueue \subseteq Session
    /\ Range(w.queue) \subseteq w.inQueue
    /\ w.told \in [Session -> Nat]
    /\ \A i \in 1..Len(w.queue) : w.told[w.queue[i]] = i

\* The closing loop of RemoveQueuedPlayer makes the positions right if those
\* before its first one are.
LEMMA TellPositionsTells ==
    ASSUME NEW q \in Seq(Session), NoDuplicates(q),
           NEW t \in [Session -> Nat], NEW first \in Nat \ {0},
           \A i \in 1..Len(q) : i < first => t[q[i]] = i
    PROVE  /\ TellPositions(t, q, first) \in [Session -> Nat]
           /\ \A i \in 1..Len(q) : TellPositions(t, q, first)[q[i]] = i
  <1>1. \A s \in Session : GetQueuePos(q, s) \in Nat
    BY GetQueuePosFinds
  <1>2. ASSUME NEW i \in 1..Len(q)
        PROVE  TellPositions(t, q, first)[q[i]] = i
    <2>1. q[i] \in Session
      OBVIOUS
    <2>2. GetQueuePos(q, q[i]) = i
      BY <2>1, GetQueuePosFinds
    <2> QED  BY <2>1, <2>2 DEF TellPositions
  <1> QED  BY <1>1, <1>2 DEF TellPositions

\* A call of RemoveQueuedPlayer keeps the queue well formed, takes s out of
\* it, lets nobody else in, and leaves no flag set on a session it takes out.
LEMMA RemoveQueuedPlayerOK ==
    ASSUME NEW w, WaitOK(w), NEW s \in Session
    PROVE  LET r == RemoveQueuedPlayer(w, s)
           IN  /\ r \in WaitType
               /\ WaitOK(r)
               /\ r.found <=> s \in Range(w.queue)
               /\ s \notin Range(r.queue)
               /\ Range(r.queue) \subseteq Range(w.queue)
               /\ r.inQueue \subseteq w.inQueue
               /\ r.inQueue \ Range(r.queue) \subseteq w.inQueue \ Range(w.queue)
  <1> DEFINE pos   == GetQueuePos(w.queue, s)
             found == pos > 0
             rest  == IF found THEN RemoveAt(w.queue, pos) ELSE w.queue
             active == ActiveSessionCount(w.queue)
             sessions == SessionsLeft(active, found)
             admit == /\ m_playerLimit = 0 \/ sessions < m_playerLimit
                      /\ rest # <<>>
             queue == IF admit THEN Tail(rest) ELSE rest
             first == IF admit THEN 1 ELSE IF found THEN pos ELSE Len(queue) + 1
             admitted == IF admit THEN {Head(rest)} ELSE {}
             base == [x \in Session |-> IF x \in admitted THEN 0 ELSE w.told[x]]
             r == RemoveQueuedPlayer(w, s)
  <1>1. /\ pos \in 0..Len(w.queue)
        /\ found <=> s \in Range(w.queue)
        /\ found => w.queue[pos] = s
    BY GetQueuePosFinds DEF WaitOK
  <1>2. /\ rest \in Seq(Session)
        /\ NoDuplicates(rest)
        /\ Range(rest) = Range(w.queue) \ {s}
        /\ found => /\ Len(rest) = Len(w.queue) - 1
                    /\ \A i \in 1..Len(rest) : i < pos => rest[i] = w.queue[i]
    <2>1. CASE ~found
      BY <2>1, <1>1 DEF WaitOK
    <2>2. CASE found
      <3>1. /\ w.queue \in Seq(Session)
            /\ NoDuplicates(w.queue)
            /\ pos \in 1..Len(w.queue)
            /\ rest = RemoveAt(w.queue, pos)
        BY <2>2, <1>1 DEF WaitOK
      <3> HIDE DEF pos, rest
      <3> DEFINE q == w.queue
      <3> HIDE DEF q
      <3>2. q \in Seq(Session) /\ NoDuplicates(q) /\ pos \in 1..Len(q)
        BY <3>1 DEF q
      <3>3. /\ RemoveAt(q, pos) \in Seq(Session)
            /\ Len(RemoveAt(q, pos)) = Len(q) - 1
            /\ \A j \in 1..(Len(q) - 1) : j < pos => RemoveAt(q, pos)[j] = q[j]
        BY <3>2, RemoveAtElements
      <3>4. /\ NoDuplicates(RemoveAt(q, pos))
            /\ Range(RemoveAt(q, pos)) = Range(q) \ {q[pos]}
        BY <3>2, RemoveAtErases
      <3> QED  BY <3>1, <3>3, <3>4, <1>1, <2>2 DEF q
    <2> QED  BY <2>1, <2>2
  <1>3. /\ queue \in Seq(Session)
        /\ NoDuplicates(queue)
        /\ Range(queue) = Range(rest) \ admitted
        /\ admitted \subseteq Range(rest)
    <2> HIDE DEF rest
    <2>1. CASE admit
      BY <2>1, <1>2, TailDrops
    <2>2. CASE ~admit
      BY <2>2, <1>2
    <2> QED  BY <2>1, <2>2
  <1>4. base \in [Session -> Nat]
    BY DEF WaitOK
  <1>5. /\ first \in Nat \ {0}
        /\ \A i \in 1..Len(queue) : i < first => base[queue[i]] = i
    <2> HIDE DEF rest, pos
    <2>1. CASE admit
      BY <2>1, <1>3
    <2>2. CASE ~admit /\ found
      <3>1. queue = rest /\ first = pos /\ admitted = {}
        BY <2>2
      <3>2. ASSUME NEW i \in 1..Len(queue), i < first
            PROVE  base[queue[i]] = i
        <4>1. i \in 1..Len(w.queue) /\ queue[i] = w.queue[i]
          BY <3>1, <3>2, <1>1, <1>2, <2>2
        <4>2. w.told[w.queue[i]] = i /\ queue[i] \in Session
          BY <4>1, <1>3 DEF WaitOK
        <4> QED  BY <4>1, <4>2, <3>1
      <3> QED  BY <3>1, <3>2, <1>1, <2>2
    <2>3. CASE ~admit /\ ~found
      <3>1. queue = w.queue /\ first = Len(w.queue) + 1 /\ admitted = {}
        BY <2>3 DEF rest
      <3>2. ASSUME NEW i \in 1..Len(queue)
            PROVE  base[queue[i]] = i
        <4> HIDE DEF queue, admitted
        <4>1. i \in 1..Len(w.queue)
          BY <3>1
        <4>2. w.told[w.queue[i]] = i /\ w.queue[i] \in Session
          BY <4>1 DEF WaitOK
        <4> QED  BY <4>2, <3>1
      <3>3. Len(w.queue) \in Nat
        BY DEF WaitOK
      <3> QED  BY <3>1, <3>2, <3>3
    <2> QED  BY <2>1, <2>2, <2>3
  <1>6. /\ r.found <=> found
        /\ r.queue = queue
        /\ r.inQueue = w.inQueue \ ((IF found THEN {s} ELSE {}) \union admitted)
        /\ r.told = TellPositions(base, queue, first)
        /\ r = [found |-> found, queue |-> queue, inQueue |-> r.inQueue,
                 told |-> r.told]
    BY Zenon DEF RemoveQueuedPlayer
  <1> found \in BOOLEAN
    OBVIOUS
  <1> HIDE DEF pos, rest, queue, first, admitted, base, r, found
  <1>7. /\ r.told \in [Session -> Nat]
        /\ \A i \in 1..Len(r.queue) : r.told[r.queue[i]] = i
    <2>1. /\ TellPositions(base, queue, first) \in [Session -> Nat]
          /\ \A i \in 1..Len(queue) : TellPositions(base, queue, first)[queue[i]] = i
      BY <1>3, <1>4, <1>5, TellPositionsTells
    <2> QED  BY <1>6, <2>1
  <1>8. Range(r.queue) \subseteq r.inQueue
    BY <1>1, <1>2, <1>3, <1>6 DEF WaitOK
  <1>9. WaitOK(r)
    BY <1>3, <1>6, <1>7, <1>8 DEF WaitOK
  <1>10. r.inQueue \ Range(r.queue) \subseteq w.inQueue \ Range(w.queue)
    BY <1>1, <1>2, <1>3, <1>6
  <1>11. r \in WaitType
    BY <1>6, <1>9 DEF WaitOK, WaitType
  <1> QED  BY <1>1, <1>2, <1>3, <1>6, <1>9, <1>10, <1>11 DEF r

\* Putting a session that does not wait at the end of the queue keeps it well
\* formed.
LEMMA AddQueuedPlayerOK ==
    ASSUME NEW w \in WaitType, WaitOK(w), NEW s \in Session, s \notin Range(w.queue)
    PROVE  LET r == AddQueuedPlayer(w, s)
           IN  /\ WaitOK(r)
               /\ Range(r.queue) = Range(w.queue) \union {s}
               /\ r.inQueue = w.inQueue \union {s}
               /\ Len(r.queue) = Len(w.queue) + 1
  <1> DEFINE r == AddQueuedPlayer(w, s)
             wq == w.queue
             wt == w.told
             q == Append(wq, s)
             t == [wt EXCEPT ![s] = GetQueuePos(q, s)]
  <1>1. r.queue = q /\ r.inQueue = w.inQueue \union {s} /\ r.told = t
    BY DEF AddQueuedPlayer, WaitType
  <1>2. /\ wq \in Seq(Session)
        /\ NoDuplicates(wq)
        /\ s \notin Range(wq)
        /\ wt \in [Session -> Nat]
        /\ \A i \in 1..Len(wq) : wt[wq[i]] = i
        /\ Range(wq) \subseteq w.inQueue /\ w.inQueue \subseteq Session
    BY DEF WaitOK
  <1> HIDE DEF wq, wt, r
  <1>3. /\ q \in Seq(Session)
        /\ Len(q) = Len(wq) + 1
        /\ \A i \in 1..Len(wq) : q[i] = wq[i] /\ wq[i] # s
        /\ q[Len(wq) + 1] = s
        /\ NoDuplicates(q)
        /\ Range(q) = Range(wq) \union {s}
    BY <1>2, AppendAdds
  <1>4. Len(wq) \in Nat /\ \A i \in 1..Len(wq) : wq[i] \in Session
    BY <1>2
  <1> HIDE DEF q
  <1>8. GetQueuePos(q, s) = Len(q) /\ Len(q) \in Nat
    <2>1. Len(q) \in Nat /\ Len(q) \in 1..Len(q) /\ q[Len(q)] = s
      BY <1>3, <1>4
    <2>2. \A i \in 1..Len(q) : q[i] = s => GetQueuePos(q, s) = i
      BY <1>3, GetQueuePosFinds
    <2> QED  BY <2>1, <2>2
  <1>9. t \in [Session -> Nat] /\ \A i \in 1..Len(q) : t[q[i]] = i
    <2>1. t \in [Session -> Nat]
      BY <1>2, <1>8
    <2>2. t[s] = Len(q)
      BY <1>2, <1>8
    <2>3. ASSUME NEW i \in 1..Len(wq)  PROVE t[q[i]] = i
      BY <1>2, <1>3, <1>4
    <2>4. ASSUME NEW i \in 1..Len(q)  PROVE i \in 1..Len(wq) \/ i = Len(q)
      BY <1>3, <1>4
    <2> HIDE DEF t
    <2> QED  BY <2>1, <2>2, <2>3, <2>4, <1>3, <1>4
  <1> HIDE DEF t
  <1>10. WaitOK(r)
    BY <1>1, <1>2, <1>3, <1>9 DEF WaitOK
  <1> QED  BY <1>1, <1>3, <1>10 DEF r, wq

-----------------------------------------------------------------------------
(* The invariant                                                           *)

\* Together the invariants are inductive; none is by itself.
IInv ==
    /\ TypeOK
    /\ SingleOwner
    /\ QueueRegistered
    /\ FlagWhileWaiting
    /\ PositionsTold

\* The queue, flags and positions of a state of the invariant are well formed.
LEMMA WaitingOK == IInv => WaitOK(Waiting) /\ Waiting \in WaitType
  <1> SUFFICES ASSUME IInv PROVE WaitOK(Waiting) /\ Waiting \in WaitType
    OBVIOUS
  <1>1. Range(m_QueuedPlayer) \subseteq inQueue
    <2>1. Range(m_QueuedPlayer) \subseteq Session
      BY DEF IInv, TypeOK, Range
    <2>2. Range(m_QueuedPlayer) \subseteq Live
      BY <2>1, LoginQueueAssumption DEF IInv, QueueRegistered, Live
    <2> QED  BY <2>2 DEF IInv, FlagWhileWaiting
  <1> QED  BY <1>1 DEF IInv, WaitOK, WaitType, Waiting, TypeOK, QueueRegistered,
                         PositionsTold, Live

\* The invariant holds when the server starts.
LEMMA InitIInv == Init => IInv
  <1> SUFFICES ASSUME Init PROVE IInv
    OBVIOUS
  <1>1. Live = {} /\ Registered = {} /\ Len(<<>>) = 0
    BY DEF Init, Live, Registered
  <1>2. TypeOK
    <2>1. /\ account \in [Session -> Account \union {NoAccount}]
          /\ told \in [Session -> Nat]
          /\ m_sessions \in [Account -> Session \union {NoSession}]
      BY DEF Init
    <2>2. addSessQueue \in Seq(Session) /\ m_QueuedPlayer \in Seq(Session)
      BY DEF Init
    <2> QED  BY <2>1, <2>2, LoginQueueAssumption DEF Init, TypeOK
  <1>3. Range(addSessQueue) = {} /\ Range(m_QueuedPlayer) = {}
    BY DEF Init, Range
  <1>4. SingleOwner /\ QueueRegistered /\ FlagWhileWaiting /\ PositionsTold
    BY <1>1, <1>3 DEF Init, SingleOwner, QueueRegistered, FlagWhileWaiting,
                      PositionsTold, NoDuplicates
  <1> QED  BY <1>2, <1>4 DEF IInv

\* Every step of the network and of the world thread keeps the invariant.
LEMMA NextIInv == IInv /\ [Next]_vars => IInv'
  <1> SUFFICES ASSUME IInv, [Next]_vars PROVE IInv'
    OBVIOUS
  <1> USE LoginQueueAssumption
  <1>0. WaitOK(Waiting) /\ Waiting \in WaitType
    BY WaitingOK
  <1>1. ASSUME NEW s \in Session, NEW a \in Account, AddSession(s, a)
        PROVE  IInv'
    <2>1. Live' = Live \union {s} /\ s \notin Live /\ s \notin Range(addSessQueue)
      BY <1>1 DEF AddSession, Live, IInv, TypeOK, SingleOwner
    <2>2. /\ Range(addSessQueue') = Range(addSessQueue) \union {s}
          /\ NoDuplicates(addSessQueue')
          /\ addSessQueue' \in Seq(Session)
      BY <1>1, <2>1, AppendAdds DEF AddSession, IInv, TypeOK, SingleOwner
    <2>3. TypeOK'
      BY <1>1, <2>1, <2>2 DEF AddSession, IInv, TypeOK, worldVars, tickVars, Registered
    <2>4. \A x \in Session \ {s} : account'[x] = account[x]
      BY <1>1 DEF AddSession, IInv, TypeOK
    <2>5. account'[s] = a /\ \A b \in Registered : m_sessions[b] # s
      BY <1>1, <2>1 DEF AddSession, IInv, TypeOK, SingleOwner, Registered, Live
    <2>6. SingleOwner'
      BY <1>1, <2>1, <2>2, <2>4, <2>5
         DEF AddSession, IInv, TypeOK, SingleOwner, worldVars, Registered, Live
    <2>7. QueueRegistered'
      BY <1>1, <2>1, <2>4, <1>0
         DEF AddSession, IInv, QueueRegistered, worldVars, WaitOK, Waiting, Live, Range
    <2>8. FlagWhileWaiting' /\ PositionsTold'
      BY <1>1, <2>1 DEF AddSession, IInv, TypeOK, FlagWhileWaiting, PositionsTold,
                        worldVars, QueueRegistered, Live
    <2> QED  BY <2>3, <2>6, <2>7, <2>8 DEF IInv
  <1>2. ASSUME NEW s \in Session, CloseSocket(s)
        PROVE  IInv'
    BY <1>2 DEF CloseSocket, IInv, TypeOK, SingleOwner, QueueRegistered,
                FlagWhileWaiting, PositionsTold, worldVars, tickVars, Live, Registered
  <1>3. ASSUME RejectSession  PROVE IInv'
    <2> DEFINE s == Head(addSessQueue)
    <2>1. /\ addSessQueue' \in Seq(Session)
          /\ NoDuplicates(addSessQueue')
          /\ s \in Range(addSessQueue)
          /\ Range(addSessQueue') = Range(addSessQueue) \ {s}
      BY <1>3, TailDrops DEF RejectSession, IInv, TypeOK, SingleOwner
    <2>2. s \in Live /\ m_sessions[account[s]] # s /\ s \in Session
      BY <2>1 DEF IInv, SingleOwner, Live
    <2>3. /\ m_QueuedPlayer' = m_QueuedPlayer
          /\ inQueue' = inQueue \ {s}
          /\ told' = [x \in Session |-> IF x = s THEN 0 ELSE told[x]]
          /\ account' = [x \in Session |-> IF x = s THEN NoAccount ELSE account[x]]
          /\ closed' = closed \ {s}
          /\ loading' = loading \ {s}
          /\ UNCHANGED <<m_sessions, m_disconnects, m_playerLimit, tickVars>>
      BY <1>3 DEF RejectSession, SetWaitingAndDelete, Waiting
    <2> HIDE DEF s
    <2>4. /\ Live' = Live \ {s} /\ Registered' = Registered
          /\ \A x \in Live' : account'[x] = account[x]
          /\ s \notin Range(m_QueuedPlayer)
      BY <2>2, <2>3 DEF Live, Registered, IInv, QueueRegistered
    <2>5. TypeOK'
      BY <2>1, <2>3, <2>4 DEF IInv, TypeOK, tickVars
    <2>6. SingleOwner'
      BY <2>1, <2>2, <2>3, <2>4 DEF IInv, TypeOK, SingleOwner, Registered, Live
    <2>7. QueueRegistered' /\ FlagWhileWaiting'
      BY <2>2, <2>3, <2>4, <1>0 DEF IInv, TypeOK, QueueRegistered, FlagWhileWaiting,
                               Live, WaitOK, Waiting, Range
    <2>8. PositionsTold'
      BY <2>3, <2>4 DEF IInv, TypeOK, PositionsTold, Range
    <2> QED  BY <2>5, <2>6, <2>7, <2>8 DEF IInv
  <1>4. ASSUME BeginUpdate \/ EndUpdate \/ NextTick \/ Stopped
               \/ \E n \in Limits : SetPlayerAmountLimit(n)
        PROVE  IInv'
    BY <1>4 DEF BeginUpdate, EndUpdate, NextTick, Stopped, SetPlayerAmountLimit, IInv,
                TypeOK, SingleOwner, QueueRegistered, FlagWhileWaiting, PositionsTold,
                sessionVars, worldVars, tickVars, vars, Live, Registered
  <1>5. ASSUME NEW a \in Account, KeepSession(a)  PROVE IInv'
    <2>1. m_sessions[a] \in Live
      BY <1>5 DEF KeepSession, IInv, TypeOK, SingleOwner, Registered, Live
    <2> QED  BY <1>5, <2>1 DEF KeepSession, IInv, TypeOK, SingleOwner, QueueRegistered,
                FlagWhileWaiting, PositionsTold, worldVars, Live, Registered
  <1>6. ASSUME KickAllLess  PROVE IInv'
    <2>1. {m_sessions[b] : b \in Registered \ Staff} \subseteq Live
      BY DEF IInv, TypeOK, SingleOwner, Registered, Live
    <2> QED  BY <1>6, <2>1 DEF KickAllLess, IInv, TypeOK, SingleOwner, QueueRegistered,
                FlagWhileWaiting, PositionsTold, worldVars, tickVars, Live, Registered
  <1>7. ASSUME KickAll  PROVE IInv'
    <2>1. {m_sessions[b] : b \in Registered} \subseteq Live
      BY DEF IInv, TypeOK, SingleOwner, Registered, Live
    <2>2. Range(m_QueuedPlayer) \subseteq closed' /\ Range(m_QueuedPlayer') = {}
      <3>1. Range(m_QueuedPlayer) \subseteq Session
        BY DEF IInv, TypeOK, Range
      <3>2. \A x \in Range(m_QueuedPlayer) : x \in closed'
        BY <1>7, <3>1 DEF KickAll, IInv, QueueRegistered, Registered
      <3>3. Range(m_QueuedPlayer') = {}
        BY <1>7 DEF KickAll, Range
      <3> QED  BY <3>2, <3>3
    <2>3. TypeOK' /\ SingleOwner'
      BY <1>7, <2>1 DEF KickAll, IInv, TypeOK, SingleOwner, Live, Registered
    <2>4. QueueRegistered' /\ FlagWhileWaiting' /\ PositionsTold'
      BY <1>7, <2>2 DEF KickAll, IInv, QueueRegistered, FlagWhileWaiting,
                        PositionsTold, NoDuplicates, Live
    <2> QED  BY <2>3, <2>4 DEF IInv
  <1>8. ASSUME AdmitSession  PROVE IInv'
    <2> DEFINE s        == Head(addSessQueue)
               a        == account[s]
               old      == m_sessions[a]
               w        == RemoveOldSession(old)
               total    == Cardinality(Registered \union {a})
               sessions == IF w.found THEN total ELSE total - 1
               full     == WorldFull(a, sessions)
               v        == IF full THEN AddQueuedPlayer(w, s) ELSE w
    <2>1. /\ addSessQueue' \in Seq(Session)
          /\ NoDuplicates(addSessQueue')
          /\ s \in Range(addSessQueue)
          /\ Range(addSessQueue') = Range(addSessQueue) \ {s}
      BY <1>8, TailDrops DEF AdmitSession, IInv, TypeOK, SingleOwner
    <2>2. s \in Live /\ s \in Session /\ a \in Account /\ old # s
      BY <2>1 DEF IInv, TypeOK, SingleOwner, Live
    <2>3. /\ SetWaitingAndDelete(v, old)
          /\ m_sessions' = [m_sessions EXCEPT ![a] = s]
          /\ UNCHANGED <<m_disconnects, m_playerLimit, tickVars>>
      BY <1>8 DEF AdmitSession
    <2> HIDE DEF s, a, total
    <2>4. old # NoSession => old \in Live /\ old \in Session /\ account[old] = a
      BY <2>2, LoginQueueAssumption DEF IInv, TypeOK, SingleOwner, Registered, Live
    <2>5. s \notin Range(m_QueuedPlayer)
      BY <2>2 DEF IInv, QueueRegistered, a
    <2>6. /\ w \in WaitType /\ WaitOK(w)
          /\ Range(w.queue) \subseteq Range(m_QueuedPlayer)
          /\ old \notin Range(w.queue)
          /\ w.inQueue \subseteq inQueue
          /\ w.inQueue \ Range(w.queue) \subseteq inQueue \ Range(m_QueuedPlayer)
      <3>1. CASE old = NoSession
        <4>1. w = Waiting /\ Range(m_QueuedPlayer) \subseteq Session
          BY <3>1, <1>0 DEF IInv, TypeOK, Range, RemoveOldSession
        <4> QED  BY <3>1, <4>1, <1>0 DEF Waiting
      <3>2. CASE old # NoSession
        <4>1. w = RemoveQueuedPlayer(Waiting, old)
          BY <3>2 DEF RemoveOldSession
        <4>2. Waiting.queue = m_QueuedPlayer /\ Waiting.inQueue = inQueue
          BY DEF Waiting
        <4> HIDE DEF w, old
        <4> QED  BY <3>2, <4>1, <4>2, <2>4, <1>0, RemoveQueuedPlayerOK
      <3> QED  BY <3>1, <3>2
    <2> HIDE DEF old, w, full
    <2>7. /\ WaitOK(v)
          /\ Range(v.queue) \subseteq Range(m_QueuedPlayer) \union {s}
          /\ old \notin Range(v.queue)
          /\ v.inQueue \subseteq inQueue \union {s}
          /\ v.inQueue \ Range(v.queue) \subseteq inQueue \ Range(m_QueuedPlayer)
      <3>1. CASE ~full
        BY <3>1, <2>6
      <3>2. CASE full
        <4>1. v = AddQueuedPlayer(w, s) /\ s \notin Range(w.queue)
          BY <3>2, <2>5, <2>6
        <4> HIDE DEF v
        <4>2. /\ WaitOK(v)
              /\ Range(v.queue) = Range(w.queue) \union {s}
              /\ v.inQueue = w.inQueue \union {s}
          BY <4>1, <2>2, <2>6, AddQueuedPlayerOK
        <4> QED  BY <4>2, <2>2, <2>6
      <3> QED  BY <3>1, <3>2
    <2> HIDE DEF v
    <2>8. /\ m_QueuedPlayer' = v.queue
          /\ inQueue' = v.inQueue \ {old}
          /\ told' = [x \in Session |-> IF x = old THEN 0 ELSE v.told[x]]
          /\ account' = [x \in Session |-> IF x = old THEN NoAccount ELSE account[x]]
          /\ closed' = closed \ {old}
          /\ loading' = loading \ {old}
      BY <2>3 DEF SetWaitingAndDelete
    <2>9. /\ Live' = Live \ {old}
          /\ \A x \in Live' : account'[x] = account[x]
          /\ Registered' = Registered \union {a}
          /\ account[s] = a
      BY <2>2, <2>3, <2>8, LoginQueueAssumption
         DEF Live, Registered, IInv, TypeOK, a
    <2>10. TypeOK'
      <3>1. v.queue \in Seq(Session) /\ v.told \in [Session -> Nat]
        BY <2>7 DEF WaitOK
      <3>2. inQueue' \subseteq Live' /\ closed' \subseteq Live' /\ loading' \subseteq Live'
        BY <2>2, <2>7, <2>8, <2>9 DEF IInv, TypeOK
      <3> QED  BY <2>1, <2>2, <2>3, <2>8, <2>9, <3>1, <3>2 DEF IInv, TypeOK, tickVars
    <2>11. SingleOwner'
      <3>1. ASSUME NEW b \in Registered'  PROVE account'[m_sessions'[b]] = b
        <4>1. CASE b = a
          BY <4>1, <2>2, <2>3, <2>8, <2>9 DEF IInv, TypeOK
        <4>2. CASE b # a
          BY <4>2, <2>2, <2>3, <2>4, <2>8, <2>9 DEF IInv, TypeOK, SingleOwner, Registered
        <4> QED  BY <4>1, <4>2
      <3>2. Range(addSessQueue') \subseteq Live'
        <4>1. old \in Live => m_sessions[account[old]] = old
          BY <2>4, LoginQueueAssumption DEF old, Live
        <4>2. old \notin Range(addSessQueue)
          BY <4>1 DEF IInv, SingleOwner
        <4> QED  BY <4>2, <2>1, <2>9 DEF IInv, SingleOwner
      <3>3. ASSUME NEW x \in Live'
            PROVE  x \in Range(addSessQueue') <=> m_sessions'[account'[x]] # x
        <4>1. x \in Live /\ x # old /\ account'[x] = account[x] /\ account[x] \in Account
          BY <2>9 DEF IInv, TypeOK, Live
        <4>2. CASE x = s
          BY <4>1, <4>2, <2>1, <2>2, <2>3, <2>9 DEF IInv, TypeOK
        <4>3. CASE x # s /\ account[x] = a
          BY <4>1, <4>3, <2>1, <2>2, <2>3, <2>9 DEF IInv, TypeOK, SingleOwner, old
        <4>4. CASE x # s /\ account[x] # a
          BY <4>1, <4>4, <2>1, <2>2, <2>3, <2>9 DEF IInv, TypeOK, SingleOwner
        <4> QED  BY <4>2, <4>3, <4>4
      <3> QED  BY <2>1, <3>1, <3>2, <3>3 DEF SingleOwner
    <2>12. QueueRegistered'
      <3>1. ASSUME NEW x \in Range(v.queue)
            PROVE  account'[x] \in Account /\ m_sessions'[account'[x]] = x
        <4>1. x # old /\ x \in Session /\ account'[x] = account[x]
          BY <2>7, <2>8 DEF WaitOK
        <4>2. CASE x = s
          BY <4>1, <4>2, <2>2, <2>3, <2>9 DEF IInv, TypeOK
        <4>3. CASE x # s
          <5>1. account[x] \in Account /\ m_sessions[account[x]] = x
            BY <4>3, <2>7 DEF IInv, QueueRegistered
          <5>2. account[x] # a
            BY <4>1, <5>1 DEF old
          <5> QED  BY <4>1, <5>1, <5>2, <2>2, <2>3 DEF IInv, TypeOK
        <4> QED  BY <4>2, <4>3
      <3> QED  BY <2>7, <2>8, <3>1 DEF QueueRegistered, WaitOK
    <2>13. FlagWhileWaiting'
      BY <2>7, <2>8, <2>9 DEF IInv, FlagWhileWaiting, TypeOK, WaitOK
    <2>14. PositionsTold'
      BY <2>7, <2>8 DEF PositionsTold, WaitOK, Range
    <2> QED  BY <2>10, <2>11, <2>12, <2>13, <2>14 DEF IInv
  <1>9. ASSUME NEW a \in Account, DropSession(a)  PROVE IInv'
    <2> DEFINE s  == m_sessions[a]
               w1 == RemoveQueuedPlayer(Waiting, s)
               w2 == RemoveQueuedPlayer(w1, s)
    <2>1. /\ SetWaitingAndDelete(w2, s)
          /\ m_sessions' = [m_sessions EXCEPT ![a] = NoSession]
          /\ m_disconnects' \in {m_disconnects, m_disconnects \union {a}}
          /\ a \in todo /\ todo' = todo \ {a}
          /\ UNCHANGED <<addSessQueue, m_playerLimit, phase, m_stopEvent>>
      BY <1>9 DEF DropSession
    <2>2. a \in Registered /\ s \in Session /\ s \in Live /\ account[s] = a
      BY <2>1 DEF IInv, TypeOK, SingleOwner, Registered, Live
    <2> HIDE DEF s
    <2>3. /\ w1 \in WaitType /\ WaitOK(w1)
          /\ Range(w1.queue) \subseteq Range(Waiting.queue)
          /\ w1.inQueue \subseteq Waiting.inQueue
          /\ w1.inQueue \ Range(w1.queue) \subseteq Waiting.inQueue \ Range(Waiting.queue)
      BY <2>2, <1>0, RemoveQueuedPlayerOK
    <2> HIDE DEF w1
    <2>4. /\ WaitOK(w2)
          /\ s \notin Range(w2.queue)
          /\ Range(w2.queue) \subseteq Range(w1.queue)
          /\ w2.inQueue \subseteq w1.inQueue
          /\ w2.inQueue \ Range(w2.queue) \subseteq w1.inQueue \ Range(w1.queue)
      BY <2>2, <2>3, RemoveQueuedPlayerOK
    <2> HIDE DEF w2
    <2>5. /\ Range(w2.queue) \subseteq Range(m_QueuedPlayer)
          /\ w2.inQueue \subseteq inQueue
          /\ w2.inQueue \ Range(w2.queue) \subseteq inQueue \ Range(m_QueuedPlayer)
      BY <2>3, <2>4 DEF Waiting
    <2>6. /\ m_QueuedPlayer' = w2.queue
          /\ inQueue' = w2.inQueue \ {s}
          /\ told' = [x \in Session |-> IF x = s THEN 0 ELSE w2.told[x]]
          /\ account' = [x \in Session |-> IF x = s THEN NoAccount ELSE account[x]]
          /\ closed' = closed \ {s}
          /\ loading' = loading \ {s}
      BY <2>1 DEF SetWaitingAndDelete
    <2>7. /\ Live' = Live \ {s}
          /\ \A x \in Live' : account'[x] = account[x]
          /\ Registered' = Registered \ {a}
      BY <2>1, <2>2, <2>6 DEF Live, Registered, IInv, TypeOK
    <2>8. TypeOK'
      <3>1. w2.queue \in Seq(Session) /\ w2.told \in [Session -> Nat]
        BY <2>4 DEF WaitOK
      <3>2. inQueue' \subseteq Live' /\ closed' \subseteq Live' /\ loading' \subseteq Live'
        BY <2>5, <2>6, <2>7 DEF IInv, TypeOK
      <3>3. m_disconnects' \subseteq Account /\ todo' \subseteq Registered'
        BY <2>1, <2>7 DEF IInv, TypeOK
      <3> QED  BY <2>1, <2>6, <3>1, <3>2, <3>3 DEF IInv, TypeOK
    <2>9. SingleOwner'
      <3>1. \A b \in Registered' : account'[m_sessions'[b]] = b
        BY <2>1, <2>2, <2>6, <2>7 DEF IInv, TypeOK, SingleOwner, Registered
      <3>2. s \notin Range(addSessQueue)
        BY <2>2 DEF IInv, SingleOwner, s
      <3>3. ASSUME NEW x \in Live'
            PROVE  x \in Range(addSessQueue) <=> m_sessions'[account'[x]] # x
        <4>1. x \in Live /\ x # s /\ account'[x] = account[x] /\ account[x] \in Account
          BY <2>7 DEF IInv, TypeOK, Live
        <4>2. CASE account[x] = a
          BY <4>1, <4>2, <2>1, <2>2 DEF IInv, TypeOK, SingleOwner, Live, s
        <4>3. CASE account[x] # a
          BY <4>1, <4>3, <2>1 DEF IInv, TypeOK, SingleOwner
        <4> QED  BY <4>2, <4>3
      <3> QED  BY <2>1, <2>7, <3>1, <3>2, <3>3 DEF IInv, SingleOwner
    <2>10. QueueRegistered'
      <3>1. ASSUME NEW x \in Range(w2.queue)
            PROVE  account'[x] \in Account /\ m_sessions'[account'[x]] = x
        <4>1. x # s /\ x \in Session /\ account'[x] = account[x]
          BY <2>4, <2>6 DEF WaitOK
        <4>2. account[x] \in Account /\ m_sessions[account[x]] = x
          BY <2>5 DEF IInv, QueueRegistered
        <4>3. account[x] # a
          BY <4>1, <4>2 DEF s
        <4> QED  BY <4>1, <4>2, <4>3, <2>1 DEF IInv, TypeOK
      <3> QED  BY <2>4, <2>6, <3>1 DEF QueueRegistered, WaitOK
    <2>11. FlagWhileWaiting'
      BY <2>4, <2>5, <2>6, <2>7 DEF IInv, FlagWhileWaiting, TypeOK, WaitOK
    <2>12. PositionsTold'
      BY <2>4, <2>6 DEF PositionsTold, WaitOK, Range
    <2> QED  BY <2>8, <2>9, <2>10, <2>11, <2>12 DEF IInv
  <1>10. ASSUME UNCHANGED vars  PROVE IInv'
    BY <1>10 DEF vars, IInv, TypeOK, SingleOwner, QueueRegistered, FlagWhileWaiting,
                 PositionsTold, sessionVars, worldVars, tickVars, Live, Registered
  <1> QED
    BY <1>1, <1>2, <1>3, <1>4, <1>5, <1>6, <1>7, <1>8, <1>9, <1>10
       DEF Next, Network, UpdateSessions, Command

\* In every behaviour of the admission code every session object has exactly
\* one owner: none leaks, none is deleted twice.
THEOREM SessionOwnership == Spec => [](TypeOK /\ SingleOwner)
  <1>1. IInv => TypeOK /\ SingleOwner
    BY DEF IInv
  <1> QED  BY <1>1, InitIInv, NextIInv, PTL DEF Spec

\* In every behaviour the login queue holds registered sessions only and each
\* once, no connected client is locked out with m_inQueue set, and every
\* waiting client has been told its position.
THEOREM QueueIntegrity == Spec => [](QueueConsistent /\ PositionsTold)
  <1>1. IInv => QueueConsistent /\ PositionsTold
    BY DEF IInv, QueueConsistent
  <1> QED  BY <1>1, InitIInv, NextIInv, PTL DEF Spec

-----------------------------------------------------------------------------
(* No slot stays free while somebody waits, all sessions counted           *)

\* Of n registered sessions, as many as the limit allows are let in, if some
\* of the sessions in w wait; e of the n are about to leave or to be replaced.
SlotsFull(w, n, e) == m_playerLimit > 0 /\ n - Len(w.queue) - e >= m_playerLimit

\* When RemoveQueuedPlayer is called for a session, either nobody is left
\* waiting or the slots are taken even when that session is not counted.  If
\* the session itself was waiting, they are taken in any case.
LEMMA RemoveQueuedPlayerSlots ==
    ASSUME NEW w, WaitOK(w), NEW s \in Session, m_playerLimit \in Nat,
           Cardinality(Registered) \in Nat,
           w.queue # <<>> => SlotsFull(w, Cardinality(Registered), 0)
    PROVE  LET r == RemoveQueuedPlayer(w, s)
           IN  r.found \/ r.queue # <<>> => SlotsFull(r, Cardinality(Registered), 1)
  <1> DEFINE n     == Cardinality(Registered)
             pos   == GetQueuePos(w.queue, s)
             found == pos > 0
             rest  == IF found THEN RemoveAt(w.queue, pos) ELSE w.queue
             active == ActiveSessionCount(w.queue)
             sessions == SessionsLeft(active, found)
             admit == /\ m_playerLimit = 0 \/ sessions < m_playerLimit
                      /\ rest # <<>>
             queue == IF admit THEN Tail(rest) ELSE rest
             r     == RemoveQueuedPlayer(w, s)
  <1>1. r.queue = queue /\ (r.found <=> found)
    BY Zenon DEF RemoveQueuedPlayer
  <1>2. /\ w.queue \in Seq(Session) /\ Len(w.queue) \in Nat
        /\ pos \in 0..Len(w.queue)
        /\ active = n - Len(w.queue)
    BY GetQueuePosFinds DEF WaitOK, ActiveSessionCount
  <1> HIDE DEF n, pos, active, r
  <1>3. CASE w.queue = <<>>
    <2>1. ~found /\ queue = <<>>
      BY <1>2, <1>3
    <2> QED  BY <1>1, <2>1 DEF r
  <1>4. CASE w.queue # <<>>
    <2>1. m_playerLimit > 0 /\ active >= m_playerLimit /\ active \in Int /\ n \in Nat
      BY <1>2, <1>4 DEF SlotsFull, n
    <2>2. CASE found
      <3>1. Len(rest) = Len(w.queue) - 1 /\ ~admit
        BY <2>1, <2>2, <1>2, RemoveAtElements DEF SessionsLeft
      <3>2. Len(queue) = Len(w.queue) - 1
        BY <3>1
      <3> HIDE DEF queue
      <3> QED  BY <3>2, <2>1, <1>1, <1>2 DEF SlotsFull, n, r
    <2>3. CASE ~found
      <3>1. rest = w.queue /\ sessions = active - 1
        BY <2>1, <2>3 DEF SessionsLeft
      <3>2. CASE admit
        <4>1. Len(queue) = Len(w.queue) - 1
          BY <3>1, <3>2, <1>2, <1>4
        <4> HIDE DEF queue
        <4> QED  BY <4>1, <2>1, <1>1, <1>2 DEF SlotsFull, n, r
      <3>3. CASE ~admit
        <4>1. queue = w.queue /\ active - 1 >= m_playerLimit
          BY <3>1, <3>3, <2>1, <1>4
        <4> HIDE DEF queue
        <4> QED  BY <4>1, <2>1, <1>1, <1>2 DEF SlotsFull, n, r
      <3> QED  BY <3>2, <3>3
    <2> QED  BY <2>2, <2>3
  <1> QED  BY <1>3, <1>4

\* No step that keeps the limit leaves somebody waiting beside a free slot.
LEMMA SlotsStep ==
    ASSUME IInv, [Next]_vars, NoIdleSlot, UNCHANGED m_playerLimit
    PROVE  NoIdleSlot'
  <1> DEFINE n == Cardinality(Registered)
  <1>1. IsFiniteSet(Registered) /\ n \in Nat /\ m_playerLimit \in Nat
    <2>1. IsFiniteSet(Registered)
      BY LoginQueueAssumption, FS_Subset DEF Registered
    <2> QED  BY <2>1, FS_CardinalityType, LoginQueueAssumption DEF IInv, TypeOK
  <1>2. /\ WaitOK(Waiting) /\ Waiting \in WaitType
        /\ Waiting.queue # <<>> => SlotsFull(Waiting, n, 0)
    BY <1>1, WaitingOK DEF NoIdleSlot, Waiting, SlotsFull, ActiveSessionCount, IInv, TypeOK
  <1>3. ASSUME AdmitSession  PROVE NoIdleSlot'
    <2> DEFINE s        == Head(addSessQueue)
               a        == account[s]
               old      == m_sessions[a]
               w        == RemoveOldSession(old)
               total    == Cardinality(Registered \union {a})
               sessions == IF w.found THEN total ELSE total - 1
               full     == WorldFull(a, sessions)
               v        == IF full THEN AddQueuedPlayer(w, s) ELSE w
    <2>1. /\ m_QueuedPlayer' = v.queue
          /\ m_sessions' = [m_sessions EXCEPT ![a] = s]
      BY <1>3 DEF AdmitSession, SetWaitingAndDelete
    <2>2. s \in Session /\ a \in Account /\ s \in Live /\ old # s
      BY <1>3 DEF AdmitSession, IInv, TypeOK, SingleOwner, Live, Range
    <2> HIDE DEF s, a
    <2>3. Registered' = Registered \union {a} /\ Cardinality(Registered') = total
      BY <2>1, <2>2, LoginQueueAssumption DEF Registered, IInv, TypeOK
    <2>4. /\ a \in Registered => total = n
          /\ a \notin Registered => total = n + 1
          /\ total \in Nat
      BY <1>1, FS_AddElement
    <2>5. s \notin Range(m_QueuedPlayer)
      BY <2>2 DEF IInv, QueueRegistered, a
    <2> HIDE DEF n, total
    <2>6. /\ w \in WaitType /\ WaitOK(w) /\ Len(w.queue) \in Nat
          /\ Range(w.queue) \subseteq Range(m_QueuedPlayer)
          /\ w.found \/ w.queue # <<>> => SlotsFull(w, total, 1)
      <3>1. CASE old = NoSession
        <4>1. w = Waiting /\ a \notin Registered
          BY <3>1 DEF Registered, RemoveOldSession
        <4> HIDE DEF w
        <4>2. Len(w.queue) \in Nat
          BY <4>1, <1>2 DEF WaitOK
        <4>3. ~w.found /\ w.queue = m_QueuedPlayer
          BY <4>1 DEF Waiting
        <4> QED  BY <4>1, <4>2, <4>3, <1>1, <1>2, <2>4 DEF SlotsFull, n
      <3>2. CASE old # NoSession
        <4>1. /\ w = RemoveQueuedPlayer(Waiting, old)
              /\ a \in Registered
              /\ old \in Session
          BY <3>2, <2>2 DEF Registered, IInv, TypeOK, RemoveOldSession
        <4> HIDE DEF w, old
        <4>2. w.found \/ w.queue # <<>> => SlotsFull(w, n, 1)
          BY <4>1, <1>1, <1>2, RemoveQueuedPlayerSlots DEF n
        <4>3. /\ w \in WaitType /\ WaitOK(w)
              /\ Range(w.queue) \subseteq Range(Waiting.queue)
          BY <4>1, <1>2, RemoveQueuedPlayerOK
        <4>4. total = n /\ Waiting.queue = m_QueuedPlayer /\ Len(w.queue) \in Nat
          BY <4>1, <4>3, <2>4 DEF Waiting, WaitOK
        <4> QED  BY <4>2, <4>3, <4>4
      <3> QED  BY <3>1, <3>2
    <2> HIDE DEF w, old
    <2>len. Len(w.queue) \in Nat
      BY <2>6
    <2>7. CASE full
      <3>1. m_playerLimit > 0 /\ sessions >= m_playerLimit
        BY <2>7 DEF WorldFull
      <3>2. total - (Len(w.queue) + 1) >= m_playerLimit
        <4>1. CASE w.found \/ w.queue # <<>>
          <5>1. total - Len(w.queue) - 1 >= m_playerLimit
            BY <4>1, <2>6 DEF SlotsFull
          <5>2. total \in Nat /\ m_playerLimit \in Nat
            BY <2>4, <1>1
          <5>3. PICK l \in Nat : l = Len(w.queue)
            BY <2>len
          <5>4. total - l - 1 >= m_playerLimit
            BY <5>1, <5>3
          <5>5. total - (l + 1) >= m_playerLimit
            BY <5>2, <5>4
          <5> QED  BY <5>3, <5>5
        <4>2. CASE ~w.found /\ w.queue = <<>>
          BY <4>2, <3>1, <2>4, <1>1
        <4> QED  BY <4>1, <4>2
      <3>3. v = AddQueuedPlayer(w, s) /\ s \notin Range(w.queue)
        BY <2>5, <2>6, <2>7
      <3> HIDE DEF v
      <3>4. Len(v.queue) = Len(w.queue) + 1
        BY <3>3, <2>2, <2>6, AddQueuedPlayerOK
      <3> QED  BY <3>1, <3>2, <3>4, <2>1, <2>3 DEF NoIdleSlot, ActiveSessionCount
    <2>8. CASE ~full
      <3>1. v = w
        BY <2>8
      <3> HIDE DEF v
      <3>2. w.queue # <<>> => m_playerLimit > 0 /\ total - Len(w.queue) >= m_playerLimit
        <4>1. w.queue # <<>> => /\ m_playerLimit > 0
                                /\ total - Len(w.queue) - 1 >= m_playerLimit
          BY <2>6 DEF SlotsFull
        <4>2. PICK l \in Nat : l = Len(w.queue)
          BY <2>len
        <4>3. total \in Nat /\ m_playerLimit \in Nat
          BY <2>4, <1>1
        <4>4. total - l - 1 >= m_playerLimit => total - l >= m_playerLimit
          BY <4>3
        <4> HIDE DEF w, total
        <4> QED  BY <4>1, <4>2, <4>4
      <3> QED  BY <3>1, <3>2, <2>1, <2>3 DEF NoIdleSlot, ActiveSessionCount
    <2> QED  BY <2>7, <2>8
  <1>4. ASSUME NEW a \in Account, DropSession(a)  PROVE NoIdleSlot'
    <2> DEFINE s  == m_sessions[a]
               w1 == RemoveQueuedPlayer(Waiting, s)
               w2 == RemoveQueuedPlayer(w1, s)
    <2>1. /\ m_QueuedPlayer' = w2.queue
          /\ m_sessions' = [m_sessions EXCEPT ![a] = NoSession]
          /\ a \in todo
      BY <1>4 DEF DropSession, SetWaitingAndDelete
    <2>2. a \in Registered /\ s \in Session
      BY <2>1 DEF IInv, TypeOK, Registered
    <2>3. Registered' = Registered \ {a} /\ Cardinality(Registered') = n - 1
      <3>1. Registered' = Registered \ {a}
        BY <2>1 DEF Registered, IInv, TypeOK
      <3> QED  BY <3>1, <2>2, <1>1, FS_RemoveElement
    <2> HIDE DEF s
    <2>4. WaitOK(w1)
      BY <2>2, <1>2, RemoveQueuedPlayerOK
    <2>5. w1.found \/ w1.queue # <<>> => SlotsFull(w1, n, 1)
      BY <2>2, <1>1, <1>2, RemoveQueuedPlayerSlots
    <2> HIDE DEF w1
    <2>6. w1.queue # <<>> => SlotsFull(w1, n, 0)
      <3>1. PICK l \in Nat : l = Len(w1.queue)
        BY <2>4 DEF WaitOK
      <3>2. n - l - 1 >= m_playerLimit => n - l - 0 >= m_playerLimit
        BY <1>1
      <3> HIDE DEF n
      <3> QED  BY <2>5, <3>1, <3>2 DEF SlotsFull
    <2>7. w2.queue # <<>> => SlotsFull(w2, n, 1)
      BY <2>2, <2>4, <2>6, <1>1, RemoveQueuedPlayerSlots
    <2>8. Len(w2.queue) \in Nat
      BY <2>2, <2>4, RemoveQueuedPlayerOK DEF WaitOK
    <2> HIDE DEF w2, n
    <2>9. PICK l \in Nat : l = Len(w2.queue)
      BY <2>8
    <2>10. n - l - 1 >= m_playerLimit => (n - 1) - l >= m_playerLimit
      BY <1>1
    <2>11. w2.queue # <<>> => m_playerLimit > 0 /\ (n - 1) - Len(w2.queue) >= m_playerLimit
      BY <2>7, <2>9, <2>10 DEF SlotsFull
    <2> QED  BY <2>1, <2>3, <2>11 DEF NoIdleSlot, ActiveSessionCount
  <1>5. CASE UNCHANGED <<m_sessions, m_QueuedPlayer>>
    BY <1>5 DEF NoIdleSlot, ActiveSessionCount, Registered
  <1>6. CASE KickAll
    BY <1>6 DEF KickAll, NoIdleSlot
  <1>7. CASE RejectSession
    BY <1>7, <1>5 DEF RejectSession, SetWaitingAndDelete, Waiting
  <1> QED
    BY <1>3, <1>4, <1>5, <1>6, <1>7
       DEF Next, Network, UpdateSessions, Command, AddSession, CloseSocket, BeginUpdate,
           KeepSession, EndUpdate, NextTick, SetPlayerAmountLimit, KickAllLess, Stopped,
           vars, worldVars

-----------------------------------------------------------------------------
(* Nobody overtakes                                                        *)

\* Whoever waited in q behind a session that is still in r is in r too and
\* behind it, unless he is gone.
OrderLeft(q, r, gone) ==
    \A i, j \in 1..Len(q) :
        i < j /\ q[i] \in Range(r) =>
            \/ q[j] = gone
            \/ \E k, l \in 1..Len(r) : k < l /\ r[k] = q[i] /\ r[l] = q[j]

\* One call after another
LEMMA OrderLeftTwice ==
    ASSUME NEW q, NEW r, NEW t, NEW gone, OrderLeft(q, r, gone), OrderLeft(r, t, gone),
           Range(t) \subseteq Range(r)
    PROVE  OrderLeft(q, t, gone)
  <1> SUFFICES ASSUME NEW i \in 1..Len(q), NEW j \in 1..Len(q), i < j,
                      q[i] \in Range(t), q[j] # gone
               PROVE  \E k, l \in 1..Len(t) : k < l /\ t[k] = q[i] /\ t[l] = q[j]
    BY DEF OrderLeft
  <1>1. PICK k \in 1..Len(r), l \in 1..Len(r) : k < l /\ r[k] = q[i] /\ r[l] = q[j]
    BY DEF OrderLeft
  <1>2. r[k] \in Range(t) /\ r[l] # gone
    BY <1>1
  <1>3. PICK m \in 1..Len(t), n \in 1..Len(t) : m < n /\ t[m] = r[k] /\ t[n] = r[l]
    BY <1>1, <1>2 DEF OrderLeft
  <1> QED  BY <1>1, <1>3

\* The session at one place is erased.
LEMMA RemoveAtOrder ==
    ASSUME NEW S, NEW q \in Seq(S), NoDuplicates(q), NEW n \in 1..Len(q)
    PROVE  OrderLeft(q, RemoveAt(q, n), q[n])
  <1> DEFINE r == RemoveAt(q, n)
  <1>1. /\ r \in Seq(S)
        /\ Len(r) = Len(q) - 1
        /\ \A j \in 1..(Len(q) - 1) : r[j] = IF j < n THEN q[j] ELSE q[j + 1]
        /\ Len(q) \in Nat
    BY RemoveAtElements
  <1>2. q[n] \notin Range(r)
    BY RemoveAtErases
  <1> HIDE DEF r
  <1> SUFFICES ASSUME NEW i \in 1..Len(q), NEW j \in 1..Len(q), i < j,
                      q[i] \in Range(r), q[j] # q[n]
               PROVE  \E k, l \in 1..Len(r) : k < l /\ r[k] = q[i] /\ r[l] = q[j]
    BY DEF OrderLeft, r
  <1> DEFINE at(m) == IF m < n THEN m ELSE m - 1
  <1>3. i # n /\ j # n
    BY <1>2
  <1>4. \A m \in 1..Len(q) : m # n => at(m) \in 1..Len(r) /\ r[at(m)] = q[m]
    BY <1>1
  <1>5. at(i) < at(j)
    BY <1>1, <1>3
  <1> QED  BY <1>3, <1>4, <1>5

\* The session at the front leaves.
LEMMA TailOrder ==
    ASSUME NEW S, NEW q \in Seq(S), NoDuplicates(q), q # <<>>, NEW gone
    PROVE  OrderLeft(q, Tail(q), gone)
  <1> DEFINE r == Tail(q)
  <1>1. /\ r \in Seq(S)
        /\ Len(r) = Len(q) - 1
        /\ Len(q) \in Nat \ {0}
        /\ \A m \in 1..Len(q) - 1 : r[m] = q[m + 1]
        /\ q[1] \notin Range(r)
    BY TakeFirst DEF Distinct, NoDuplicates
  <1> HIDE DEF r
  <1> SUFFICES ASSUME NEW i \in 1..Len(q), NEW j \in 1..Len(q), i < j, q[i] \in Range(r)
               PROVE  \E k, l \in 1..Len(r) : k < l /\ r[k] = q[i] /\ r[l] = q[j]
    BY DEF OrderLeft, r
  <1>2. i # 1
    BY <1>1
  <1>3. /\ i - 1 \in 1..Len(r) /\ j - 1 \in 1..Len(r) /\ i - 1 < j - 1
        /\ r[i - 1] = q[(i - 1) + 1] /\ r[j - 1] = q[(j - 1) + 1]
    BY <1>1, <1>2
  <1>4. (i - 1) + 1 = i /\ (j - 1) + 1 = j
    OBVIOUS
  <1>5. r[i - 1] = q[i] /\ r[j - 1] = q[j]
    BY <1>3, <1>4
  <1> QED  BY <1>3, <1>5

\* RemoveQueuedPlayer keeps the order of everybody but the session it is
\* called for, admitted or not.
LEMMA RemoveQueuedPlayerOrder ==
    ASSUME NEW w, WaitOK(w), NEW s \in Session
    PROVE  OrderLeft(w.queue, RemoveQueuedPlayer(w, s).queue, s)
  <1> DEFINE q     == w.queue
             pos   == GetQueuePos(q, s)
             found == pos > 0
             rest  == IF found THEN RemoveAt(q, pos) ELSE q
             admit == /\ \/ m_playerLimit = 0
                         \/ SessionsLeft(ActiveSessionCount(q), found) < m_playerLimit
                      /\ rest # <<>>
             queue == IF admit THEN Tail(rest) ELSE rest
  <1>1. RemoveQueuedPlayer(w, s).queue = queue
    BY Zenon DEF RemoveQueuedPlayer
  <1>2. q \in Seq(Session) /\ NoDuplicates(q)
    BY DEF WaitOK
  <1> HIDE DEF q
  <1>3. /\ pos \in 0..Len(q)
        /\ found => q[pos] = s
    BY <1>2, GetQueuePosFinds
  <1> HIDE DEF pos
  <1>same. ASSUME NEW r \in Seq(Session)  PROVE OrderLeft(r, r, s)
    BY DEF OrderLeft
  <1>4. /\ rest \in Seq(Session) /\ NoDuplicates(rest)
        /\ OrderLeft(q, rest, s)
    <2>1. CASE found
      <3>1. pos \in 1..Len(q) /\ rest = RemoveAt(q, pos)
        BY <2>1, <1>3
      <3> HIDE DEF rest
      <3> QED  BY <3>1, <1>2, <1>3, <2>1, RemoveAtOrder, RemoveAtElements, RemoveAtErases
    <2>2. CASE ~found
      BY <2>2, <1>2, <1>same
    <2> QED  BY <2>1, <2>2
  <1> HIDE DEF rest, found
  <1>5. OrderLeft(q, queue, s)
    <2>1. CASE admit
      <3>1. rest # <<>> /\ queue = Tail(rest)
        BY <2>1
      <3>2. OrderLeft(rest, Tail(rest), s)
        BY <3>1, <1>4, TailOrder
      <3>3. Range(Tail(rest)) \subseteq Range(rest)
        BY <3>1, <1>4, TailDrops
      <3> QED  BY <3>1, <3>2, <3>3, <1>4, OrderLeftTwice
    <2>2. CASE ~admit
      BY <2>2, <1>4
    <2> QED  BY <2>1, <2>2
  <1> QED  BY <1>1, <1>5 DEF q

\* A step of the admission code keeps the order of those who go on waiting
\* and lets nobody in before somebody who came earlier.
LEMMA OrderStep ==
    ASSUME IInv, IInv', [Next]_vars
    PROVE  \A i, j \in 1..Len(m_QueuedPlayer) :
              i < j /\ m_QueuedPlayer[i] \in Range(m_QueuedPlayer') =>
                 \/ m_QueuedPlayer[j] \notin Live'
                 \/ /\ m_QueuedPlayer[j] \in Range(m_QueuedPlayer')
                    /\ GetQueuePos(m_QueuedPlayer', m_QueuedPlayer[i])
                         < GetQueuePos(m_QueuedPlayer', m_QueuedPlayer[j])
  <1> DEFINE q == m_QueuedPlayer
             r == m_QueuedPlayer'
  <1>0. /\ WaitOK(Waiting) /\ Waiting \in WaitType /\ Waiting.queue = q
        /\ q \in Seq(Session) /\ r \in Seq(Session)
        /\ NoDuplicates(q) /\ NoDuplicates(r)
    BY WaitingOK DEF Waiting, IInv, TypeOK, QueueRegistered
  <1>1. SUFFICES \E gone : gone \notin Live' /\ OrderLeft(q, r, gone)
    <2> SUFFICES ASSUME NEW gone, gone \notin Live', OrderLeft(q, r, gone),
                        NEW i \in 1..Len(q), NEW j \in 1..Len(q), i < j,
                        q[i] \in Range(r), q[j] \in Live'
                 PROVE  q[j] \in Range(r) /\ GetQueuePos(r, q[i]) < GetQueuePos(r, q[j])
      OBVIOUS
    <2> HIDE DEF q, r
    <2>1. PICK k \in 1..Len(r), l \in 1..Len(r) : k < l /\ r[k] = q[i] /\ r[l] = q[j]
      BY DEF OrderLeft
    <2>2. GetQueuePos(r, q[i]) = k /\ GetQueuePos(r, q[j]) = l
      BY <2>1, <1>0, GetQueuePosFinds
    <2>3. q[j] \in Range(r)
      BY <2>1, <1>0 DEF Range
    <2> QED  BY <2>1, <2>2, <2>3
  <1>2. NoSession \notin Live'
    BY LoginQueueAssumption DEF Live
  <1>3. ASSUME AdmitSession  PROVE \E gone : gone \notin Live' /\ OrderLeft(q, r, gone)
    <2> DEFINE s   == Head(addSessQueue)
               a   == account[s]
               old == m_sessions[a]
               w   == RemoveOldSession(old)
    <2>1. PICK full \in BOOLEAN :
              r = (IF full THEN AddQueuedPlayer(w, s) ELSE w).queue
      <3> DEFINE total    == Cardinality(Registered \union {a})
                 sessions == IF w.found THEN total ELSE total - 1
      <3>1. r = (IF WorldFull(a, sessions) THEN AddQueuedPlayer(w, s) ELSE w).queue
        BY <1>3 DEF AdmitSession, SetWaitingAndDelete
      <3> QED  BY <3>1 DEF WorldFull
    <2>2. /\ s \in Session /\ a \in Account
          /\ old = NoSession \/ old \in Session
          /\ account' = [x \in Session |-> IF x = old THEN NoAccount ELSE account[x]]
      BY <1>3 DEF AdmitSession, SetWaitingAndDelete, IInv, TypeOK, SingleOwner, Live, Range
    <2>3. old \notin Live'
      BY <2>2, LoginQueueAssumption DEF Live
    <2>4. WaitOK(w) /\ w \in WaitType /\ OrderLeft(q, w.queue, old)
      <3>1. CASE old = NoSession
        <4>1. w = Waiting
          BY <3>1 DEF RemoveOldSession
        <4>2. OrderLeft(q, q, old)
          BY <1>0 DEF OrderLeft
        <4> QED  BY <4>1, <4>2, <1>0
      <3>2. CASE old # NoSession
        <4>1. w = RemoveQueuedPlayer(Waiting, old) /\ old \in Session
          BY <3>2, <2>2 DEF RemoveOldSession
        <4> HIDE DEF w, old, q
        <4> QED  BY <4>1, <1>0, RemoveQueuedPlayerOK, RemoveQueuedPlayerOrder
      <3> QED  BY <3>1, <3>2
    <2>7. s \notin Range(q)
      <3>1. old # s
        BY <1>3 DEF AdmitSession, IInv, TypeOK, SingleOwner, Live, Range
      <3> HIDE DEF s
      <3> QED  BY <3>1, <2>2 DEF IInv, QueueRegistered
    <2> HIDE DEF w, old, s, q
    <2>5. CASE ~full
      BY <2>1, <2>3, <2>4, <2>5
    <2>6. CASE full
      <3>1. r = Append(w.queue, s)
        BY <2>1, <2>4, <2>6 DEF AddQueuedPlayer, WaitType
      <3> HIDE DEF r
      <3>2. /\ w.queue \in Seq(Session) /\ NoDuplicates(w.queue)
            /\ Len(r) = Len(w.queue) + 1
            /\ r[Len(w.queue) + 1] = s
            /\ \A i \in 1..Len(w.queue) : r[i] = w.queue[i]
        BY <3>1, <2>2, <2>4, AppendLast DEF WaitOK
      <3>3. ASSUME NEW i \in 1..Len(q), NEW j \in 1..Len(q), i < j, q[i] \in Range(r),
                   q[j] # old
            PROVE  \E k, l \in 1..Len(r) : k < l /\ r[k] = q[i] /\ r[l] = q[j]
        <4>0. Range(r) = Range(w.queue) \union {s}
          BY <3>1, <3>2, <2>2, AppendLast
        <4>q. q[i] \in Range(q)
          BY <1>0 DEF Range
        <4>1. q[i] \in Range(w.queue)
          BY <4>0, <4>q, <3>3, <2>7
        <4>2. PICK k \in 1..Len(w.queue), l \in 1..Len(w.queue) :
                  k < l /\ w.queue[k] = q[i] /\ w.queue[l] = q[j]
          BY <4>1, <3>3, <2>4 DEF OrderLeft
        <4>3. Len(w.queue) \in Nat
          BY <3>2
        <4>4. k \in 1..Len(r) /\ l \in 1..Len(r) /\ r[k] = q[i] /\ r[l] = q[j]
          BY <4>2, <4>3, <3>2
        <4> QED  BY <4>2, <4>4
      <3> QED  BY <3>3, <2>3 DEF OrderLeft
    <2> QED  BY <2>5, <2>6
  <1>4. ASSUME NEW a \in Account, DropSession(a)
        PROVE  \E gone : gone \notin Live' /\ OrderLeft(q, r, gone)
    <2> DEFINE s  == m_sessions[a]
               w1 == RemoveQueuedPlayer(Waiting, s)
               w2 == RemoveQueuedPlayer(w1, s)
    <2>1. /\ r = w2.queue
          /\ account' = [x \in Session |-> IF x = s THEN NoAccount ELSE account[x]]
          /\ a \in todo
      BY <1>4 DEF DropSession, SetWaitingAndDelete
    <2>2. s \in Session
      BY <2>1 DEF IInv, TypeOK, Registered
    <2>3. s \notin Live'
      BY <2>1, <2>2 DEF Live
    <2> HIDE DEF s, q, r
    <2>4. WaitOK(w1) /\ OrderLeft(q, w1.queue, s)
      BY <2>2, <1>0, RemoveQueuedPlayerOK, RemoveQueuedPlayerOrder
    <2> HIDE DEF w1
    <2>5. OrderLeft(w1.queue, w2.queue, s) /\ Range(w2.queue) \subseteq Range(w1.queue)
      BY <2>2, <2>4, RemoveQueuedPlayerOK, RemoveQueuedPlayerOrder
    <2> HIDE DEF w2
    <2>6. OrderLeft(q, w2.queue, s)
      BY <2>4, <2>5, OrderLeftTwice
    <2> QED  BY <2>1, <2>3, <2>6
  <1>5. CASE r = q
    <2>1. OrderLeft(q, r, NoSession)
      BY <1>5, <1>0 DEF OrderLeft
    <2> QED  BY <1>2, <2>1
  <1>6. CASE r = <<>>
    <2>1. Range(r) = {}
      BY <1>6 DEF Range
    <2>2. OrderLeft(q, r, NoSession)
      BY <2>1 DEF OrderLeft
    <2> QED  BY <1>2, <2>2
  <1> QED
    BY <1>3, <1>4, <1>5, <1>6
       DEF Next, Network, UpdateSessions, Command, AddSession, CloseSocket, RejectSession,
           SetWaitingAndDelete, Waiting, BeginUpdate, KeepSession, EndUpdate, NextTick,
           SetPlayerAmountLimit, KickAllLess, KickAll, Stopped, vars, worldVars

\* The login queue is first in, first out, whatever the reconnects, removals
\* and double calls of RemoveQueuedPlayer: nobody is let in before somebody
\* who came earlier and is still connected.
THEOREM FirstInFirstOut == Spec => NoOvertaking
  <1>1. IInv /\ IInv' /\ [Next]_vars =>
          [\A i, j \in 1..Len(m_QueuedPlayer) :
              i < j /\ m_QueuedPlayer[i] \in Range(m_QueuedPlayer') =>
                 \/ m_QueuedPlayer[j] \notin Live'
                 \/ /\ m_QueuedPlayer[j] \in Range(m_QueuedPlayer')
                    /\ GetQueuePos(m_QueuedPlayer', m_QueuedPlayer[i])
                         < GetQueuePos(m_QueuedPlayer', m_QueuedPlayer[j])]_vars
    BY OrderStep
  <1> QED  BY <1>1, InitIInv, NextIInv, PTL DEF Spec, NoOvertaking

-----------------------------------------------------------------------------
(* The player limit                                                        *)

\* The session that is next to be added is not the one registered for its
\* account and does not wait.
LEMMA NewSession ==
    ASSUME IInv, addSessQueue # <<>>
    PROVE  LET s == Head(addSessQueue)
           IN  /\ s \in Session /\ account[s] \in Account
               /\ m_sessions[account[s]] # s
               /\ s \notin Range(m_QueuedPlayer)
  <1> DEFINE s == Head(addSessQueue)
  <1>1. s \in Session /\ s \in Range(addSessQueue)
    BY DEF IInv, TypeOK, Range
  <1> HIDE DEF s
  <1>2. account[s] \in Account /\ m_sessions[account[s]] # s
    BY <1>1 DEF IInv, TypeOK, SingleOwner, Live
  <1>3. s \notin Range(m_QueuedPlayer)
    BY <1>2 DEF IInv, QueueRegistered
  <1> QED  BY <1>1, <1>2, <1>3 DEF s

\* m_inQueue is set on registered sessions only: a session that comes from a
\* network thread does not have it.
FlagRegistered == \A s \in inQueue : m_sessions[account[s]] = s

\* No step sets m_inQueue on a session that is not registered.
LEMMA FlagRegisteredStep ==
    ASSUME IInv, FlagRegistered, [Next]_vars
    PROVE  FlagRegistered'
  <1>0. WaitOK(Waiting) /\ Waiting \in WaitType /\ Waiting.inQueue = inQueue
    BY WaitingOK DEF Waiting
  <1>t. /\ account \in [Session -> Account \union {NoAccount}]
        /\ m_sessions \in [Account -> Session \union {NoSession}]
        /\ inQueue \subseteq Session
        /\ \A x \in inQueue : account[x] \in Account
    BY LoginQueueAssumption DEF IInv, TypeOK, Live
  <1>1. ASSUME AdmitSession  PROVE FlagRegistered'
    <2> DEFINE s   == Head(addSessQueue)
               a   == account[s]
               old == m_sessions[a]
               w   == RemoveOldSession(old)
    <2>1. PICK full \in BOOLEAN :
              inQueue' = (IF full THEN AddQueuedPlayer(w, s) ELSE w).inQueue \ {old}
      <3> DEFINE total    == Cardinality(Registered \union {a})
                 sessions == IF w.found THEN total ELSE total - 1
      <3>1. inQueue' = (IF WorldFull(a, sessions) THEN AddQueuedPlayer(w, s) ELSE w).inQueue
                          \ {old}
        BY <1>1 DEF AdmitSession, SetWaitingAndDelete
      <3> QED  BY <3>1 DEF WorldFull
    <2>2. /\ s \in Session /\ a \in Account /\ old # s
          /\ m_sessions' = [m_sessions EXCEPT ![a] = s]
          /\ account' = [x \in Session |-> IF x = old THEN NoAccount ELSE account[x]]
      BY <1>1, NewSession DEF AdmitSession, SetWaitingAndDelete
    <2>3. w \in WaitType /\ w.inQueue \subseteq inQueue
      <3>1. CASE old = NoSession
        BY <3>1, <1>0 DEF RemoveOldSession
      <3>2. CASE old # NoSession
        <4>1. w = RemoveQueuedPlayer(Waiting, old) /\ old \in Session
          BY <3>2, <2>2, <1>t DEF RemoveOldSession
        <4> HIDE DEF w, old
        <4> QED  BY <4>1, <1>0, RemoveQueuedPlayerOK
      <3> QED  BY <3>1, <3>2
    <2>4. inQueue' \subseteq (inQueue \union {s}) \ {old}
      <3> HIDE DEF w, old, s
      <3>1. AddQueuedPlayer(w, s).inQueue = w.inQueue \union {s}
        BY <2>3 DEF AddQueuedPlayer, WaitType
      <3> QED  BY <2>1, <2>3, <3>1
    <2> SUFFICES ASSUME NEW x \in inQueue'  PROVE m_sessions'[account'[x]] = x
      BY DEF FlagRegistered
    <2>5. CASE x = s
      <3> HIDE DEF s
      <3> QED  BY <2>2, <2>5, <1>t
    <2>6. CASE x \in inQueue /\ x # old
      <3> HIDE DEF s
      <3>1. account[x] \in Account /\ m_sessions[account[x]] = x /\ account'[x] = account[x]
        BY <2>2, <2>6, <1>t DEF FlagRegistered
      <3>2. account[x] # a
        BY <3>1, <2>6
      <3> QED  BY <3>1, <3>2, <2>2, <1>t
    <2> QED  BY <2>4, <2>5, <2>6
  <1>2. ASSUME NEW a \in Account, DropSession(a)  PROVE FlagRegistered'
    <2> DEFINE s  == m_sessions[a]
               w1 == RemoveQueuedPlayer(Waiting, s)
               w2 == RemoveQueuedPlayer(w1, s)
    <2>1. /\ inQueue' = w2.inQueue \ {s}
          /\ account' = [x \in Session |-> IF x = s THEN NoAccount ELSE account[x]]
          /\ m_sessions' = [m_sessions EXCEPT ![a] = NoSession]
          /\ a \in todo
      BY <1>2 DEF DropSession, SetWaitingAndDelete
    <2>2. s \in Session
      BY <2>1 DEF IInv, TypeOK, Registered
    <2> HIDE DEF s
    <2>3. WaitOK(w1) /\ w1.inQueue \subseteq inQueue
      BY <2>2, <1>0, RemoveQueuedPlayerOK
    <2> HIDE DEF w1
    <2>4. w2.inQueue \subseteq inQueue
      BY <2>2, <2>3, RemoveQueuedPlayerOK
    <2> HIDE DEF w2
    <2> SUFFICES ASSUME NEW x \in inQueue'  PROVE m_sessions'[account'[x]] = x
      BY DEF FlagRegistered
    <2>5. x \in inQueue /\ x # s
      BY <2>1, <2>4
    <2>6. account[x] \in Account /\ m_sessions[account[x]] = x /\ account'[x] = account[x]
      BY <2>1, <2>5, <1>t DEF FlagRegistered
    <2>7. account[x] # a
      BY <2>5, <2>6 DEF s
    <2> QED  BY <2>1, <2>6, <2>7, <1>t
  <1>3. ASSUME NEW s \in Session, NEW a \in Account, AddSession(s, a)  PROVE FlagRegistered'
    <2>1. s \notin inQueue /\ UNCHANGED <<inQueue, m_sessions>>
              /\ account' = [account EXCEPT ![s] = a]
      BY <1>3 DEF AddSession, IInv, TypeOK, worldVars
    <2> QED  BY <2>1, <1>t DEF FlagRegistered
  <1>4. CASE RejectSession
    <2> DEFINE s == Head(addSessQueue)
    <2>1. /\ inQueue' = inQueue \ {s}
          /\ account' = [x \in Session |-> IF x = s THEN NoAccount ELSE account[x]]
          /\ UNCHANGED m_sessions
      BY <1>4 DEF RejectSession, SetWaitingAndDelete, Waiting
    <2> QED  BY <2>1, <1>t DEF FlagRegistered
  <1>5. CASE UNCHANGED <<account, inQueue, m_sessions>>
    BY <1>5 DEF FlagRegistered
  <1> QED
    BY <1>1, <1>2, <1>3, <1>4, <1>5
       DEF Next, Network, UpdateSessions, Command, CloseSocket, BeginUpdate, KeepSession,
           EndUpdate, NextTick, SetPlayerAmountLimit, KickAllLess, KickAll, Stopped, vars,
           worldVars, sessionVars

\* Of the accounts in R all but Len(q) have a session that does not wait in q.
LEMMA CountAdmitted ==
    ASSUME NEW R, IsFiniteSet(R), NEW q \in Seq(Session), NoDuplicates(q), NEW f, NEW g,
           \A a \in R : g[f[a]] = a,
           \A s \in Range(q) : g[s] \in R /\ f[g[s]] = s
    PROVE  LET A == {a \in R : f[a] \notin Range(q)}
           IN  IsFiniteSet(A) /\ Cardinality(A) = Cardinality(R) - Len(q)
  <1> DEFINE W == {a \in R : f[a] \in Range(q)}
             h == [a \in W |-> f[a]]
  <1>1. IsFiniteSet(Range(q)) /\ Cardinality(Range(q)) = Len(q)
    BY CountElements DEF Distinct, NoDuplicates
  <1>2. h \in [W -> Range(q)]
    OBVIOUS
  <1>3. \A a, b \in W : h[a] = h[b] => a = b
    OBVIOUS
  <1>4. \A s \in Range(q) : \E a \in W : h[a] = s
    <2> TAKE s \in Range(q)
    <2>1. g[s] \in W /\ h[g[s]] = s
      OBVIOUS
    <2> QED  BY <2>1
  <1> HIDE DEF h
  <1>5. h \in Bijection(W, Range(q))
    BY <1>2, <1>3, <1>4 DEF Bijection, Injection, Surjection, IsInjective
  <1>6. IsFiniteSet(W)
    BY FS_Subset
  <1>7. Cardinality(W) = Len(q)
    BY <1>1, <1>5, <1>6, FS_Bijection DEF ExistsBijection
  <1>8. {a \in R : f[a] \notin Range(q)} = R \ W /\ R \cap W = W
    OBVIOUS
  <1>9. IsFiniteSet(R \ W) /\ Cardinality(R \ W) = Cardinality(R) - Cardinality(R \cap W)
    BY FS_Difference
  <1> HIDE DEF W
  <1> QED  BY <1>7, <1>8, <1>9

\* When RemoveQueuedPlayer lets somebody in, the slots suffice for all that
\* are in when the session it is called for has gone.
LEMMA RemoveQueuedPlayerLimit ==
    ASSUME NEW w, WaitOK(w), NEW s \in Session, m_playerLimit \in Nat \ {0},
           Cardinality(Registered) \in Nat
    PROVE  LET r == RemoveQueuedPlayer(w, s)
           IN  \/ /\ w.inQueue \ {s} \subseteq r.inQueue
                  /\ s \notin Range(w.queue) => r.queue = w.queue
               \/ Cardinality(Registered) - Len(r.queue) - 1 <= m_playerLimit
  <1> DEFINE n     == Cardinality(Registered)
             q     == w.queue
             pos   == GetQueuePos(q, s)
             found == pos > 0
             rest  == IF found THEN RemoveAt(q, pos) ELSE q
             active == ActiveSessionCount(q)
             sessions == SessionsLeft(active, found)
             admit == /\ m_playerLimit = 0 \/ sessions < m_playerLimit
                      /\ rest # <<>>
             queue == IF admit THEN Tail(rest) ELSE rest
             admitted == IF admit THEN {Head(rest)} ELSE {}
             r     == RemoveQueuedPlayer(w, s)
  <1>1. /\ r.queue = queue
        /\ r.inQueue = w.inQueue \ ((IF found THEN {s} ELSE {}) \union admitted)
    BY Zenon DEF RemoveQueuedPlayer
  <1>2. /\ q \in Seq(Session) /\ Len(q) \in Nat /\ NoDuplicates(q)
        /\ pos \in 0..Len(q)
        /\ found <=> s \in Range(q)
        /\ active = n - Len(q)
    BY GetQueuePosFinds DEF WaitOK, ActiveSessionCount
  <1> HIDE DEF n, pos, active, r, q
  <1>3. CASE ~admit
    <2>1. admitted = {} /\ queue = rest
      BY <1>3
    <2>2. w.inQueue \ {s} \subseteq r.inQueue
      BY <2>1, <1>1
    <2>3. s \notin Range(q) => r.queue = q
      BY <2>1, <1>1, <1>2
    <2> QED  BY <2>2, <2>3 DEF r, q
  <1>4. CASE admit
    <2>1. queue = Tail(rest) /\ rest # <<>> /\ sessions < m_playerLimit
      BY <1>4
    <2>2. rest \in Seq(Session) /\ Len(rest) = IF found THEN Len(q) - 1 ELSE Len(q)
      BY <1>2, RemoveAtElements
    <2>3. Len(queue) = IF found THEN Len(q) - 2 ELSE Len(q) - 1
      <3>1. Len(Tail(rest)) = Len(rest) - 1
        BY <2>1, <2>2
      <3> QED  BY <3>1, <2>1, <2>2, <1>2
    <2>4. n - Len(queue) - 1 <= m_playerLimit
      <3>1. n \in Nat /\ m_playerLimit \in Nat
        BY DEF n
      <3>2. PICK l \in Nat : l = Len(q)
        BY <1>2
      <3>3. CASE found
        <4>1. n - l < m_playerLimit
          BY <2>1, <3>2, <3>3, <1>2 DEF SessionsLeft
        <4>2. n - (l - 2) - 1 <= m_playerLimit
          BY <4>1, <3>1
        <4> QED  BY <4>2, <3>2, <3>3, <2>3
      <3>4. CASE ~found
        <4>1. n - l - 1 < m_playerLimit
          BY <2>1, <3>1, <3>2, <3>4, <1>2 DEF SessionsLeft
        <4>2. n - (l - 1) - 1 <= m_playerLimit
          BY <4>1, <3>1
        <4> QED  BY <4>2, <3>2, <3>4, <2>3
      <3> QED  BY <3>3, <3>4
    <2> QED  BY <2>4, <1>1 DEF n, r
  <1> QED  BY <1>3, <1>4

\* No step lets players in beyond the limit, but for those who have left
\* recently.
LEMMA LimitStep ==
    ASSUME IInv, IInv', FlagRegistered, [Next]_vars
    PROVE  \/ m_playerLimit = 0
           \/ Cardinality(ActivePlayers') <= Cardinality(ActivePlayers)
           \/ Cardinality(ActivePlayers') <= m_playerLimit
           \/ \E a \in ActivePlayers' :
                  HasRecentlyDisconnected(a) /\ m_sessions'[a] # m_sessions[a]
  <1> SUFFICES ASSUME m_playerLimit # 0,
                      ~(Cardinality(ActivePlayers') <= m_playerLimit)
               PROVE  \/ ActivePlayers' \subseteq ActivePlayers
                      \/ \E a \in ActivePlayers' :
                            HasRecentlyDisconnected(a) /\ m_sessions'[a] # m_sessions[a]
    <2>1. IsFiniteSet(ActivePlayers)
      BY LoginQueueAssumption, FS_Subset DEF ActivePlayers, Registered
    <2>2. ActivePlayers' \subseteq ActivePlayers
              => Cardinality(ActivePlayers') <= Cardinality(ActivePlayers)
      BY <2>1, FS_Subset
    <2> QED  BY <2>2
  <1> DEFINE n == Cardinality(Registered)
             m == Cardinality(Registered')
             Admitted == {a \in Registered' : m_sessions'[a] \notin Range(m_QueuedPlayer')}
  <1>1. /\ IsFiniteSet(Registered) /\ n \in Nat
        /\ IsFiniteSet(Registered') /\ m \in Nat
        /\ m_playerLimit \in Nat \ {0}
    <2>1. IsFiniteSet(Registered) /\ IsFiniteSet(Registered')
      BY LoginQueueAssumption, FS_Subset DEF Registered
    <2>2. m_playerLimit \in Nat \ {0}
      BY LoginQueueAssumption DEF IInv, TypeOK
    <2> QED  BY <2>1, <2>2, FS_CardinalityType
  <1>2. ActivePlayers' \subseteq Admitted
    <2>1. Range(m_QueuedPlayer') \subseteq Live'
      BY LoginQueueAssumption DEF IInv, TypeOK, QueueRegistered, Live, Range
    <2>2. Range(m_QueuedPlayer') \subseteq inQueue'
      BY <2>1 DEF IInv, FlagWhileWaiting
    <2> QED  BY <2>2 DEF ActivePlayers
  <1>3. IsFiniteSet(Admitted) /\ Cardinality(Admitted) = m - Len(m_QueuedPlayer')
    <2> DEFINE q == m_QueuedPlayer'
               f == m_sessions'
               g == account'
    <2>1. q \in Seq(Session) /\ NoDuplicates(q)
      BY DEF IInv, TypeOK, QueueRegistered
    <2>2. \A a \in Registered' : g[f[a]] = a
      BY DEF IInv, SingleOwner
    <2>3. \A s \in Range(q) : s \in Session
      BY <2>1 DEF Range
    <2>4. \A s \in Range(q) : g[s] \in Registered' /\ f[g[s]] = s
      BY <2>3, LoginQueueAssumption DEF IInv, QueueRegistered, Registered
    <2> HIDE DEF q, f, g
    <2>5. LET A == {a \in Registered' : f[a] \notin Range(q)}
          IN  IsFiniteSet(A) /\ Cardinality(A) = Cardinality(Registered') - Len(q)
      BY <2>1, <2>2, <2>4, <1>1, CountAdmitted
    <2> QED  BY <2>5 DEF q, f, g
  <1>4. ASSUME NEW A, ActivePlayers' \subseteq A, IsFiniteSet(A)
        PROVE  Cardinality(A) \in Nat /\ ~(Cardinality(A) <= m_playerLimit)
    <2>1. Cardinality(ActivePlayers') <= Cardinality(A) /\ IsFiniteSet(ActivePlayers')
      BY <1>4, FS_Subset
    <2>2. Cardinality(A) \in Nat /\ Cardinality(ActivePlayers') \in Nat
      BY <1>4, <2>1, FS_CardinalityType
    <2> QED  BY <2>1, <2>2, <1>1
  <1>5. WaitOK(Waiting) /\ Waiting \in WaitType /\ Waiting.inQueue = inQueue
            /\ Waiting.queue = m_QueuedPlayer
    BY WaitingOK DEF Waiting
  <1>6. ASSUME NEW a \in Account, DropSession(a)  PROVE ActivePlayers' \subseteq ActivePlayers
    <2> DEFINE s  == m_sessions[a]
               w1 == RemoveQueuedPlayer(Waiting, s)
               w2 == RemoveQueuedPlayer(w1, s)
    <2>1. /\ inQueue' = w2.inQueue \ {s} /\ m_QueuedPlayer' = w2.queue
          /\ m_sessions' = [m_sessions EXCEPT ![a] = NoSession]
          /\ a \in todo
      BY <1>6 DEF DropSession, SetWaitingAndDelete
    <2>2. a \in Registered /\ s \in Session
      BY <2>1 DEF IInv, TypeOK, Registered
    <2>3. Registered' = Registered \ {a} /\ m = n - 1
      <3>1. Registered' = Registered \ {a}
        BY <2>1 DEF Registered, IInv, TypeOK
      <3> QED  BY <3>1, <2>2, <1>1, FS_RemoveElement
    <2> HIDE DEF s
    <2>4. /\ WaitOK(w1) /\ s \notin Range(w1.queue)
          /\ \/ inQueue \ {s} \subseteq w1.inQueue
             \/ n - Len(w1.queue) - 1 <= m_playerLimit
      BY <2>2, <1>1, <1>5, RemoveQueuedPlayerOK, RemoveQueuedPlayerLimit
    <2> HIDE DEF w1
    <2>5. \/ w1.inQueue \ {s} \subseteq w2.inQueue /\ w2.queue = w1.queue
          \/ n - Len(w2.queue) - 1 <= m_playerLimit
      BY <2>2, <2>4, <1>1, RemoveQueuedPlayerLimit
    <2>6. Len(w2.queue) \in Nat
      BY <2>1 DEF IInv, TypeOK
    <2> HIDE DEF w2, n, m, Admitted
    <2>7. ~(n - Len(w2.queue) - 1 <= m_playerLimit)
      <3>1. ~(m - Len(w2.queue) <= m_playerLimit)
        BY <1>2, <1>3, <1>4, <2>1
      <3>2. PICK l \in Nat : l = Len(w2.queue)
        BY <2>6
      <3>3. n - l - 1 = m - l
        BY <2>3, <1>1
      <3> QED  BY <3>1, <3>2, <3>3
    <2>8. inQueue \ {s} \subseteq inQueue'
      BY <2>1, <2>4, <2>5, <2>7
    <2> SUFFICES ASSUME NEW b \in ActivePlayers'  PROVE m_sessions[b] \notin inQueue
      BY <2>3 DEF ActivePlayers, Registered, IInv, TypeOK
    <2>9. b \in Registered /\ b # a /\ m_sessions'[b] = m_sessions[b]
      BY <2>1, <2>3 DEF ActivePlayers, IInv, TypeOK, Registered
    <2>10. m_sessions[b] # s
      BY <2>2, <2>9 DEF IInv, SingleOwner, s
    <2> QED  BY <2>8, <2>9, <2>10 DEF ActivePlayers
  <1>7. ASSUME AdmitSession
        PROVE  \/ ActivePlayers' \subseteq ActivePlayers
               \/ \E a \in ActivePlayers' :
                     HasRecentlyDisconnected(a) /\ m_sessions'[a] # m_sessions[a]
    <2> DEFINE s        == Head(addSessQueue)
               a        == account[s]
               old      == m_sessions[a]
               w        == RemoveOldSession(old)
               total    == Cardinality(Registered \union {a})
               sessions == IF w.found THEN total ELSE total - 1
               full     == WorldFull(a, sessions)
               v        == IF full THEN AddQueuedPlayer(w, s) ELSE w
    <2>1. /\ inQueue' = v.inQueue \ {old} /\ m_QueuedPlayer' = v.queue
          /\ m_sessions' = [m_sessions EXCEPT ![a] = s]
      BY <1>7 DEF AdmitSession, SetWaitingAndDelete
    <2>2. /\ s \in Session /\ a \in Account /\ old # s
          /\ s \notin Range(m_QueuedPlayer)
      BY <1>7, NewSession DEF AdmitSession
    <2> HIDE DEF s
    <2>3. s \notin inQueue
      BY <2>2 DEF FlagRegistered
    <2>4. Registered' = Registered \union {a} /\ total = m
      <3> HIDE DEF a
      <3>1. m_sessions \in [Account -> Session \union {NoSession}] /\ s # NoSession
        BY <2>2, LoginQueueAssumption DEF IInv, TypeOK
      <3>2. ASSUME NEW b \in Account
            PROVE  m_sessions'[b] # NoSession <=> (b = a \/ m_sessions[b] # NoSession)
        BY <2>1, <2>2, <3>1
      <3>3. Registered' = Registered \union {a}
        BY <2>2, <3>2 DEF Registered
      <3> QED  BY <3>3
    <2>5. /\ w \in WaitType /\ WaitOK(w)
          /\ Range(w.queue) \subseteq Range(m_QueuedPlayer)
          /\ w.inQueue \subseteq inQueue
          /\ \/ inQueue \ {old} \subseteq w.inQueue
             \/ m - Len(w.queue) - 1 <= m_playerLimit
      <3>1. CASE old = NoSession
        BY <3>1, <1>5 DEF RemoveOldSession
      <3>2. CASE old # NoSession
        <4>1. /\ w = RemoveQueuedPlayer(Waiting, old)
              /\ a \in Registered /\ old \in Session
          BY <3>2, <2>2 DEF Registered, IInv, TypeOK, RemoveOldSession
        <4>2. m = n
          <5>1. Registered' = Registered
            BY <4>1, <2>4
          <5> QED  BY <5>1
        <4> HIDE DEF w, old, a, m, n
        <4>3. /\ w \in WaitType /\ WaitOK(w)
              /\ Range(w.queue) \subseteq Range(Waiting.queue)
              /\ w.inQueue \subseteq Waiting.inQueue
          BY <4>1, <1>5, RemoveQueuedPlayerOK
        <4>4. \/ Waiting.inQueue \ {old} \subseteq w.inQueue
              \/ n - Len(w.queue) - 1 <= m_playerLimit
          BY <4>1, <1>1, <1>5, RemoveQueuedPlayerLimit DEF n
        <4> QED  BY <4>2, <4>3, <4>4, <1>5
      <3> QED  BY <3>1, <3>2
    <2> HIDE DEF w, a, n, m, total
    <2>6. Len(w.queue) \in Nat
      BY <2>5 DEF WaitOK
    <2>7. /\ v.inQueue = IF full THEN w.inQueue \union {s} ELSE w.inQueue
          /\ Len(v.queue) = IF full THEN Len(w.queue) + 1 ELSE Len(w.queue)
          /\ s \in Range(v.queue) <=> full
      <3>1. s \notin Range(w.queue)
        BY <2>2, <2>5
      <3>2. LET r == AddQueuedPlayer(w, s)
            IN  /\ Range(r.queue) = Range(w.queue) \union {s}
                /\ r.inQueue = w.inQueue \union {s}
                /\ Len(r.queue) = Len(w.queue) + 1
        BY <3>1, <2>2, <2>5, AddQueuedPlayerOK
      <3> HIDE DEF full
      <3>3. CASE full
        BY <3>2, <3>3
      <3>4. CASE ~full
        BY <3>1, <3>4
      <3> QED  BY <3>3, <3>4
    <2> HIDE DEF v
    <2>8. \A b \in Registered' : b # a =>
              b \in Registered /\ m_sessions'[b] = m_sessions[b] /\ m_sessions[b] # old
      <3>1. \A b \in Registered' : b # a =>
                b \in Registered /\ m_sessions'[b] = m_sessions[b] /\ m_sessions[b] # NoSession
        BY <2>1, <2>4 DEF Registered, IInv, TypeOK
      <3>2. \A b \in Registered : b # a /\ a \in Registered => m_sessions[b] # m_sessions[a]
        BY DEF IInv, SingleOwner
      <3>3. a \notin Registered => old = NoSession
        BY <2>2 DEF Registered
      <3> QED  BY <3>1, <3>2, <3>3
    <2>9. a \in Registered' /\ m_sessions'[a] = s /\ m_sessions[a] # s
      BY <2>1, <2>2, <2>4 DEF IInv, TypeOK
    \* The limit is reached: nobody has been let in on the way.
    <2>10. ASSUME a \notin ActivePlayers', inQueue \ {old} \subseteq w.inQueue
           PROVE  ActivePlayers' \subseteq ActivePlayers
      <3> SUFFICES ASSUME NEW b \in ActivePlayers'  PROVE b \in ActivePlayers
        OBVIOUS
      <3>1. b # a /\ b \in Registered' /\ b \notin Staff /\ m_sessions'[b] \notin inQueue'
        BY <2>10 DEF ActivePlayers
      <3>2. b \in Registered /\ m_sessions'[b] = m_sessions[b] /\ m_sessions[b] # old
        BY <3>1, <2>8
      <3>3. w.inQueue \ {old} \subseteq inQueue'
        BY <2>1, <2>7
      <3>4. m_sessions[b] \notin inQueue
        BY <3>1, <3>2, <3>3, <2>10
      <3> QED  BY <3>1, <3>2, <3>4 DEF ActivePlayers
    <2>11. CASE full
      <3>1. a \notin ActivePlayers'
        BY <2>1, <2>2, <2>7, <2>9, <2>11 DEF ActivePlayers
      <3>2. ~(m - Len(w.queue) - 1 <= m_playerLimit)
        <4>1. ~(m - Len(m_QueuedPlayer') <= m_playerLimit)
          BY <1>2, <1>3, <1>4
        <4>2. Len(m_QueuedPlayer') = Len(w.queue) + 1
          BY <2>1, <2>7, <2>11
        <4>3. PICK l \in Nat : l = Len(w.queue)
          BY <2>6
        <4>4. m - (l + 1) = m - l - 1
          BY <1>1
        <4> QED  BY <4>1, <4>2, <4>3, <4>4
      <3> QED  BY <3>1, <3>2, <2>5, <2>10
    <2>12. CASE ~full /\ a \in Staff
      <3>1. a \notin ActivePlayers'
        BY <2>12 DEF ActivePlayers
      <3>2. a \in Admitted
        BY <2>1, <2>7, <2>9, <2>12
      <3>3. ~(m - Len(w.queue) - 1 <= m_playerLimit)
        <4> HIDE DEF Admitted
        <4>1. /\ IsFiniteSet(Admitted \ {a})
              /\ Cardinality(Admitted \ {a}) = Cardinality(Admitted) - 1
          BY <3>2, <1>3, FS_RemoveElement
        <4>2. ~(Cardinality(Admitted) - 1 <= m_playerLimit)
          BY <4>1, <3>1, <1>2, <1>4
        <4>3. Cardinality(Admitted) = m - Len(w.queue)
          BY <1>3, <2>1, <2>7, <2>12
        <4> QED  BY <4>2, <4>3
      <3> QED  BY <3>1, <3>3, <2>5, <2>10
    <2>13. CASE ~full /\ a \notin Staff
      <3>1. ~(total - 1 < m_playerLimit)
        <4>1. ~(m <= m_playerLimit)
          BY <1>1, <1>4 DEF ActivePlayers, m
        <4> QED  BY <4>1, <2>4, <1>1
      <3>2. sessions >= m_playerLimit
        BY <3>1, <2>4, <1>1
      <3>3. HasRecentlyDisconnected(a)
        BY <3>2, <2>13, <1>1 DEF WorldFull
      <3>4. a \in ActivePlayers'
        BY <2>1, <2>3, <2>5, <2>7, <2>9, <2>13 DEF ActivePlayers
      <3> QED  BY <3>3, <3>4, <2>9
    <2> QED  BY <2>11, <2>12, <2>13
  <1>8. CASE RejectSession
    <2>1. inQueue' = inQueue \ {Head(addSessQueue)} /\ UNCHANGED m_sessions
              /\ addSessQueue # <<>>
      BY <1>8 DEF RejectSession, SetWaitingAndDelete, Waiting
    <2>2. \A b \in Registered : m_sessions[b] # Head(addSessQueue)
      BY <2>1, NewSession DEF IInv, SingleOwner
    <2> QED  BY <2>1, <2>2 DEF ActivePlayers, Registered
  <1>9. CASE UNCHANGED <<m_sessions, inQueue>>
    BY <1>9 DEF ActivePlayers, Registered
  <1> QED
    BY <1>6, <1>7, <1>8, <1>9
       DEF Next, Network, UpdateSessions, Command, AddSession, CloseSocket, BeginUpdate,
           KeepSession, EndUpdate, NextTick, SetPlayerAmountLimit, KickAllLess, KickAll,
           Stopped, vars, worldVars, sessionVars

\* No step lets players in beyond m_playerLimit, in spite of reconnects and of
\* the two calls of RemoveQueuedPlayer for one session, except a step that
\* takes in a player who has left recently, while the tolerance is on.
THEOREM LimitKept == Spec => LimitRespected
  <1>1. Init => FlagRegistered
    BY DEF Init, FlagRegistered
  <1>2. IInv /\ FlagRegistered /\ [Next]_vars => FlagRegistered'
    BY FlagRegisteredStep
  <1>3. IInv /\ IInv' /\ FlagRegistered /\ [Next]_vars =>
          [ \/ m_playerLimit = 0
            \/ Cardinality(ActivePlayers') <= Cardinality(ActivePlayers)
            \/ Cardinality(ActivePlayers') <= m_playerLimit
            \/ \E a \in ActivePlayers' :
                   HasRecentlyDisconnected(a) /\ m_sessions'[a] # m_sessions[a] ]_vars
    BY LimitStep
  <1> QED  BY <1>1, <1>2, <1>3, InitIInv, NextIInv, PTL DEF Spec, LimitRespected

-----------------------------------------------------------------------------
(* No slot for players stays free while somebody waits                     *)

\* A step that brings staff in where there were none changes nothing for players.
LEMMA StaffComeIn ==
    ASSUME IInv, [Next]_vars, Registered \intersect Staff = {},
           Registered' \intersect Staff # {}
    PROVE  PlayersIn' = PlayersIn /\ m_QueuedPlayer' = m_QueuedPlayer
  <1>1. PICK b \in Staff : m_sessions[b] = NoSession /\ m_sessions'[b] # NoSession
    BY LoginQueueAssumption DEF Registered
  <1>2. b \in Account /\ m_sessions' # m_sessions
    BY <1>1, LoginQueueAssumption
  <1>3. CASE AdmitSession
    <2> DEFINE s == Head(addSessQueue)
               a == account[s]
    <2>1. /\ m_sessions' = [m_sessions EXCEPT ![a] = s]
          /\ m_QueuedPlayer' =
                (IF WorldFull(a, IF RemoveOldSession(m_sessions[a]).found
                                 THEN Cardinality(Registered \union {a})
                                 ELSE Cardinality(Registered \union {a}) - 1)
                 THEN AddQueuedPlayer(RemoveOldSession(m_sessions[a]), s)
                 ELSE RemoveOldSession(m_sessions[a])).queue
      BY <1>3 DEF AdmitSession, SetWaitingAndDelete
    <2>2. m_sessions \in [Account -> Session \union {NoSession}]
      BY DEF IInv, TypeOK
    <2> HIDE DEF s, a
    <2>3. a = b
      BY <1>1, <1>2, <2>1, <2>2
    <2>4. m_QueuedPlayer' = m_QueuedPlayer
      BY <1>1, <2>1, <2>3 DEF WorldFull, RemoveOldSession, Waiting
    <2>5. \A c \in Account \ Staff : m_sessions'[c] = m_sessions[c]
      BY <2>1, <2>2, <2>3
    <2> QED  BY <2>4, <2>5, LoginQueueAssumption DEF PlayersIn, Registered
  <1>4. CASE \E c \in Account : DropSession(c)
    BY <1>1, <1>2, <1>4 DEF DropSession, IInv, TypeOK
  <1>5. CASE m_sessions' = m_sessions
    BY <1>2, <1>5
  <1> QED
    BY <1>3, <1>4, <1>5
       DEF Next, Network, UpdateSessions, Command, AddSession, CloseSocket, RejectSession,
           BeginUpdate, KeepSession, EndUpdate, NextTick, SetPlayerAmountLimit, KickAllLess,
           KickAll, Stopped, vars, worldVars

\* No step that keeps the limit leaves a player waiting beside a slot that no player
\* has, unless staff are in.
LEMMA PlayerSlotsStep ==
    ASSUME IInv, IInv', [Next]_vars, Registered \intersect Staff = {}, NoIdlePlayerSlot,
           UNCHANGED m_playerLimit
    PROVE  NoIdlePlayerSlot'
  <1>1. NoIdleSlot
    <2>1. IsFiniteSet(Registered) /\ PlayersIn = {a \in Registered : m_sessions[a]
                                                     \notin Range(m_QueuedPlayer)}
      BY LoginQueueAssumption, FS_Subset DEF Registered, PlayersIn
    <2>2. /\ m_QueuedPlayer \in Seq(Session) /\ NoDuplicates(m_QueuedPlayer)
          /\ \A a \in Registered : account[m_sessions[a]] = a
          /\ \A s \in Range(m_QueuedPlayer) :
                account[s] \in Registered /\ m_sessions[account[s]] = s
      <3>1. Range(m_QueuedPlayer) \subseteq Session
        BY DEF IInv, TypeOK, Range
      <3> QED  BY <3>1, LoginQueueAssumption DEF IInv, TypeOK, SingleOwner, QueueRegistered, Registered
    <2>3. Cardinality(PlayersIn) = ActiveSessionCount(m_QueuedPlayer)
      BY <2>1, <2>2, CountAdmitted DEF ActiveSessionCount
    <2> QED  BY <2>3 DEF NoIdlePlayerSlot, NoIdleSlot
  <1>2. NoIdleSlot'
    BY <1>1, SlotsStep
  <1>3. CASE Registered' \intersect Staff = {}
    <2>1. IsFiniteSet(Registered') /\ PlayersIn' = {a \in Registered' : m_sessions'[a]
                                                     \notin Range(m_QueuedPlayer')}
      BY <1>3, LoginQueueAssumption, FS_Subset DEF Registered, PlayersIn
    <2>2. /\ m_QueuedPlayer' \in Seq(Session) /\ NoDuplicates(m_QueuedPlayer')
          /\ \A a \in Registered' : account'[m_sessions'[a]] = a
          /\ \A s \in Range(m_QueuedPlayer') :
                account'[s] \in Registered' /\ m_sessions'[account'[s]] = s
      <3>1. Range(m_QueuedPlayer') \subseteq Session
        BY DEF IInv, TypeOK, Range
      <3> QED  BY <3>1, LoginQueueAssumption DEF IInv, TypeOK, SingleOwner, QueueRegistered, Registered
    <2>3. Cardinality(PlayersIn') = Cardinality(Registered') - Len(m_QueuedPlayer')
      BY <2>1, <2>2, CountAdmitted
    <2> QED  BY <1>2, <2>3 DEF NoIdlePlayerSlot, NoIdleSlot, ActiveSessionCount
  <1>4. CASE Registered' \intersect Staff # {}
    BY <1>4, StaffComeIn DEF NoIdlePlayerSlot
  <1> QED  BY <1>3, <1>4

\* While no staff are in, no step of the admission code leaves a player waiting beside
\* a free slot unless it changes the limit, in spite of reconnects, double removals
\* and sessions that bypass the queue.
THEOREM NoSlotWasted == Spec => SlotsGivenAway
  <1>1. IInv /\ IInv' /\ [Next]_vars
           => [Registered \intersect Staff = {} /\ NoIdlePlayerSlot
               /\ UNCHANGED m_playerLimit => NoIdlePlayerSlot']_vars
    BY PlayerSlotsStep
  <1> QED  BY <1>1, InitIInv, NextIInv, PTL DEF Spec, SlotsGivenAway
=============================================================================
